------------------------------ MODULE AIAnswer -------------------------------
(***************************************************************************)
(* The answer of a language model on its way to the client: the stream of the *)
(* provider as it is forwarded and converted, and its moderation. Two state *)
(* machines, each with its own variables.                                  *)
(***************************************************************************)
EXTENDS Integers, Sequences, SequencesExt

-----------------------------------------------------------------------------
(***************************************************************************)
(* A provider's streamed answer on its way to the client: the forwarders   *)
(* and the writer of pkg/plugin/ai_stream inside writeProviderResponse of  *)
(* ai-proxy and ai-proxy-multi.  The provider sends lines (frames for      *)
(* Bedrock), ends, breaks off or sends what cannot be decoded; the client  *)
(* or the deadline of the stream may end the request at any moment; the    *)
(* writer flushes from a goroutine of its own.                             *)
(*                                                                         *)
(* Events are records of a type and, for a content block, its index; of    *)
(* the tokens only whether they were counted is kept.  The provider of a   *)
(* converted stream sends the fragments of one tool call before it begins  *)
(* the next, as the OpenAI protocol does.                                  *)
(***************************************************************************)

CONSTANTS
    Kinds,      \* which forwarders: "sse", "aws", "anthropic"
    Owners,     \* which plugins: "ai-proxy", "ai-proxy-multi"
    MaxLines,   \* bound: lines or frames a provider sends
    MaxTools    \* bound: tool calls of a converted answer

StreamConfig ==
    /\ Kinds \subseteq {"sse", "aws", "anthropic"} /\ Owners \subseteq {"ai-proxy", "ai-proxy-multi"}
    /\ MaxLines \in Nat /\ MaxTools \in Nat

VARIABLES
    cfg,        \* [kind, owner, limit: max_response_bytes in lines, 0 for none, flushes: by a goroutine]
    pc,         \* "forwarding", "failed", "answering", "closing", "ended"
    lines,      \* lines read
    held,       \* data lines of the event that ForwardSSE has not written yet
    conv,       \* the anthropicStreamState
    usage,      \* whether the provider has told its usage
    fw,         \* the FlushWriter
    client,     \* what the client was sent, in order
    request,    \* the context of the request: "live", "gone" or "late"
    outcome,    \* of RecordStreamOutcome
    counted     \* the usage was registered for the request

streamVars == <<cfg, pc, lines, held, conv, usage, fw, client, request, outcome, counted>>

Event(type, index) == [type |-> type, index |-> index]
Plain(type) == Event(type, -1)

\* NewFlushWriter.
NewFlushWriter(flushes) ==
    [wrote |-> FALSE, pending |-> FALSE, loop |-> IF flushes THEN "running" ELSE "none"]

Idle == [started |-> FALSE, done |-> FALSE, next |-> 0, open |-> -1, type |-> "none",
         tools |-> <<>>, pending |-> FALSE]

StreamInit ==
    /\ cfg \in [kind : Kinds, owner : Owners, limit : {0, MaxLines - 1}, flushes : BOOLEAN]
    /\ pc = "forwarding" /\ lines = 0 /\ held = 0
    /\ conv = Idle /\ usage = FALSE
    /\ fw = NewFlushWriter(cfg.flushes)
    /\ client = <<>> /\ request = "live" /\ outcome = "none" /\ counted = FALSE

-----------------------------------------------------------------------------
(* FlushWriter.                                                            *)

\* Write: the status goes out with the first bytes.
Sent(events) ==
    IF events = <<>> THEN UNCHANGED <<fw, client>>
    ELSE /\ fw' = [fw EXCEPT !.wrote = TRUE, !.pending = TRUE]
         /\ client' = client \o (IF fw.wrote THEN <<>> ELSE <<Plain("header")>>) \o events

\* A write to a client that has gone fails.
Write(events) == (events # <<>> => request # "gone") /\ Sent(events)

\* flushLoop: a tick, and the last flush when it is told to stop.
FlushTick ==
    /\ fw.loop = "running" /\ fw.pending
    /\ fw' = [fw EXCEPT !.pending = FALSE]
    /\ UNCHANGED <<cfg, pc, lines, held, conv, usage, client, request, outcome, counted>>

FlushLoopEnds ==
    /\ fw.loop = "stopping"
    /\ fw' = [fw EXCEPT !.loop = "done", !.pending = FALSE]
    /\ UNCHANGED <<cfg, pc, lines, held, conv, usage, client, request, outcome, counted>>

\* A mutant of Close: it does not wait for the loop.
Close_NoWait ==
    /\ fw' = [fw EXCEPT !.loop = IF @ = "running" THEN "stopping" ELSE @, !.pending = FALSE]
    /\ pc' = "ended"

\* Close: with a loop, it returns when the loop has; without one it flushes.
Close ==
    IF fw.loop = "running"
    THEN fw' = [fw EXCEPT !.loop = "stopping"] /\ pc' = pc
    ELSE fw.loop # "stopping" /\ fw' = [fw EXCEPT !.pending = FALSE] /\ pc' = "ended"

-----------------------------------------------------------------------------
(* The converter of an OpenAI stream to Anthropic's.                       *)

\* closeCurrentBlock.
closeCurrentBlock(s) == IF s.open < 0 THEN <<>> ELSE <<Event("content_block_stop", s.open)>>
Closed(s) == [s EXCEPT !.open = -1, !.type = "none"]

\* A mutant of ensureBlock: the block of another type is not closed.
ensureBlock_Overlaps(s, type) ==
    IF s.open >= 0 /\ s.type = type
    THEN [s |-> s, out |-> <<>>]
    ELSE [s |-> [s EXCEPT !.open = s.next, !.next = @ + 1, !.type = type],
          out |-> <<Event("content_block_start", s.next)>>]

\* ensureBlock: one block at a time, of the type of what follows.
ensureBlock(s, type) ==
    IF s.open >= 0 /\ s.type = type
    THEN [s |-> s, out |-> <<>>]
    ELSE [s |-> [s EXCEPT !.open = s.next, !.next = @ + 1, !.type = type],
          out |-> Append(closeCurrentBlock(s), Event("content_block_start", s.next))]

\* A text or a reasoning of the delta.
Spoken(s, type) ==
    LET b == ensureBlock(s, type) IN
    [s |-> b.s, out |-> Append(b.out, Event("content_block_delta", b.s.open))]

\* A fragment of the tool call i: the first opens its block, and carries the name.
ToolFragment(s, i) ==
    IF i <= Len(s.tools)
    THEN [s |-> s, out |-> <<Event("content_block_delta", s.tools[i])>>]
    ELSE [s |-> [s EXCEPT !.open = s.next, !.next = @ + 1, !.type = "tool_use", !.tools = Append(@, s.next)],
          out |-> closeCurrentBlock(s) \o
                  <<Event("content_block_start", s.next), Event("content_block_delta", s.next)>>]

\* flushPendingStop: the end of the message, held back until the usage or the
\* end of the stream.
flushPendingStop(s) ==
    IF s.pending
    THEN [s |-> [s EXCEPT !.pending = FALSE], out |-> <<Plain("message_delta"), Plain("message_stop")>>]
    ELSE [s |-> s, out |-> <<>>]

\* A mutant of finish: the message is ended again.
finish_Again(s) ==
    IF s.pending THEN flushPendingStop(s)
    ELSE IF ~s.started THEN [s |-> s, out |-> <<>>]
    ELSE [s |-> [Closed(s) EXCEPT !.done = TRUE],
          out |-> closeCurrentBlock(s) \o <<Plain("message_delta"), Plain("message_stop")>>]

\* finish: at [DONE] and at the end of the stream.
finish(s) ==
    IF s.pending THEN flushPendingStop(s)
    ELSE IF ~s.started \/ s.done THEN [s |-> s, out |-> <<>>]
    ELSE [s |-> [Closed(s) EXCEPT !.done = TRUE],
          out |-> closeCurrentBlock(s) \o <<Plain("message_delta"), Plain("message_stop")>>]

\* The chunks of a provider: what the delta of the first choice holds, whether
\* it carries usage, and whether it ends the message.
Chunks == [says : {"nothing", "thinking", "text", "tool"}, finishes : BOOLEAN, usage : BOOLEAN]
              \cup [says : {"no choices", "error", "[DONE]"}, finishes : {FALSE}, usage : BOOLEAN]

Start(s) == IF s.started THEN [s |-> s, out |-> <<>>]
            ELSE [s |-> [s EXCEPT !.started = TRUE], out |-> <<Plain("message_start")>>]

\* The parts of a chunk one after the other.
Then(a, b) == [s |-> b.s, out |-> a.out \o b.out]

\* convertChunk, for the tool call i if the chunk has a fragment of one.
convertChunk(s, c, i) ==
    CASE c.says = "error" -> [s |-> [s EXCEPT !.done = TRUE], out |-> <<Plain("error")>>]
      [] c.says # "error" /\ s.done -> flushPendingStop(s)
      [] c.says = "no choices" /\ ~s.done -> [s |-> s, out |-> <<>>]
      [] OTHER ->
           LET begun == Start(s)
               said == CASE c.says = "nothing" -> [s |-> begun.s, out |-> <<>>]
                         [] c.says = "tool" -> ToolFragment(begun.s, i)
                         [] OTHER -> Spoken(begun.s, c.says)
               ended == IF c.finishes
                        THEN [s |-> [Closed(said.s) EXCEPT !.pending = TRUE, !.done = TRUE],
                              out |-> closeCurrentBlock(said.s)]
                        ELSE [s |-> said.s, out |-> <<>>]
           IN  Then(Then(begun, said), ended)

\* convertLine.
convertLine(s, c, i) == IF c.says = "[DONE]" THEN finish(s) ELSE convertChunk(s, c, i)

-----------------------------------------------------------------------------
(* The forwarders.                                                         *)

\* mergeSSEUsage and mergeUsage: a data line may tell the usage.
mergeSSEUsage == {usage, TRUE}
mergeUsage(c) == usage \/ (c.usage /\ c.says # "[DONE]")

\* mergeBedrockEventStreamUsage: the metadata may tell the usage, and it is the
\* last frame like an exception.
mergeBedrockEventStreamUsage(frame) == IF frame = "metadata" THEN {usage, TRUE} ELSE {usage}
LastFrames == {"metadata", "exception"}

\* RegisterStreamingLLMRequestVars.
RegisterStreamingLLMRequestVars(told) == counted' = told

Forwarding == pc = "forwarding"
OverLimit == cfg.limit > 0 /\ lines + 1 > cfg.limit

\* What is not a line of the stream: too much, undecodable, a broken connection
\* or, once the request has ended, its cancelled context.
Fails ==
    /\ Forwarding
    /\ pc' = "failed" /\ held' = 0
    /\ UNCHANGED <<cfg, lines, conv, usage, fw, client, request, outcome, counted>>

\* ForwardOpenAIAsAnthropicSSE: a line.
ForwardOpenAIAsAnthropicSSE ==
    /\ Forwarding /\ cfg.kind = "anthropic" /\ lines < MaxLines /\ ~OverLimit
    /\ \E c \in Chunks :
       \E i \in IF c.says = "tool" THEN {Len(conv.tools), Len(conv.tools) + 1} \cap 1..MaxTools ELSE {1} :
         \* the fragments of a tool call follow each other
         /\ c.says = "tool" /\ i <= Len(conv.tools) => conv.type = "tool_use"
         /\ LET r == convertLine(conv, c, i) IN
            /\ Write(r.out)
            /\ conv' = r.s
         /\ usage' = mergeUsage(c)
    /\ lines' = lines + 1
    /\ UNCHANGED <<cfg, pc, held, request, outcome, counted>>

\* ForwardSSE: a data line is kept until the blank line that ends its event.
ForwardSSE ==
    /\ Forwarding /\ cfg.kind = "sse" /\ lines < MaxLines /\ ~OverLimit
    /\ \/ /\ held' = held + 1 /\ usage' \in mergeSSEUsage
          /\ UNCHANGED <<fw, client>>
       \/ /\ Write(<<Event("event", held)>>)
          /\ held' = 0 /\ UNCHANGED usage
    /\ lines' = lines + 1
    /\ UNCHANGED <<cfg, pc, conv, request, outcome, counted>>

\* ForwardAWSEventStream: a frame; the metadata and an exception are the last.
ForwardAWSEventStream ==
    /\ Forwarding /\ cfg.kind = "aws" /\ lines < MaxLines /\ ~OverLimit
    /\ \E frame \in {"delta", "metadata", "exception"} :
         /\ Write(<<Plain(frame)>>)
         /\ usage' \in mergeBedrockEventStreamUsage(frame)
         /\ IF frame \in LastFrames
            THEN pc' = "closing" /\ outcome' = "success" /\ RegisterStreamingLLMRequestVars(usage')
            ELSE UNCHANGED <<pc, outcome, counted>>
    /\ lines' = lines + 1
    /\ UNCHANGED <<cfg, held, conv, request>>

\* What each forwarder does when the provider's stream has ended.
AtEnd == CASE cfg.kind = "anthropic" -> finish(conv)
           [] cfg.kind = "sse" -> [s |-> conv, out |-> IF held > 0 THEN <<Event("event", held)>> ELSE <<>>]
           [] OTHER -> [s |-> conv, out |-> <<>>]

ProviderEnds ==
    /\ Forwarding
    /\ Write(AtEnd.out)
    /\ conv' = AtEnd.s /\ held' = 0
    /\ IF cfg.kind = "anthropic" /\ ~fw.wrote /\ AtEnd.out = <<>>
       THEN pc' = "failed" /\ UNCHANGED <<outcome, counted>>        \* ErrNoStreamOutput
       ELSE pc' = "closing" /\ outcome' = "success" /\ RegisterStreamingLLMRequestVars(usage)
    /\ UNCHANGED <<cfg, lines, usage, request>>

-----------------------------------------------------------------------------
(* writeProviderResponse.                                                  *)

\* RecordStreamOutcome.
RecordStreamOutcome == IF request = "live" THEN "error" ELSE "canceled"

\* WriteTerminalError.
WriteTerminalError == Sent(<<Plain("terminal")>>)

\* The forwarder has returned an error.
Recorded ==
    /\ pc = "failed"
    /\ outcome' = RecordStreamOutcome
    /\ pc' = "answering"
    /\ UNCHANGED <<cfg, lines, held, conv, usage, fw, client, request, counted>>

\* A mutant: a stream that broke off is left as it is.
Answers_Silent ==
    /\ pc = "answering" /\ pc' = "closing"
    /\ client' = IF outcome = "error" /\ ~fw.wrote THEN <<Plain("502")>> ELSE client
    /\ UNCHANGED <<cfg, lines, held, conv, usage, fw, request, outcome, counted>>

\* The answer to a failure: an error response when nothing was sent, which the
\* closing of the writer precedes, or else an event that ends the stream.
Answers ==
    /\ pc = "answering"
    /\ IF outcome = "error" /\ ~fw.wrote /\ fw.loop \in {"running", "stopping"}
       THEN Close /\ UNCHANGED client
       ELSE /\ pc' = "closing"
            /\ \/ outcome = "error" /\ ~fw.wrote /\ client' = <<Plain("502")>> /\ UNCHANGED fw
               \/ outcome = "error" /\ fw.wrote /\ WriteTerminalError
               \/ outcome = "canceled" /\ UNCHANGED <<fw, client>>
    /\ UNCHANGED <<cfg, lines, held, conv, usage, request, outcome, counted>>

\* The writer is closed; ai-proxy then sends the status of an empty stream.
Closing ==
    /\ pc = "closing"
    /\ Close
    /\ client' = IF pc' = "ended" /\ outcome = "success" /\ client = <<>> /\ cfg.owner = "ai-proxy"
                 THEN <<Plain("header")>> ELSE client
    /\ UNCHANGED <<cfg, lines, held, conv, usage, request, outcome, counted>>

\* The client goes away, or the deadline passes.
RequestEnds ==
    /\ request = "live" /\ pc # "ended"
    /\ request' \in {"gone", "late"}
    /\ UNCHANGED <<cfg, pc, lines, held, conv, usage, fw, client, outcome, counted>>

StreamNext == \/ FlushTick \/ FlushLoopEnds \/ Fails \/ ForwardOpenAIAsAnthropicSSE \/ ForwardSSE
        \/ ForwardAWSEventStream \/ ProviderEnds \/ Recorded \/ Answers \/ Closing \/ RequestEnds

StreamSpec == StreamInit /\ [][StreamNext]_streamVars

-----------------------------------------------------------------------------
StreamTypeOK ==
    /\ pc \in {"forwarding", "failed", "answering", "closing", "ended"}
    /\ lines \in 0..MaxLines /\ held \in 0..MaxLines
    /\ fw.loop \in {"none", "running", "stopping", "done"}
    /\ outcome \in {"none", "success", "error", "canceled"}
    /\ client \in Seq([type : STRING, index : Int])

TypeOf(i) == client[i].type
Before(i, type) == \E j \in 1..(i - 1) : TypeOf(j) = type
OpenBefore(i) ==
    {client[j].index : j \in {k \in 1..(i - 1) :
        /\ TypeOf(k) = "content_block_start"
        /\ \A l \in k..(i - 1) : ~(TypeOf(l) = "content_block_stop" /\ client[l].index = client[k].index)}}

\* A stream converted to Anthropic's protocol is one message: it starts once
\* and first, its blocks are numbered in order and never overlap, a delta
\* belongs to the block that is open, and once the message has ended, with
\* every block closed, no part of it follows.
MessageWellFormed ==
    cfg.kind = "anthropic" =>
        \A i \in DOMAIN client :
            /\ TypeOf(i) = "message_start" => ~Before(i, "message_start") /\ i = 2
            /\ TypeOf(i) = "content_block_start" =>
                 /\ Before(i, "message_start") /\ OpenBefore(i) = {}
                 /\ \A j \in 1..(i - 1) : TypeOf(j) = "content_block_start" => client[j].index < client[i].index
            /\ TypeOf(i) \in {"content_block_delta", "content_block_stop"} => OpenBefore(i) = {client[i].index}
            /\ TypeOf(i) = "message_stop" => ~Before(i, "message_stop") /\ OpenBefore(i) = {}
            /\ Before(i, "message_stop") => TypeOf(i) \in {"error", "terminal"}

\* What the client is left with: nothing is written or flushed to it after the
\* handler has returned, an error response is all it gets or none of it, a
\* stream that broke off under a live client says so at its end, and tokens
\* are counted only for a stream that came to its end.
ClientToldRight ==
    /\ pc = "ended" => fw.loop \in {"none", "done"} /\ ~fw.pending
    /\ \A i \in DOMAIN client : TypeOf(i) = "502" => Len(client) = 1
    /\ pc = "ended" /\ outcome = "error" => client # <<>> /\ Last(client).type \in {"502", "terminal"}
    /\ client # <<>> /\ client[1].type # "502" => client[1].type = "header" /\ ~(\E i \in 2..Len(client) : TypeOf(i) = "header")
    /\ counted => outcome = "success" /\ usage

-----------------------------------------------------------------------------
(***************************************************************************)
(* ai-aliyun-content-moderation on the response.  A streamed answer is     *)
(* moderated while it passes: the writer collects the text of the complete *)
(* event lines and has it judged when enough of it, or enough time, has    *)
(* come together, when the last packet is seen and when the stream ends.   *)
(* A buffered answer is judged whole.                                      *)
(*                                                                         *)
(* The bytes of a stream are symbols: a half of an event's line carrying   *)
(* one word, the final packet's line, or the end of a line.  The upstream  *)
(* writes them in pieces cut anywhere.                                     *)
(***************************************************************************)

CONSTANTS Streams, BufferedAnswers, Settings, MaxPiece

VARIABLES setting, status, rest, received, pending, content, moderated,
          sent, blocked, closed

moderationVars == <<setting, status, rest, received, pending, content, moderated,
          sent, blocked, closed>>

Half(w, n) == [word |-> w, part |-> n]
NL   == Half("", 0)
DONE == Half("", 3)
DENY == Half("", 4)

Modes == {"error", "warn", "skip"}

----------------------------------------------------------------------------
(* Settings and the choice of the path. *)

\* PostInit refuses realtime moderation that may not let an answer pass.
PostInit(s) ==
    ~(s.failMode = "error" /\ s.checkResponse /\ s.streamCheckMode = "realtime")

SelectResponseMode(s) ==
    IF s.checkResponse /\ s.streamCheckMode = "realtime" /\ s.readable /\ s.streaming
      THEN "streaming" ELSE "bounded"

WrapStreamingResponse(s) ==
    s.checkResponse /\ s.streamCheckMode = "realtime" /\ s.readable /\ s.streaming

----------------------------------------------------------------------------
(* Text of the stream. *)

\* Words of the lines of a text that ends with a line end: a line is an event
\* when both halves are there, anything else is skipped.
LineEnds(text) == {i \in DOMAIN text : text[i] = NL}

extractSSEText(text) ==
    LET word(i) == IF /\ i >= 3
                      /\ text[i - 1].part = 2 /\ text[i - 2].part = 1
                      /\ text[i - 1].word = text[i - 2].word
                      /\ i = 3 \/ text[i - 3] = NL
                     THEN <<text[i - 1].word>> ELSE <<>>
    IN FlattenSeq([i \in DOMAIN text |-> IF text[i] = NL THEN word(i) ELSE <<>>])

lastNewline(text) ==
    IF LineEnds(text) = {} THEN 0
    ELSE CHOOSE i \in LineEnds(text) : \A j \in LineEnds(text) : j <= i

extractContent_DropsTail(tail, piece) ==
    LET combined == tail \o piece
        n == lastNewline(combined)
    IN [text |-> extractSSEText(SubSeq(combined, 1, n)), pending |-> <<>>]

\* The part after the last line end waits for the next piece.
extractContent(tail, piece) ==
    LET combined == tail \o piece
        n == lastNewline(combined)
    IN [text    |-> extractSSEText(SubSeq(combined, 1, n)),
        pending |-> SubSeq(combined, n + 1, Len(combined))]

isFinalSSEPacket(piece) == \E i \in DOMAIN piece : piece[i] = DONE

----------------------------------------------------------------------------
(* The realtime writer. *)

Verdicts == {"clean", "denied", "failed"}

\* Verdict v on text: the text is no longer kept, a denial is written and ends
\* the stream, a failure of the service lets the stream go on.
moderate_KeepsOpen(text, v, out) ==
    /\ content' = <<>>
    /\ moderated' = Append(moderated, [text |-> text, verdict |-> v])
    /\ blocked' = FALSE
    /\ sent' = IF v = "denied" THEN Append(sent, DENY) \o out ELSE sent \o out

moderate(text, v, out) ==
    /\ content' = <<>>
    /\ moderated' = Append(moderated, [text |-> text, verdict |-> v])
    /\ blocked' = (v = "denied")
    /\ sent' = IF v = "denied" THEN Append(sent, DENY) ELSE sent \o out

CacheFull_Late(text) == Len(text) > setting.cacheSize

CacheFull(text) == Len(text) >= setting.cacheSize

WriteHeader ==
    /\ WrapStreamingResponse(setting)
    /\ status = 0 /\ ~closed
    /\ status' \in {200, 500}
    /\ UNCHANGED <<setting, rest, received, pending, content, moderated, sent,
                   blocked, closed>>

ModerationWrite ==
    /\ WrapStreamingResponse(setting)
    /\ status # 0 /\ ~closed
    /\ rest # <<>>
    /\ \E n \in 1 .. MaxPiece :
         /\ n <= Len(rest)
         /\ LET piece == SubSeq(rest, 1, n)
                e     == extractContent(pending, piece)
                text  == content \o e.text
            IN
            /\ rest' = SubSeq(rest, n + 1, Len(rest))
            /\ CASE blocked ->
                      UNCHANGED <<received, pending, content, moderated, sent, blocked>>
                 [] ~blocked /\ status >= 400 ->
                      /\ received' = received \o piece
                      /\ sent' = sent \o piece
                      /\ UNCHANGED <<pending, content, moderated, blocked>>
                 [] OTHER ->
                      /\ received' = received \o piece
                      /\ pending' = e.pending
                      /\ \E elapsed \in BOOLEAN :
                           IF text # <<>> /\ (CacheFull(text) \/ elapsed
                                                \/ isFinalSSEPacket(piece))
                             THEN \E v \in Verdicts : moderate(text, v, piece)
                             ELSE /\ content' = text
                                  /\ sent' = sent \o piece
                                  /\ UNCHANGED <<moderated, blocked>>
    /\ UNCHANGED <<setting, status, closed>>

Close_LeavesTail ==
    /\ WrapStreamingResponse(setting)
    /\ ~closed /\ closed' = TRUE
    /\ UNCHANGED <<setting, status, rest, received, pending, content, moderated,
                   sent, blocked>>

\* FinishStreamingResponse, when the upstream has ended or failed; a writer
\* that got no status counts as 200.
ModerationClose ==
    /\ WrapStreamingResponse(setting)
    /\ ~closed /\ closed' = TRUE
    /\ pending' = <<>>
    /\ LET text == content \o extractSSEText(pending \o <<NL>>)
       IN IF ~blocked /\ status < 400 /\ text # <<>>
            THEN \E v \in Verdicts : moderate(text, v, <<>>)
            ELSE content' = text /\ UNCHANGED <<moderated, sent, blocked>>
    /\ UNCHANGED <<setting, status, rest, received>>

----------------------------------------------------------------------------
(* The bounded path. *)

\* An answer is its status, whether it is an answer of the protocol and its text.
validResponseEnvelope(a) == a.valid

handleBufferedResponseFailure(s, a, class) ==
    IF s.failMode \in {"warn", "skip"} THEN "delivered"
    ELSE IF class = "upstream_invalid_response" THEN "502" ELSE "503"

writeModeratedResponse_Unjudged(s, a, v) ==
    CASE a.status >= 400 -> "delivered"
      [] a.status < 400 /\ v = "denied" -> "deny"
      [] OTHER -> "delivered"

\* What the client gets of answer a when the service's verdict would be v.
writeModeratedResponse(s, a, v) ==
    CASE a.status >= 400 -> "delivered"
      [] a.status < 400 /\ ~validResponseEnvelope(a) ->
            handleBufferedResponseFailure(s, a, "upstream_invalid_response")
      [] a.status < 400 /\ validResponseEnvelope(a) /\ a.text = <<>> -> "delivered"
      [] a.status < 400 /\ validResponseEnvelope(a) /\ a.text # <<>> /\ v = "failed" ->
            handleBufferedResponseFailure(s, a, "backend_unavailable")
      [] a.status < 400 /\ validResponseEnvelope(a) /\ a.text # <<>> /\ v = "denied" -> "deny"
      [] OTHER -> "delivered"

Judges(s) == s.checkResponse /\ s.readable /\ ~s.streaming

RunBufferedBodyFilter ==
    /\ SelectResponseMode(setting) = "bounded"
    /\ ~closed /\ closed' = TRUE
    /\ \E a \in BufferedAnswers, v \in Verdicts :
         LET ruling == IF Judges(setting)
                          THEN writeModeratedResponse(setting, a, v) ELSE "delivered"
         IN /\ status' = a.status
            /\ received' = <<[valid |-> a.valid, text |-> a.text, verdict |-> v,
                              outcome |-> ruling]>>
    /\ UNCHANGED <<setting, rest, pending, content, moderated, sent, blocked>>

----------------------------------------------------------------------------

ModerationInit ==
    /\ setting \in Settings
    /\ status = 0
    /\ rest \in IF WrapStreamingResponse(setting) THEN Streams ELSE {<<>>}
    /\ received = <<>> /\ pending = <<>> /\ content = <<>>
    /\ moderated = <<>> /\ sent = <<>>
    /\ blocked = FALSE /\ closed = FALSE

ModerationNext == WriteHeader \/ ModerationWrite \/ ModerationClose \/ RunBufferedBodyFilter

ModerationSpec == ModerationInit /\ [][ModerationNext]_moderationVars

ModerationConfig ==
    \A s \in Settings : PostInit(s) /\ s.failMode \in Modes /\ s.cacheSize >= 1

----------------------------------------------------------------------------
(* Properties. *)

Realtime == WrapStreamingResponse(setting) /\ status < 400

Judged == FlattenSeq([i \in DOMAIN moderated |-> moderated[i].text])

ModerationTypeOK ==
    /\ setting \in Settings
    /\ {blocked, closed} \subseteq BOOLEAN
    /\ status \in {0, 200, 500}


\* However the upstream cuts its stream, every word of it is judged exactly
\* once and in order: what has been judged and what is still kept are the words
\* of the lines received, and once the writer is closed nothing is left over,
\* the last line without a line end included.
TextJudgedOnce ==
    (Realtime /\ ~blocked) =>
       IF closed
         THEN Judged = extractSSEText(Append(received, NL))
         ELSE /\ Judged \o content = extractSSEText(SubSeq(received, 1, lastNewline(received)))
              /\ Len(content) < setting.cacheSize

\* A denial ends the stream: the client has the pieces before the denied one
\* and then the denial, once, and never a byte after it; without a denial it
\* has everything that was received.
DenialEnds ==
    WrapStreamingResponse(setting) =>
       /\ blocked = (\E i \in DOMAIN moderated : moderated[i].verdict = "denied")
       /\ IF blocked THEN /\ sent # <<>> /\ Last(sent) = DENY
                          /\ IsPrefix(Front(sent), received)
                     ELSE sent = received

\* A buffered answer a route moderates reaches the client with fail mode error
\* only when it is an error of its own, has no text or was judged clean; in no
\* mode is an answer delivered that was denied.
BufferedRight ==
    (closed /\ SelectResponseMode(setting) = "bounded" /\ Judges(setting)) =>
       LET a == received[1]
       IN (a.outcome = "delivered" /\ status < 400) =>
             /\ a.valid /\ a.text # <<>> => a.verdict # "denied"
             /\ setting.failMode = "error" =>
                   a.valid /\ (a.text = <<>> \/ a.verdict = "clean")

=============================================================================
