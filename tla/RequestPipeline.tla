-------------------------- MODULE RequestPipeline --------------------------
(***************************************************************************)
(* One request through the plugin pipeline of a route (pkg/plugin:         *)
(* executor.go, response_executor.go, streaming_executor.go and            *)
(* log_executor.go) inside the request boundary of the server              *)
(* (pkg/server/route_handler.go, request_body_limit.go) and its lifecycle  *)
(* (pkg/apisix/ctx/lifecycle.go). A route whose plugins transform whole    *)
(* responses buffers the response in a capture until every stage has       *)
(* returned; the others write through to the client. The body of the       *)
(* request is read by the transport while the response is written, and the *)
(* client may go away at any moment.                                       *)
(*                                                                         *)
(* What reaches the client, or the capture, is the sequence of those who   *)
(* wrote to it, without repetitions: <<"upstream", "error">> is an error   *)
(* body appended to an upstream response. ResponsePlan.Install builds a    *)
(* response executor only for a plan that is not empty, so a response      *)
(* execution starts in the mode provisional and never in the mode          *)
(* undecided.                                                              *)
(***************************************************************************)
EXTENDS Integers, Sequences, SequencesExt

CONSTANTS
    Buffers,        \* whether the route may buffer: a subset of BOOLEAN
    Logs            \* whether the route may have log plugins

PipelineConfig == Buffers \in SUBSET BOOLEAN /\ Logs \in SUBSET BOOLEAN

VARIABLES
    cfg,            \* what the route was built with
    pc,             \* where the request is
    panicking,      \* "no", "abort" (http.ErrAbortHandler) or "panic"
    exec,           \* the responseExecution
    capture,        \* what its BufferedResponseWriter holds
    client,         \* what reached the client
    hijacked,
    source,         \* the response source of the lifecycle
    foreign,        \* the final request lost the context of the first one
    published,      \* the cache-hit holder has a response
    gone,           \* the context of the request is cancelled
    body,           \* the limited request body: "unlimited", "fits", "rejected"
    stream,         \* the streaming writers: [committed, open, closed]
    log,            \* the LogRequestState: [prepared, sealed, failed, registered]
    finalizers,     \* those of the lifecycle
    ran,            \* history: the finalizers that have run, in order
    logged,         \* history: what the log callbacks were given
    outcome,        \* the outcome published by Complete, or "none"
    lateError       \* history: the error of a failed seal followed a response

vars == <<cfg, pc, panicking, exec, capture, client, hijacked, source, foreign, published,
          gone, body, stream, log, finalizers, ran, logged, outcome, lateError>>

response == <<exec, capture, client, hijacked>>
logging == <<log, finalizers, ran, logged>>
ending == <<ran, logged, outcome>>

\* What a route can be built with: an exclusive protocol owner beside a
\* buffered plan only when every buffered plugin can also stream.
Routes == {c \in [buffered : Buffers, log : Logs, exclusive : BOOLEAN, dual : BOOLEAN] :
              /\ c.buffered /\ c.exclusive => c.dual
              /\ c.dual => c.buffered}

\* BufferedResponseExecutor.begin.
Begun(buffered) ==
    [mode |-> IF buffered THEN "provisional" ELSE "none", hookCalled |-> FALSE,
     replayed |-> FALSE, overflow |-> FALSE, unsupported |-> FALSE,
     internalFailure |-> FALSE, finalResponse |-> FALSE, activity |-> FALSE,
     transparentCommitted |-> FALSE, plan |-> buffered]

\* What serveRouteRequestForGeneration wraps the writer and the request in.
Init ==
    /\ cfg \in Routes
    /\ pc = "prepare"
    /\ panicking = "no"
    /\ exec = Begun(cfg.buffered)
    /\ capture = <<>> /\ client = <<>> /\ hijacked = FALSE
    /\ source = "unknown"
    /\ foreign = FALSE /\ published = FALSE /\ gone = FALSE
    /\ body \in {"unlimited", "fits"}
    /\ stream = [committed |-> FALSE, open |-> 0, closed |-> 0]
    /\ log = [prepared |-> FALSE, sealed |-> FALSE, failed |-> FALSE, registered |-> FALSE]
    /\ finalizers = <<>> /\ ran = <<>> /\ logged = "nothing"
    /\ outcome = "none"
    /\ lateError = FALSE

-----------------------------------------------------------------------------
(* Writing.                                                                *)

\* The distinct writers of a response, in the order they began.
By(response_, who) ==
    IF response_ # <<>> /\ Last(response_) = who THEN response_ ELSE Append(response_, who)

\* requestBodyLimitState.suppress: nothing of a final response leaves once
\* the body was found too large, unless a response was under way already.
Suppressed == body = "rejected" /\ client = <<>>

\* What the client has after `who' wrote a final header or a body to the
\* writer of the server, which refuses to write to a hijacked connection.
Reaching(who) == IF Suppressed \/ hijacked THEN client ELSE By(client, who)

Buffering == exec.mode \in {"provisional", "bounded"}

\* write, writeHeader of a final status: into the capture while buffering,
\* through to the client otherwise.
Written(who) ==
    IF Buffering
    THEN /\ capture' = IF exec.overflow THEN capture ELSE By(capture, who)
         /\ exec' = IF exec.overflow THEN exec
                    ELSE [exec EXCEPT !.finalResponse = TRUE, !.activity = TRUE]
         /\ UNCHANGED client
    ELSE /\ client' = Reaching(who)
         /\ exec' = IF exec.mode = "none" THEN exec ELSE [exec EXCEPT !.transparentCommitted = TRUE]
         /\ UNCHANGED capture

\* What replayCapture makes of an execution and of the client.
Replayed(e) ==
    IF e.replayed THEN e
    ELSE [e EXCEPT !.replayed = TRUE, !.mode = "transparent",
                   !.transparentCommitted = @ \/ e.finalResponse \/ e.activity]
ReplayReaches(e) == IF e.replayed \/ ~e.finalResponse \/ Suppressed THEN client ELSE client \o capture

\* A failure once something may have reached the client aborts the
\* connection; before that it becomes an error response.
RequiresAbort == exec.transparentCommitted

-----------------------------------------------------------------------------
(* The log of the request.                                                 *)

\* AddFinalizer: refused once the finalizers are being run.
Finalizing == outcome # "none"
WithFinalizer(owner) == IF Finalizing THEN finalizers ELSE Append(finalizers, owner)

\* SealFinalRequest and RegisterComposite: each once per request, found
\* through the context of the request they are given.
SealAndRegister(failed) ==
    IF foreign \/ ~log.prepared
    THEN UNCHANGED <<log, finalizers>>
    ELSE /\ log' = [log EXCEPT !.sealed = TRUE, !.registered = TRUE,
                               !.failed = @ \/ (~log.sealed /\ failed)]
         /\ finalizers' = IF log.registered THEN finalizers ELSE WithFinalizer("log")

\* The error SealFinalRequest returns: the one kept by the first seal.
SealFails(failed) == ~foreign /\ log.prepared /\ (log.failed \/ (~log.sealed /\ failed))

\* A prepared body is read again only when a stage replaced the request; the
\* second reading may then fail.
MayFail == IF log.prepared /\ ~log.sealed THEN BOOLEAN ELSE {FALSE}

\* LogExecutor.Prepare; its failure is the only one that registers before the
\* error is written.
Prepare ==
    /\ pc = "prepare"
    /\ \/ /\ log' = [log EXCEPT !.prepared = cfg.log]
          /\ pc' = "early"
          /\ UNCHANGED <<response, source, finalizers>>
       \/ /\ cfg.log
          /\ log' = [log EXCEPT !.prepared = TRUE, !.registered = TRUE, !.failed = TRUE]
          /\ finalizers' = WithFinalizer("log")
          /\ source' = "apisix"
          /\ client' = Reaching("error")
          /\ pc' = "ended"
          /\ UNCHANGED <<exec, capture, hijacked>>
    /\ UNCHANGED <<cfg, panicking, foreign, published, gone, body, stream, ending, lateError>>

-----------------------------------------------------------------------------
(* The request stages.                                                     *)

\* AdaptRequestPhase: a plugin continues, with the request it was given or
\* with another one, or registers a finalizer of its own before it does.
StageContinues ==
    /\ pc \in {"early", "late"}
    /\ pc' = IF pc = "early" THEN "resolve" ELSE "boundary"
    /\ foreign' \in {foreign, TRUE}
    /\ finalizers' \in {finalizers, WithFinalizer("plugin")}
    /\ UNCHANGED <<cfg, panicking, response, source, published, gone, body, stream, log, ending, lateError>>

\* A plugin answers the request itself.
StageStops ==
    /\ pc \in {"early", "late"}
    /\ source' \in {"early_stop", "apisix"}
    /\ \/ Written("stop")
       \/ UNCHANGED <<exec, capture, client>>
    /\ pc' = "returned"
    /\ UNCHANGED <<cfg, panicking, hijacked, foreign, published, gone, body, stream, logging, outcome, lateError>>

\* A cache plugin, which is a plugin of the buffered plan, publishes the
\* stored response to the holder and stops.
StageHits ==
    /\ pc = "late" /\ exec.plan /\ ~foreign
    /\ published' = TRUE
    /\ source' = "cache_hit"
    /\ pc' = "returned"
    /\ UNCHANGED <<cfg, panicking, response, foreign, gone, body, stream, logging, outcome, lateError>>

StagePanics ==
    /\ pc \in {"early", "late"}
    /\ panicking' \in {"abort", "panic"}
    /\ pc' = "unwinding"
    /\ UNCHANGED <<cfg, response, source, foreign, published, gone, body, stream, logging, outcome, lateError>>

\* writeResolutionFailure, writeLogPreparationFailure and the failed hook of
\* runMaterializedResolved.
FailsBeforeProxy ==
    IF RequiresAbort
    THEN /\ panicking' = "abort" /\ pc' = "unwinding"
         /\ exec' = [exec EXCEPT !.internalFailure = TRUE]
         /\ UNCHANGED <<capture, client, source>>
    ELSE /\ pc' = "returned"
         /\ source' = IF foreign THEN source ELSE "apisix"
         /\ IF Buffering
            THEN /\ exec' = [exec EXCEPT !.internalFailure = TRUE, !.finalResponse = TRUE, !.activity = TRUE]
                 /\ capture' = By(capture, "error")
                 /\ UNCHANGED client
            ELSE /\ exec' = [exec EXCEPT !.internalFailure = TRUE]
                 /\ client' = Reaching("error")
                 /\ UNCHANGED capture
         /\ UNCHANGED panicking

\* The PostResolutionHook of the buffered executor: the effective bindings keep
\* the plan, or leave nothing to buffer and what was captured is replayed.
HookDecides ==
    \/ /\ exec' = [exec EXCEPT !.hookCalled = TRUE, !.mode = "bounded", !.plan = TRUE]
       /\ UNCHANGED client
    \/ LET e == [exec EXCEPT !.hookCalled = TRUE, !.plan = FALSE, !.mode = "transparent"] IN
       /\ exec' = Replayed(e)
       /\ client' = ReplayReaches(e)

\* runResolved: the bindings of the consumer join those of the route, and the
\* hook decides whether the request is still buffered. A request without the
\* context of the first one has no execution to decide for.
ResolveOK ==
    /\ pc = "resolve"
    /\ ~(cfg.buffered /\ foreign)
    /\ pc' = "late"
    /\ IF ~cfg.buffered
       THEN UNCHANGED <<exec, client>>
       ELSE HookDecides
    /\ UNCHANGED <<cfg, panicking, capture, hijacked, source, foreign, published, gone, body, stream, logging, outcome, lateError>>

ResolveFails ==
    /\ pc = "resolve"
    /\ FailsBeforeProxy
    /\ UNCHANGED <<cfg, hijacked, foreign, published, gone, body, stream, logging, outcome, lateError>>

-----------------------------------------------------------------------------
(* The boundary before the proxy, and the terminal.                        *)

\* SealAndRegister at the boundary of buildPostResolutionHandler.
Boundary ==
    /\ pc = "boundary"
    /\ \E failed \in MayFail :
         /\ SealAndRegister(failed)
         /\ IF SealFails(failed)
            THEN FailsBeforeProxy
            ELSE pc' = "hooks" /\ UNCHANGED <<panicking, exec, capture, client, source>>
    /\ UNCHANGED <<cfg, hijacked, foreign, published, gone, body, stream, ending, lateError>>

\* RunBeforeProxyHooks fails: its error is an answer like another.
HooksFail ==
    /\ pc = "hooks"
    /\ source' = IF foreign THEN source ELSE "apisix"
    /\ Written("error")
    /\ pc' = "returned"
    /\ UNCHANGED <<cfg, panicking, hijacked, foreign, published, gone, body, stream, logging, outcome, lateError>>

\* selectRequestResponseMode cannot be satisfied.
ModesDisagree ==
    /\ pc = "hooks" /\ cfg.dual /\ exec.plan
    /\ exec' = [exec EXCEPT !.internalFailure = TRUE]
    /\ pc' = "returned"
    /\ UNCHANGED <<cfg, panicking, capture, client, hijacked, source, foreign, published, gone,
                   body, stream, logging, outcome, lateError>>

\* The upstream or the exclusive owner is about to answer: it streams when
\* nothing is buffered, or when the plugins of the plan chose to stream.
EnterTerminal ==
    /\ pc = "hooks"
    /\ \E streams \in IF cfg.dual /\ exec.plan THEN BOOLEAN ELSE {FALSE} :
         LET e == IF streams THEN [exec EXCEPT !.plan = FALSE] ELSE exec IN
         /\ exec' = IF streams THEN Replayed(e) ELSE e
         /\ client' = IF streams THEN ReplayReaches(e) ELSE client
         /\ \/ /\ stream' = [stream EXCEPT !.open = IF exec'.mode \in {"none", "transparent"} THEN 1 ELSE 0]
               /\ source' = IF source = "unknown" /\ ~cfg.exclusive /\ ~foreign
                            THEN "upstream" ELSE source
               /\ pc' = "terminal"
            \/ /\ exec'.mode \in {"none", "transparent"}
               /\ pc' = "setupFailed"
               /\ UNCHANGED <<stream, source>>
    /\ UNCHANGED <<cfg, panicking, capture, hijacked, foreign, published, gone, body, logging, outcome, lateError>>

\* Then: a streaming writer could not be set up.
SetupFails ==
    /\ pc = "setupFailed"
    /\ client' = Reaching("error")
    /\ exec' = IF exec.mode = "none" THEN exec ELSE [exec EXCEPT !.transparentCommitted = TRUE]
    /\ pc' = "returned"
    /\ UNCHANGED <<cfg, panicking, capture, hijacked, source, foreign, published, gone, body, stream,
                   logging, outcome, lateError>>

Streaming == pc = "terminal" /\ stream.open = 1

\* guardStreamingResponseSource: nothing is streamed before its source is
\* known.
SourceKnown == source # "unknown" \/ foreign

\* The exclusive owner names the source of what it is about to write.
OwnerNamesSource ==
    /\ pc = "terminal" /\ cfg.exclusive /\ source = "unknown" /\ ~foreign
    /\ source' = "upstream"
    /\ UNCHANGED <<cfg, pc, panicking, response, foreign, published, gone, body, stream, logging, outcome, lateError>>

\* The terminal writes a header or a part of the body.
TerminalWrites ==
    /\ pc = "terminal"
    /\ Streaming => SourceKnown
    /\ Written("upstream")
    /\ stream' = [stream EXCEPT !.committed = @ \/ Streaming]
    /\ UNCHANGED <<cfg, pc, panicking, hijacked, source, foreign, published, gone, body, logging, outcome, lateError>>

\* It writes past max_bytes, or asks the capture for what only a connection
\* can do.
TerminalOverflows ==
    /\ pc = "terminal" /\ Buffering
    /\ exec' \in {[exec EXCEPT !.overflow = TRUE, !.activity = TRUE], [exec EXCEPT !.unsupported = TRUE]}
    /\ UNCHANGED <<cfg, pc, panicking, capture, client, hijacked, source, foreign, published, gone,
                   body, stream, logging, outcome, lateError>>

TerminalHijacks ==
    /\ Streaming /\ SourceKnown /\ ~Suppressed
    /\ hijacked' = TRUE
    /\ client' = By(client, "upstream")
    /\ exec' = IF exec.mode = "none" THEN exec ELSE [exec EXCEPT !.transparentCommitted = TRUE]
    /\ UNCHANGED <<cfg, pc, panicking, capture, source, foreign, published, gone, body, stream,
                   logging, outcome, lateError>>

\* The streaming writers are closed and finished, once and however the
\* terminal ended.
Closed == [stream EXCEPT !.closed = @ + stream.open, !.open = 0]

\* A header filter, a compressor or the source guard refuses at a write.
StreamingSetupPanics ==
    /\ Streaming
    /\ stream' = Closed
    /\ IF stream.committed
       THEN panicking' = "panic" /\ pc' = "unwinding" /\ UNCHANGED <<exec, client>>
       ELSE /\ client' = Reaching("error")
            /\ exec' = IF exec.mode = "none" THEN exec ELSE [exec EXCEPT !.transparentCommitted = TRUE]
            /\ pc' = "returned" /\ UNCHANGED panicking
    /\ UNCHANGED <<cfg, capture, hijacked, source, foreign, published, gone, body, logging, outcome, lateError>>

TerminalPanics ==
    /\ pc = "terminal"
    /\ panicking' \in {"abort", "panic"}
    /\ stream' = Closed
    /\ pc' = "unwinding"
    /\ UNCHANGED <<cfg, response, source, foreign, published, gone, body, logging, outcome, lateError>>

\* The terminal returns, and so do the writers it was wrapped in. Only an
\* exclusive owner can fail without a panic; the writers fail at their end.
TerminalReturns ==
    /\ pc = "terminal"
    /\ stream' = Closed
    /\ \E failed \in IF Streaming \/ cfg.exclusive THEN BOOLEAN ELSE {FALSE} :
         CASE ~failed ->
                pc' = "returned" /\ UNCHANGED <<panicking, exec, client, source>>
           [] failed /\ ~Streaming ->
                /\ exec' = [exec EXCEPT !.internalFailure = @ \/ ~foreign]
                /\ source' = IF foreign THEN source ELSE "apisix"
                /\ pc' = "returned" /\ UNCHANGED <<panicking, client>>
           [] failed /\ Streaming /\ stream.committed ->
                panicking' = "abort" /\ pc' = "unwinding" /\ UNCHANGED <<exec, client, source>>
           [] OTHER ->
                /\ client' = Reaching("error")
                /\ exec' = IF exec.mode = "none" THEN exec ELSE [exec EXCEPT !.transparentCommitted = TRUE]
                /\ pc' = "returned" /\ UNCHANGED <<panicking, source>>
    /\ UNCHANGED <<cfg, capture, hijacked, foreign, published, gone, body, logging, outcome, lateError>>

-----------------------------------------------------------------------------
(* responseExecution.complete.                                             *)

\* What was written is committed even when some of it was discarded.
Verdict_IgnoresOverflow ==
    CASE gone -> "abort"
      [] ~gone /\ (foreign \/ exec.internalFailure) -> "500"
      [] OTHER ->
           CASE source = "unknown" -> "500"
             [] source = "cache_hit" -> IF published THEN "cached" ELSE "500"
             [] OTHER -> IF published \/ ~exec.finalResponse THEN "500" ELSE "commit"

\* What becomes of a buffered response: "commit" it, "cached", an error, or
\* "abort" when nobody is there to receive it.
Verdict ==
    CASE gone -> "abort"
      [] ~gone /\ (foreign \/ exec.internalFailure) -> "500"
      [] ~gone /\ ~foreign /\ ~exec.internalFailure /\ (exec.overflow \/ exec.unsupported) -> "502"
      [] OTHER ->
           CASE source = "unknown" -> "500"
             [] source = "cache_hit" -> IF published THEN "cached" ELSE "500"
             [] OTHER -> IF published \/ ~exec.finalResponse THEN "500" ELSE "commit"

\* fail: the capture is replaced by an error response.
Fails(e) == client' = Reaching(e) /\ source' = "apisix" /\ UNCHANGED panicking

\* commitState, runTransforms and runStores: the whole response, or nothing.
Committed == IF Suppressed THEN client ELSE client \o IF Verdict = "cached" THEN <<"cached">> ELSE capture

\* complete.
Complete ==
    /\ pc = "returned"
    /\ IF exec.mode \in {"none", "transparent"}
       THEN pc' = "seal" /\ UNCHANGED <<exec, client, source, panicking>>
       ELSE /\ UNCHANGED exec
            /\ CASE Verdict = "abort" ->
                      panicking' = "abort" /\ pc' = "unwinding" /\ UNCHANGED <<client, source>>
                 [] Verdict \in {"500", "502"} -> pc' = "seal" /\ Fails(Verdict)
                 [] OTHER ->
                      \* the transforms, the streaming header filters and the
                      \* body wrappers, any of which may fail before the
                      \* commit, and the wrappers once more at their end
                      \/ /\ client' = Committed
                         /\ pc' = "seal" /\ UNCHANGED <<panicking, source>>
                      \/ pc' = "seal" /\ Fails("500")
                      \/ /\ client' = Committed
                         /\ panicking' = "abort" /\ pc' = "unwinding" /\ UNCHANGED source
    /\ UNCHANGED <<cfg, capture, hijacked, foreign, published, gone, body, stream, logging, outcome, lateError>>

\* sealAndRegisterAfterRequest: the boundary may never have been reached. A
\* seal that failed, here or before, writes its error to the writer of the
\* server.
Seal ==
    /\ pc = "seal"
    /\ \E failed \in MayFail :
         /\ SealAndRegister(failed)
         /\ IF ~SealFails(failed)
            THEN pc' = "ended" /\ UNCHANGED <<exec, client, source, panicking, lateError>>
            ELSE /\ exec' = [exec EXCEPT !.internalFailure = TRUE]
                 /\ IF RequiresAbort
                    THEN panicking' = "abort" /\ pc' = "unwinding" /\ UNCHANGED <<client, source, lateError>>
                    ELSE /\ client' = Reaching("error") /\ source' = "apisix"
                         /\ lateError' = (client # <<>> /\ ~hijacked)
                         /\ pc' = "ended" /\ UNCHANGED panicking
    /\ UNCHANGED <<cfg, capture, hijacked, foreign, published, gone, body, stream, ending>>

\* A panic is not logged.
Unwind_Unlogged ==
    /\ pc = "unwinding"
    /\ pc' = "ended"
    /\ UNCHANGED <<cfg, panicking, response, source, foreign, published, gone, body, stream, logging, outcome, lateError>>

\* The deferred function of ThenWithPostResolutionHook: a panic is logged too.
Unwind ==
    /\ pc = "unwinding"
    /\ \E failed \in MayFail : SealAndRegister(failed)
    /\ pc' = "ended"
    /\ UNCHANGED <<cfg, panicking, response, source, foreign, published, gone, body, stream, ending, lateError>>

-----------------------------------------------------------------------------
(* The boundary of the server.                                             *)

\* The deferred function of serveRouteRequestForGeneration up to
\* lifecycle.Complete: the canonical rejection of a body that was too large,
\* or the answer to a panic before anything was written. Only
\* http.ErrAbortHandler and panics that found something written go on to the
\* HTTP server, which closes the connection.
Finish ==
    /\ pc = "ended"
    /\ \E writes \in BOOLEAN :     \* writeStableInternalError succeeds
         LET canonical == Suppressed
             recovered == panicking = "panic" /\ ~canonical
             answered == recovered /\ client = <<>> /\ writes
         IN  /\ client' = CASE canonical -> <<"413">>
                            [] answered -> <<"error">>
                            [] OTHER -> client
             /\ source' = IF canonical \/ recovered THEN "apisix" ELSE source
             /\ outcome' = CASE panicking = "no" -> "completed"
                             [] panicking # "no" /\ canonical -> "recovered_panic"
                             [] panicking = "abort" /\ ~canonical -> "handler_abort"
                             [] OTHER -> IF answered THEN "recovered_panic" ELSE "aborted_panic"
             /\ panicking' = IF panicking = "panic" /\ (canonical \/ answered) THEN "no" ELSE panicking
    /\ pc' = "finalizing"
    /\ UNCHANGED <<cfg, exec, capture, hijacked, foreign, published, gone, body, stream, logging, lateError>>

\* The loop over the finalizers is left after the first one.
RunFinalizer_First ==
    /\ pc = "finalizing" /\ ran = <<>> /\ finalizers # <<>>
    /\ ran' = <<Last(finalizers)>>
    /\ UNCHANGED <<cfg, pc, panicking, response, source, foreign, published, gone, body, stream,
                   log, finalizers, logged, outcome, lateError>>

\* runFinalizer, the last registered first; a failure or a panic of one does
\* not keep the others from running. runComposite gives a snapshot to the log
\* callbacks only when every sanitizer selected for it succeeded.
RunFinalizer ==
    /\ pc = "finalizing" /\ Len(ran) < Len(finalizers)
    /\ LET owner == finalizers[Len(finalizers) - Len(ran)] IN
       /\ ran' = Append(ran, owner)
       /\ logged' \in IF owner = "log" THEN {"sanitized", "nothing"} ELSE {logged}
    /\ UNCHANGED <<cfg, pc, panicking, response, source, foreign, published, gone, body, stream,
                   log, finalizers, outcome, lateError>>

\* RecycleVars, and the panic that goes on.
Recycle ==
    /\ pc = "finalizing" /\ Len(ran) = Len(finalizers)
    /\ pc' = IF panicking = "no" THEN "done" ELSE "aborted"
    /\ UNCHANGED <<cfg, panicking, response, source, foreign, published, gone, body, stream,
                   logging, outcome, lateError>>

-----------------------------------------------------------------------------
(* The environment.                                                        *)

Handling == pc \notin {"finalizing", "done", "aborted"}

\* requestBodyLimitBody.Read: whoever reads the body finds it too large.
BodyTooLarge ==
    /\ Handling /\ body = "fits"
    /\ body' = "rejected"
    /\ UNCHANGED <<cfg, pc, panicking, response, source, foreign, published, gone, stream, logging, outcome, lateError>>

ClientGone ==
    /\ Handling /\ ~gone
    /\ gone' = TRUE
    /\ UNCHANGED <<cfg, pc, panicking, response, source, foreign, published, body, stream, logging, outcome, lateError>>

Step ==
    \/ Prepare \/ StageContinues \/ StageStops \/ StageHits \/ StagePanics
    \/ ResolveOK \/ ResolveFails \/ Boundary \/ HooksFail \/ ModesDisagree
    \/ EnterTerminal \/ SetupFails
    \/ StreamingSetupPanics \/ TerminalPanics \/ TerminalReturns
    \/ Complete \/ Seal \/ Unwind \/ Finish \/ RunFinalizer \/ Recycle

Next ==
    \/ Step
    \/ OwnerNamesSource \/ TerminalWrites \/ TerminalOverflows \/ TerminalHijacks
    \/ BodyTooLarge \/ ClientGone

\* Every handler returns and the server runs its deferred functions.
Spec == Init /\ [][Next]_vars /\ WF_vars(Step)

-----------------------------------------------------------------------------
Ended == pc \in {"done", "aborted"}

\* The client gets one response: nothing is appended to a response that is
\* under way, except the error of a seal that failed after it; what a buffered
\* route captured goes out whole, as it was captured, or not at all, and only
\* once the handler has returned; and a body found too large before anything
\* was written is answered with 413 whatever the handler did.
OneResponse ==
    /\ Len(client) <= 1 \/ lateError
    /\ Buffering /\ pc \notin {"seal", "unwinding", "ended", "finalizing", "done", "aborted"} => client = <<>>
    /\ Buffering /\ client # <<>> /\ client[1] = "upstream" =>
         /\ ~exec.overflow /\ ~exec.unsupported
         /\ capture = <<"upstream">>
    /\ Ended /\ body = "rejected" => client # <<>>
    /\ Ended /\ client = <<>> => panicking # "no" \/ (exec.mode # "bounded" /\ ~exec.finalResponse)

\* The log of a request is registered and written once, whichever way the
\* request ended (a plugin's answer, an error, a panic, a cancelled client),
\* with the outcome already published; its callbacks see nothing unsanitized;
\* and the finalizers of the plugins all run, last registered first, and the
\* streaming writers have been closed exactly once by then.
FinalizedOnce ==
    /\ \A i \in DOMAIN ran : ran[i] = finalizers[Len(finalizers) + 1 - i]
    /\ ran # <<>> => outcome # "none"
    /\ Len(SelectSeq(finalizers, LAMBDA f : f = "log")) <= 1
    /\ stream.open + stream.closed <= 1
    /\ pc \in {"finalizing", "done", "aborted"} => stream.open = 0
    /\ Ended =>
         /\ Len(ran) = Len(finalizers)
         /\ cfg.log /\ ~foreign => Contains(ran, "log")

\* The request ends: every stage it enters is left, its writers are closed,
\* its finalizers run.
RequestEnds == <>[]Ended

\* The stable error of a failed log preparation is written only before the
\* response is committed (log_executor.go, the comment on its writer).
SealErrorBeforeCommit == ~lateError

=============================================================================
