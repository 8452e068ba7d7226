--------------------------- MODULE UpstreamRequest ---------------------------
(***************************************************************************)
(* Requests going through the transport chain of a cluster: the director   *)
(* of the route (pkg/route/builder.go), admission (pkg/proxy/cluster.go),  *)
(* retries (pkg/proxy/retry.go), the response or error handler, and the    *)
(* body that gives the admission token back.                               *)
(*                                                                         *)
(* Each request runs in its own goroutine; the admission channel is what   *)
(* they share.  The client may go away at any moment.  Which target is     *)
(* selected is left open (UpstreamClusters); a target's answer is an       *)
(* outcome.  A stalled request body ends an attempt with context.Canceled  *)
(* although the client is still there (progressTimeoutBody), so            *)
(* "canceled" is an outcome of its own.                                    *)
(***************************************************************************)
EXTENDS Integers, Sequences, FiniteSets

CONSTANTS
    Requests,
    Targets,        \* selector keys; empty for an upstream without nodes
    Limit,          \* proxy.max_in_flight, the capacity of the token channel
    Retries         \* httpRetryCount(upstream)

ASSUME RequestConfig ==
    /\ IsFiniteSet(Requests)
    /\ "none" \notin Targets
    /\ Limit \in Nat \ {0}
    /\ Retries \in Nat

VARIABLES
    tokens,     \* tokens in the admission channel
    rq          \* the requests

vars == <<tokens, rq>>

Answers == {"healthy", "unhealthy"}         \* a response, by status class
Broken == {"tcp", "timeout", "protocol"}    \* a transport error, by kind
Outcomes == Answers \cup Broken \cup {"canceled", "tooLarge"}

Fresh(replayable) ==
    [pc |-> "director", replayable |-> replayable, gone |-> FALSE, target |-> "none",
     directorError |-> FALSE, attempts |-> <<>>, left |-> 0, outcome |-> "none",
     chain |-> <<>>, reports |-> <<>>, observed |-> <<>>, released |-> FALSE, code |-> 0]

\* WithRetries attaches a retry state only to requests that can be replayed.
Init ==
    /\ tokens = 0
    /\ rq \in [Requests -> {Fresh(b) : b \in BOOLEAN}]

Set(r, q) == rq' = [rq EXCEPT ![r] = q]

-----------------------------------------------------------------------------
\* The director selects a target, or stores the error that none could be.
Director(r) ==
    LET q == [rq[r] EXCEPT !.pc = "admit", !.left = IF rq[r].replayable THEN Retries ELSE 0] IN
    /\ rq[r].pc = "director"
    /\ IF Targets = {} THEN Set(r, [q EXCEPT !.directorError = TRUE])
       ELSE \E t \in Targets : Set(r, [q EXCEPT !.target = t])
    /\ UNCHANGED tokens

Admit_Unbounded(r) ==
    /\ rq[r].pc = "admit"
    /\ tokens' = tokens + 1
    /\ Set(r, [rq[r] EXCEPT !.pc = "attempt"])

\* admissionTransport.RoundTrip: a token, or ErrClusterOverloaded at once.
Admit(r) ==
    /\ rq[r].pc = "admit"
    /\ tokens < Limit
    /\ tokens' = tokens + 1
    /\ Set(r, [rq[r] EXCEPT !.pc = "attempt"])

Overloaded(r) ==
    /\ rq[r].pc = "admit"
    /\ tokens >= Limit
    /\ Set(r, [rq[r] EXCEPT !.pc = "error", !.outcome = "overloaded"])
    /\ UNCHANGED tokens

-----------------------------------------------------------------------------
(***************************************************************************)
(* retryTransport.RoundTrip.                                               *)
(***************************************************************************)
\* recordUpstreamTransportFailure
Chained(q, outcome) ==
    IF outcome \in Broken \cup {"tooLarge"} THEN Append(q.chain, outcome) ELSE q.chain

\* base.RoundTrip returns.  With the client gone it returns context.Canceled;
\* a request without a target fails before it is sent.  The body of a request
\* that can be replayed has been read, so it can no longer exceed its limit.
Possible(q) ==
    IF q.directorError THEN {"protocol"}
    ELSE IF q.gone THEN {"canceled"}
    ELSE IF q.replayable THEN Outcomes \ {"tooLarge"} ELSE Outcomes

Attempt(r, outcome) ==
    LET q == rq[r] IN
    /\ q.pc = "attempt"
    /\ outcome \in Possible(q)
    /\ Set(r, [q EXCEPT !.pc = IF outcome \in Answers THEN "response"
                               ELSE IF q.left > 0 THEN "retry" ELSE "failed",
                        !.outcome = outcome,
                        !.attempts = Append(@, [target |-> q.target, outcome |-> outcome]),
                        !.chain = Chained(q, outcome)])
    /\ UNCHANGED tokens

\* reportRetryFailure
Reported(q) ==
    IF q.outcome \in Broken /\ q.target # "none"
    THEN Append(q.reports, [target |-> q.target, outcome |-> q.outcome]) ELSE q.reports

\* The request is not retried: the client has gone, or the body cannot be sent
\* again (resetRequestBody).
RetryStops(r) ==
    /\ rq[r].pc = "retry"
    /\ Set(r, [rq[r] EXCEPT !.pc = "failed", !.left = 0])
    /\ UNCHANGED tokens

\* The target is replaced before the failure is reported.
Retry_SelectsFirst(r) ==
    LET q == rq[r] IN
    /\ q.pc = "retry"
    /\ ~q.gone
    /\ \E t \in Targets :
          Set(r, [q EXCEPT !.pc = "attempt", !.reports = Reported([q EXCEPT !.target = t]),
                           !.target = t, !.left = @ - 1])
    /\ UNCHANGED tokens

\* The failure is reported, the next target selected and the attempt repeated.
\* Without nodes there is no balancer to ask: Next is called on a nil one.
Retry(r) ==
    LET q == rq[r] IN
    /\ q.pc = "retry"
    /\ ~q.gone
    /\ IF Targets = {} THEN Set(r, [q EXCEPT !.pc = "panic"])
       ELSE \E t \in Targets :
              Set(r, [q EXCEPT !.pc = "attempt", !.reports = Reported(q), !.target = t,
                               !.left = @ - 1])
    /\ UNCHANGED tokens

RoundTripFails_KeepsToken(r) ==
    /\ rq[r].pc = "failed"
    /\ Set(r, [rq[r] EXCEPT !.pc = "error", !.released = TRUE,
                            !.observed = Append(@, "failed")])
    /\ UNCHANGED tokens

\* observeResult, and admissionTransport gives the token back on an error.
RoundTripFails(r) ==
    /\ rq[r].pc = "failed"
    /\ tokens' = tokens - 1
    /\ Set(r, [rq[r] EXCEPT !.pc = "error", !.released = TRUE,
                            !.observed = Append(@, "failed")])

\* ... or wraps the body of the response so that it will.
RoundTripSucceeds(r) ==
    /\ rq[r].pc = "response"
    /\ Set(r, [rq[r] EXCEPT !.pc = "modify", !.observed = Append(@, "success")])
    /\ UNCHANGED tokens

-----------------------------------------------------------------------------
(***************************************************************************)
(* newModifyResponse and newErrorHandler.                                  *)
(***************************************************************************)
ModifyResponse(r) ==
    LET q == rq[r] IN
    /\ q.pc = "modify"
    /\ Set(r, [q EXCEPT !.pc = "body", !.chain = Append(@, q.outcome), !.code = 200,
                        !.reports = Append(@, [target |-> q.target, outcome |-> q.outcome])])
    /\ UNCHANGED tokens

\* A body cut short is taken for a client that closed the request (499).
Codes(q) ==
    CASE q.outcome = "tooLarge" -> {413}
      [] q.outcome = "overloaded" -> {503}
      [] q.outcome = "timeout" -> {504}
      [] q.outcome = "tcp" -> {502}
      [] q.outcome = "canceled" -> {499}
      [] q.outcome = "protocol" -> IF q.directorError THEN {502} ELSE {499, 500}

ErrorHandler(r) ==
    LET q == rq[r] IN
    /\ q.pc = "error"
    /\ \E code \in Codes(q) :
          Set(r, [q EXCEPT !.pc = "done", !.code = code,
                           !.reports = IF q.directorError THEN @ ELSE Reported(q)])
    /\ UNCHANGED tokens

-----------------------------------------------------------------------------
(***************************************************************************)
(* The response body: a read that ends or fails, a failed write of an      *)
(* upgraded connection and Close each release the token; sync.Once keeps   *)
(* it to one.  ReverseProxy always closes the body.                        *)
(***************************************************************************)
ReleaseOnce(r) == tokens' = IF rq[r].released THEN tokens ELSE tokens - 1

BodyEnds(r) ==
    /\ rq[r].pc = "body"
    /\ ReleaseOnce(r)
    /\ Set(r, [rq[r] EXCEPT !.released = TRUE, !.pc = "drained"])

BodyClose(r) ==
    /\ rq[r].pc \in {"body", "drained"}
    /\ ReleaseOnce(r)
    /\ Set(r, [rq[r] EXCEPT !.released = TRUE, !.pc = "done"])

\* The client goes away: the request's context is cancelled.
ClientGone(r) ==
    /\ rq[r].pc \notin {"done", "panic"}
    /\ ~rq[r].gone
    /\ Set(r, [rq[r] EXCEPT !.gone = TRUE])
    /\ UNCHANGED tokens

Step(r) ==
    \/ Director(r) \/ Admit(r) \/ Overloaded(r)
    \/ \E outcome \in Outcomes : Attempt(r, outcome)
    \/ RetryStops(r) \/ Retry(r)
    \/ RoundTripFails(r) \/ RoundTripSucceeds(r)
    \/ ModifyResponse(r) \/ ErrorHandler(r)
    \/ BodyEnds(r) \/ BodyClose(r)

Next == \E r \in Requests : Step(r) \/ ClientGone(r)

Spec == Init /\ [][Next]_vars

\* A target answers or times out, and ReverseProxy closes every body.
FairSpec == Spec /\ \A r \in Requests : WF_vars(Step(r))

-----------------------------------------------------------------------------
\* Every variable has its type.
TypeOK ==
    /\ tokens \in Nat
    /\ \A r \in Requests :
          /\ rq[r].pc \in {"director", "admit", "attempt", "retry", "failed", "response",
                           "modify", "error", "body", "drained", "done", "panic"}
          /\ rq[r].left \in 0 .. Retries
          /\ rq[r].code \in {0, 200, 413, 499, 500, 502, 503, 504}

Holds(q) == q.pc \in {"attempt", "retry", "failed", "response", "modify", "body"}

\* The channel holds one token for every request between admission and the end
\* of its body, and never more than max_in_flight: no way through retries,
\* errors and the closing of bodies loses one or gives one back twice.
TokensExact ==
    /\ tokens = Cardinality({r \in Requests : Holds(rq[r])})
    /\ tokens <= Limit

\* A request makes at most one attempt and httpRetryCount retries, and none
\* after the first when it cannot be replayed.
AttemptsBounded ==
    \A r \in Requests :
        Len(rq[r].attempts) <= 1 + (IF rq[r].replayable THEN Retries ELSE 0)

\* `out' lists the elements of `seq' at the chosen positions, in their order.
Selects(out, seq, chosen) ==
    /\ Len(out) = Cardinality(chosen)
    /\ \A i \in chosen : out[Cardinality({j \in chosen : j <= i})] = seq[i]

\* The attempts of a request that tell something of their target's health.
Told(q) ==
    {i \in DOMAIN q.attempts : q.attempts[i].outcome \in Answers \cup Broken /\ q.attempts[i].target # "none"}

\* What a finished request tells the health checker: every answer and every
\* transport failure once, in order and against the target it came from; no
\* cancelled attempt, and nothing for a request turned away by admission.
OutcomesReportedOnce ==
    \A r \in Requests : rq[r].pc \in {"body", "drained", "done"} =>
        Selects(rq[r].reports, rq[r].attempts, Told(rq[r]))

\* The outcomes of the attempts, and those that got as far as a target.
OutcomesOf(q) == [i \in DOMAIN q.attempts |-> q.attempts[i].outcome]
Made(q) == {i \in DOMAIN q.attempts : q.attempts[i].outcome # "canceled"}

\* X-APISIX-Upstream-Status has one entry per attempt that got that far, in
\* the order of the attempts (RecordUpstreamStatus).
ChainIsAttempts ==
    \A r \in Requests : rq[r].pc \in {"body", "drained", "done"} =>
        Selects(rq[r].chain, OutcomesOf(rq[r]), Made(rq[r]))

\* The answer a client gets is the last attempt's: 200 only after a response,
\* 503 only from admission and then before any target was tried, 499 never for
\* a client that waits and a target that merely timed out or was unreachable.
AnswerIsLast ==
    \A r \in Requests : rq[r].pc \in {"body", "drained", "done"} =>
        LET a == rq[r].attempts
            last == IF a = <<>> THEN "none" ELSE a[Len(a)].outcome
        IN  /\ rq[r].code = 200 <=> last \in Answers
            /\ rq[r].code = 503 <=> a = <<>>
            /\ rq[r].code = 499 => last \in {"canceled", "protocol"}
            /\ last \in {"canceled", "tooLarge"} => rq[r].code \in {499, 413}

\* "without nodes, target selection reports a classified director error unless
\* traffic-split supplies an override for the request" (pkg/route/builder.go):
\* no request to such an upstream ends in a panic.
EmptyUpstreamClassified ==
    \A r \in Requests : rq[r].pc # "panic" /\ (rq[r].pc = "done" => rq[r].code # 0)

\* All requests are over, and the cluster has its tokens back.
AllDone == (\A r \in Requests : rq[r].pc = "done") /\ tokens = 0

\* Every request ends, and by then the cluster has its tokens back.
EveryRequestEnds == <>[]AllDone

\* The attempts of a request, what they told the health checker, the status
\* chain and the answer fit together.
AccountRight == TypeOK /\ AttemptsBounded /\ OutcomesReportedOnce /\ ChainIsAttempts /\ AnswerIsLast

=============================================================================
