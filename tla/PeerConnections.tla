--------------------------- MODULE PeerConnections ---------------------------
(***************************************************************************)
(* Bytes between a client and an upstream: the bridge of a stream proxy    *)
(* connection, and the body of an HTTP exchange under a progress timeout. Two *)
(* state machines, each with its own variables.                            *)
(***************************************************************************)
EXTENDS Naturals, Sequences, FiniteSets

-----------------------------------------------------------------------------
(***************************************************************************)
(* One TCP connection of the stream proxy: accepted by                     *)
(* Runtime.serveListener, dialled by routeEntry.dial through the priority  *)
(* groups of its upstream (pkg/stream/router.go), and pumped in both       *)
(* directions by two copying goroutines (pkg/stream/bridge/bridge.go)      *)
(* until both have ended or the runtime is closed.                         *)
(*                                                                         *)
(* "up" copies from the client to the upstream, "down" the other way. Data *)
(* is counted in units, enough to tell delivered from lost.                *)
(***************************************************************************)

CONSTANTS
    Groups,     \* the upstream's targets, one set per priority, highest first
    Retries,    \* route.Upstream.Retries
    MaxUnits    \* bound: units each side sends

StreamConfigOK ==
    /\ Len(Groups) > 0 /\ \A i \in DOMAIN Groups : Groups[i] # {} /\ IsFiniteSet(Groups[i])
    /\ Retries \in Nat /\ MaxUnits \in Nat

Directions == {"up", "down"}
Other(d) == IF d = "up" THEN "down" ELSE "up"

VARIABLES
    pc,         \* the goroutine of the connection
    cancelled,  \* Runtime.Close cancelled the runtime's context
    tried, remaining,   \* dial: targets tried in this round, retries left
    dials,      \* history: targets dialled, with a "round" mark at each clear
    sent, eof,  \* what each source peer has sent, and whether it is done
    delivered,  \* units written to the destination
    copying,    \* state of each copying goroutine
    results,    \* the results channel: directions in the order they ended
    half,       \* directions whose destination was half-closed
    closed      \* both connections are closed

bridgeVars == <<pc, cancelled, tried, remaining, dials, sent, eof, delivered, copying, results, half, closed>>

dialVars == <<tried, remaining, dials>>
peerVars == <<sent, eof>>
copyVars == <<delivered, copying, results>>

BridgeInit ==
    /\ pc = "idle" /\ cancelled = FALSE
    /\ tried = {} /\ remaining = Retries /\ dials = <<>>
    /\ sent = [d \in Directions |-> 0] /\ eof = [d \in Directions |-> FALSE]
    /\ delivered = [d \in Directions |-> 0] /\ copying = [d \in Directions |-> "none"]
    /\ results = <<>> /\ half = {} /\ closed = FALSE

-----------------------------------------------------------------------------
\* serveListener hands the connection to a goroutine, and a route matches.
Accept ==
    /\ pc = "idle" /\ ~cancelled
    /\ pc' = "dial"
    /\ UNCHANGED <<cancelled, dialVars, peerVars, copyVars, half, closed>>

\* Any untried target, whatever its priority.
nextTargets_AnyGroup(done) == UNION {Groups[i] \ done : i \in DOMAIN Groups}

\* nextTarget: what the first group with an untried target may give.
nextTargets(done) ==
    LET open == {i \in DOMAIN Groups : Groups[i] \ done # {}} IN
    IF open = {} THEN {}
    ELSE LET i == CHOOSE j \in open : \A k \in open : j <= k IN Groups[i] \ done

\* One pass of the loop of dial up to the outcome of dialTarget. When every
\* target was tried the round is cleared.
DialOnce(t) ==
    LET done == IF nextTargets(tried) = {} THEN {} ELSE tried IN
    /\ pc = "dial" /\ ~cancelled
    /\ t \in nextTargets(done)
    /\ tried' = done \cup {t}
    /\ dials' = (IF done = tried THEN dials ELSE Append(dials, "round")) \o <<t>>

DialSucceeds(t) ==
    /\ DialOnce(t)
    /\ pc' = "first"
    /\ copying' = [d \in Directions |-> "running"]
    /\ UNCHANGED <<cancelled, remaining, peerVars, delivered, results, half, closed>>

DialFails(t) ==
    /\ DialOnce(t)
    /\ IF remaining = 0
       THEN pc' = "ended" /\ closed' = TRUE /\ remaining' = remaining
       ELSE pc' = pc /\ closed' = closed /\ remaining' = remaining - 1
    /\ UNCHANGED <<cancelled, peerVars, copyVars, half>>

DialCancelled ==
    /\ pc = "dial" /\ cancelled
    /\ pc' = "ended" /\ closed' = TRUE
    /\ UNCHANGED <<cancelled, dialVars, peerVars, copyVars, half>>

-----------------------------------------------------------------------------
\* The peers of both connections; the upstream is one once it was dialled.
PeerSends(d) ==
    /\ pc \notin {"idle", "ended"} /\ ~eof[d]
    /\ d = "down" => pc # "dial"
    /\ \/ sent[d] < MaxUnits /\ sent' = [sent EXCEPT ![d] = @ + 1] /\ eof' = eof
       \/ sent' = sent /\ eof' = [eof EXCEPT ![d] = TRUE]
    /\ UNCHANGED <<pc, cancelled, dialVars, copyVars, half, closed>>

Report(d, result) ==
    /\ copying' = [copying EXCEPT ![d] = result]
    /\ results' = Append(results, d)

\* copyWithIdleDeadline: a read and the write of what was read.
Copy(d) ==
    /\ copying[d] = "running" /\ ~closed
    /\ delivered[d] < sent[d]
    /\ delivered' = [delivered EXCEPT ![d] = @ + 1]
    /\ UNCHANGED <<pc, cancelled, dialVars, peerVars, copying, results, half, closed>>

CopyEOF(d) ==
    /\ copying[d] = "running" /\ ~closed
    /\ eof[d] /\ delivered[d] = sent[d]
    /\ Report(d, "eof")
    /\ UNCHANGED <<pc, cancelled, dialVars, peerVars, delivered, half, closed>>

\* A read, a write or a deadline fails; on closed connections it must.
CopyFails(d) ==
    /\ copying[d] = "running"
    /\ Report(d, "error")
    /\ UNCHANGED <<pc, cancelled, dialVars, peerVars, delivered, half, closed>>

-----------------------------------------------------------------------------
\* Pump receives the first result: after a clean end the destination is
\* half-closed and the other direction goes on; anything else closes both.
PumpFirst ==
    /\ pc = "first" /\ results # <<>>
    /\ \/ /\ ~cancelled /\ copying[results[1]] = "eof"
          /\ half' = half \cup {results[1]} /\ closed' = closed
          /\ pc' = "second"
       \/ /\ cancelled \/ copying[results[1]] = "error"
          /\ half' = half /\ closed' = TRUE
          /\ pc' = "drain"
    /\ UNCHANGED <<cancelled, dialVars, peerVars, copyVars>>

\* CloseWrite fails on a connection that is going away.
HalfCloseFails ==
    /\ pc = "first" /\ results # <<>> /\ ~cancelled /\ copying[results[1]] = "eof"
    /\ closed' = TRUE
    /\ pc' = "drain"
    /\ UNCHANGED <<cancelled, dialVars, peerVars, copyVars, half>>

\* The second result, and the deferred closes.
PumpSecond ==
    /\ pc \in {"second", "drain"} /\ Len(results) = 2
    /\ half' = IF pc = "second" /\ ~cancelled /\ copying[results[2]] = "eof"
               THEN half \cup {results[2]} ELSE half
    /\ closed' = TRUE /\ pc' = "ended"
    /\ UNCHANGED <<cancelled, dialVars, peerVars, copyVars>>

\* The goroutine is gone once the first direction has ended.
ContextClose_FirstOnly ==
    /\ pc = "first" /\ cancelled /\ ~closed
    /\ closed' = TRUE
    /\ UNCHANGED <<pc, cancelled, dialVars, peerVars, copyVars, half>>

\* The goroutine that waits for the context closes both connections.
ContextClose ==
    /\ pc \in {"first", "second", "drain"} /\ cancelled /\ ~closed
    /\ closed' = TRUE
    /\ UNCHANGED <<pc, cancelled, dialVars, peerVars, copyVars, half>>

\* Runtime.Close, or the loss of a listener.
Close ==
    /\ ~cancelled /\ cancelled' = TRUE
    /\ UNCHANGED <<pc, dialVars, peerVars, copyVars, half, closed>>

Targets == UNION {Groups[i] : i \in DOMAIN Groups}

Serve ==
    \/ DialCancelled \/ PumpFirst \/ PumpSecond \/ ContextClose
    \/ \E t \in Targets : DialSucceeds(t) \/ DialFails(t)

CopyStep(d) == Copy(d) \/ CopyEOF(d) \/ (closed /\ CopyFails(d))

BridgeNext ==
    \/ Accept \/ Serve \/ HalfCloseFails \/ Close
    \/ \E d \in Directions : PeerSends(d) \/ CopyStep(d) \/ CopyFails(d)

BridgeSpec == BridgeInit /\ [][BridgeNext]_bridgeVars

-----------------------------------------------------------------------------
\* Every variable has its type.
BridgeTypeOK ==
    /\ pc \in {"idle", "dial", "first", "second", "drain", "ended"}
    /\ tried \subseteq Targets /\ remaining \in 0 .. Retries
    /\ \A d \in Directions : delivered[d] <= sent[d]
    /\ half \subseteq Directions /\ Len(results) <= 2

Dialled == {i \in DOMAIN dials : dials[i] # "round"}
SameRound(i, j) == \A k \in i .. j : dials[k] # "round"

\* dial tries at most Retries + 1 targets, none twice before every other one
\* was tried, and a lower priority only after all higher ones of the round.
DialOrder ==
    /\ Cardinality(Dialled) <= Retries + 1
    /\ \A i, j \in Dialled : i < j /\ SameRound(i, j) => dials[i] # dials[j]
    /\ \A j \in Dialled, hi, lo \in DOMAIN Groups :
          hi < lo /\ dials[j] \in Groups[lo] =>
              Groups[hi] \subseteq {dials[i] : i \in {k \in Dialled : k < j /\ SameRound(k, j)}}

\* A peer sees the end of the stream only after everything sent before it.
NoEarlyEnd == \A d \in half : eof[d] /\ delivered[d] = sent[d]

\* A clean end of one direction leaves the other open: the connections are
\* closed under a running copy only by an error, a failed half-close or Close.
HalfCloseHolds ==
    pc = "second" /\ closed => cancelled

\* When the connection's goroutine returns, both connections are closed and
\* neither copying goroutine is left behind.
NothingLeftBehind ==
    pc = "ended" => closed /\ \A d \in Directions : copying[d] # "running"

\* Dialling keeps to priorities and retries, and the pump to its half-closes.
BridgeRight == BridgeTypeOK /\ DialOrder /\ NoEarlyEnd /\ HalfCloseHolds /\ NothingLeftBehind

\* The connection has ended if it was closed or both peers are done, and the
\* copy that is left has nothing to deliver.
Drained ==
    /\ cancelled \/ (\A d \in Directions : eof[d]) => pc \in {"idle", "ended"}
    /\ \A d \in Directions :
         pc = "second" /\ copying[d] = "running" => delivered[d] = sent[d]

\* Close ends the connection wherever it is, and so do two peers that are both
\* done; a unit sent on a clean connection arrives although the other side
\* has already finished.
StreamsEnd == <>[]Drained

-----------------------------------------------------------------------------
(***************************************************************************)
(* The inactivity limits of a body (pkg/proxy/timeout.go): the read side   *)
(* of every response, and the write side too of a 101 tunnel.              *)
(*                                                                         *)
(* Four parties meet here: the goroutine of each side, which arms its      *)
(* timer, blocks in the connection and arms again; the goroutine of an     *)
(* expired timer, which has been started and may be overtaken by anything  *)
(* before it takes the mutex; and the owner (ReverseProxy), which closes   *)
(* the body.  Each side has its own mutex, epoch and flags.                *)
(***************************************************************************)

CONSTANTS
    Sides,          \* {"read"}, or {"read", "write"} for a duplex body
    MaxTransfers    \* bound: Read or Write calls per side

SidesConfig ==
    /\ Sides \in {{"read"}, {"read", "write"}}
    /\ MaxTransfers \in Nat

VARIABLES
    timer,      \* per side: timerEpoch, the running timer, stopped, timedOut
    launched,   \* per side: epochs of expired timers that wait for the mutex
    closing,    \* per side: the expired goroutine is on its way to Close
    io,         \* per side: the goroutine in Read or Write
    owner,      \* "open", "stopped" (in Close, after stop) or "closed"
    gone,       \* who first cancelled the request or closed the body
    late        \* history, per side: launched epochs overtaken by arm or stop

timeoutVars == <<timer, launched, closing, io, owner, gone, late>>

FreshTimer == [epoch |-> 0, running |-> 0, stopped |-> FALSE, timedOut |-> FALSE]

TimeoutInit ==
    /\ timer = [s \in Sides |-> FreshTimer]
    /\ launched = [s \in Sides |-> {}]
    /\ closing = [s \in Sides |-> "no"]
    /\ io = [s \in Sides |-> [pc |-> "idle", calls |-> 0, data |-> FALSE, err |-> FALSE,
                              result |-> "none"]]
    /\ owner = "open"
    /\ gone = "nobody"
    /\ late = [s \in Sides |-> {}]

-----------------------------------------------------------------------------
\* armLocked: a new epoch and a new timer; the old one is stopped unless its
\* goroutine has started already.
Armed(s) ==
    IF timer[s].stopped THEN timer[s]
    ELSE [timer[s] EXCEPT !.epoch = @ + 1, !.running = timer[s].epoch + 1]

\* stop
Stopped(s) ==
    IF timer[s].stopped THEN timer[s]
    ELSE [timer[s] EXCEPT !.stopped = TRUE, !.epoch = @ + 1, !.running = 0]

\* Overtakes every expired goroutine of the side that waits for the mutex.
Overtake(S) == late' = [s \in Sides |-> IF s \in S THEN late[s] \cup launched[s] ELSE late[s]]

Arm(s, where) ==
    /\ timer' = [timer EXCEPT ![s] = Armed(s)]
    /\ io' = [io EXCEPT ![s].pc = where]
    /\ Overtake(IF timer[s].stopped THEN {} ELSE {s})

\* A Read or Write begins by arming the timer.
Begin(s) ==
    /\ io[s].pc = "idle" /\ io[s].calls < MaxTransfers
    /\ owner = "open"
    /\ timer' = [timer EXCEPT ![s] = Armed(s)]
    /\ io' = [io EXCEPT ![s] = [@ EXCEPT !.pc = "blocked", !.calls = @ + 1]]
    /\ Overtake(IF timer[s].stopped THEN {} ELSE {s})
    /\ UNCHANGED <<launched, closing, owner, gone>>

\* The connection returns: with data, with its end, or with an error because
\* the request was cancelled or the body closed.
Returns(s, data, err) ==
    /\ io[s].pc = "blocked"
    /\ data \/ err
    /\ gone # "nobody" => err /\ ~data
    /\ io' = [io EXCEPT ![s].pc = IF data THEN "rearm" ELSE "stop",
                        ![s].data = data, ![s].err = err]
    /\ UNCHANGED <<timer, launched, closing, owner, gone, late>>

\* if n > 0 { arm() }
Rearm(s) ==
    /\ io[s].pc = "rearm"
    /\ Arm(s, IF io[s].err THEN "stop" ELSE "check")
    /\ UNCHANGED <<launched, closing, owner, gone>>

\* if err != nil { stop() }: a duplex body stops its read side, then its write
\* side, each under its own mutex.
Stop(s) ==
    /\ io[s].pc = "stop"
    /\ timer' = [timer EXCEPT !["read"] = Stopped("read")]
    /\ Overtake({"read"})
    /\ io' = [io EXCEPT ![s].pc = IF "write" \in Sides THEN "stopWrite" ELSE "check"]
    /\ UNCHANGED <<launched, closing, owner, gone>>

StopWrite(s) ==
    /\ io[s].pc = "stopWrite"
    /\ timer' = [timer EXCEPT !["write"] = Stopped("write")]
    /\ Overtake({"write"})
    /\ io' = [io EXCEPT ![s].pc = "check"]
    /\ UNCHANGED <<launched, closing, owner, gone>>

\* The flags a call looks at before it returns: Read its own, Write both.
Flags(s) == IF s = "read" THEN {"read"} ELSE Sides

Finish(s) ==
    /\ io[s].pc = "check"
    /\ io' = [io EXCEPT ![s].pc = IF io[s].err \/ (\E f \in Flags(s) : timer[f].timedOut)
                                  THEN "ended" ELSE "idle",
                        ![s].result = IF \E f \in Flags(s) : timer[f].timedOut THEN "deadline"
                                      ELSE IF io[s].err THEN "error" ELSE "ok"]
    /\ UNCHANGED <<timer, launched, closing, owner, gone, late>>

-----------------------------------------------------------------------------
\* The runtime starts the goroutine of the running timer.
Fire(s) ==
    /\ timer[s].running # 0
    /\ launched' = [launched EXCEPT ![s] = @ \cup {timer[s].running}]
    /\ timer' = [timer EXCEPT ![s].running = 0]
    /\ UNCHANGED <<closing, io, owner, gone, late>>

Stale_IgnoresEpoch(s, e) == timer[s].stopped

\* timeoutExpired
Stale(s, e) == timer[s].stopped \/ e # timer[s].epoch

\* The flag is set after the body is closed.
Expire_FlagLast(s, e) ==
    /\ e \in launched[s]
    /\ launched' = [launched EXCEPT ![s] = @ \ {e}]
    /\ IF Stale(s, e) THEN UNCHANGED <<timer, closing, gone>>
       ELSE /\ timer' = [timer EXCEPT ![s].stopped = TRUE]
            /\ closing' = [closing EXCEPT ![s] = "close"]
            /\ gone' = IF gone = "nobody" THEN s ELSE gone
    /\ UNCHANGED <<io, owner, late>>

Expire(s, e) ==
    /\ e \in launched[s]
    /\ launched' = [launched EXCEPT ![s] = @ \ {e}]
    /\ IF Stale(s, e) THEN UNCHANGED <<timer, closing>>
       ELSE /\ timer' = [timer EXCEPT ![s].stopped = TRUE, ![s].timedOut = TRUE]
            /\ closing' = [closing EXCEPT ![s] = "cancel"]
    /\ late' = [late EXCEPT ![s] = @ \ {e}]
    /\ UNCHANGED <<io, owner, gone>>

\* cancel()
Cancel(s) ==
    /\ closing[s] = "cancel"
    /\ gone' = IF gone = "nobody" THEN s ELSE gone
    /\ closing' = [closing EXCEPT ![s] = "close"]
    /\ UNCHANGED <<timer, launched, io, owner, late>>

\* body.Close() of the expired goroutine; the body is closed once.
CloseExpired(s) ==
    /\ closing[s] = "close"
    /\ closing' = [closing EXCEPT ![s] = "done"]
    /\ UNCHANGED <<timer, launched, io, owner, gone, late>>

-----------------------------------------------------------------------------
\* The owner closes the body once a side has ended, or gives up earlier.
OwnerStops ==
    /\ owner = "open"
    /\ timer' = [timer EXCEPT !["read"] = Stopped("read")]
    /\ Overtake({"read"})
    /\ owner' = IF "write" \in Sides THEN "stopWrite" ELSE "stopped"
    /\ UNCHANGED <<launched, closing, io, gone>>

OwnerStopsWrite ==
    /\ owner = "stopWrite"
    /\ timer' = [timer EXCEPT !["write"] = Stopped("write")]
    /\ Overtake({"write"})
    /\ owner' = "stopped"
    /\ UNCHANGED <<launched, closing, io, gone>>

OwnerCloses ==
    /\ owner = "stopped"
    /\ owner' = "closed"
    /\ gone' = IF gone = "nobody" THEN "owner" ELSE gone
    /\ UNCHANGED <<timer, launched, closing, io, late>>

\* The goroutine inside Read or Write goes on.
Goroutine(s) == Rearm(s) \/ Stop(s) \/ StopWrite(s) \/ Finish(s)

Call(s) == Begin(s) \/ Goroutine(s)

Expiry(s) == Cancel(s) \/ CloseExpired(s) \/ \E e \in launched[s] : Expire(s, e)

TimeoutNext ==
    \/ \E s \in Sides : Call(s) \/ Fire(s) \/ Expiry(s)
    \/ \E s \in Sides, data, err \in BOOLEAN : Returns(s, data, err)
    \/ OwnerStops \/ OwnerStopsWrite \/ OwnerCloses

TimeoutSpec == TimeoutInit /\ [][TimeoutNext]_timeoutVars

-----------------------------------------------------------------------------
\* Every variable has its type.
TimeoutTypeOK ==
    /\ \A s \in Sides :
          /\ timer[s].epoch \in Nat /\ timer[s].running \in {0, timer[s].epoch}
          /\ launched[s] \subseteq 1 .. timer[s].epoch
          /\ closing[s] \in {"no", "cancel", "close", "done"}
          /\ io[s].pc \in {"idle", "blocked", "rearm", "stop", "stopWrite", "check", "ended"}
          /\ io[s].result \in {"none", "ok", "error", "deadline"}
    /\ owner \in {"open", "stopWrite", "stopped", "closed"}
    /\ gone \in Sides \cup {"nobody", "owner"}

\* Progress, an error or Close overtakes a timer that has expired but not yet
\* run: such a timer never cancels the request (timerEpoch and stopped).
LateTimersHarmless ==
    [][\A s \in Sides : timer'[s].timedOut /\ ~timer[s].timedOut =>
          \E e \in launched[s] : e \notin launched'[s] /\ e \notin late[s]]_timeoutVars

\* A call cut off by its own side's timer reports DeadlineExceeded and not the
\* error that closing the body made of it: the flag is set before the body is
\* closed.
CutOffIsDeadline ==
    \A s \in Sides : io[s].pc = "ended" /\ gone = s => io[s].result = "deadline"

\* A Write cut off by the read side's timer reports it as well.
WriteSeesReadTimeout ==
    "write" \in Sides /\ io["write"].pc = "ended" /\ gone = "read"
        => io["write"].result # "error"

\* No timer runs on a stopped side: nothing re-arms after Close.
StoppedIsQuiet == \A s \in Sides : timer[s].stopped => timer[s].running = 0

\* No call waits for the upstream.
NoneBlocked == \A s \in Sides : io[s].pc # "blocked"

\* A blocked call ends although the upstream stays silent, and finitely many
\* are made.
EveryCallEnds == <>[]NoneBlocked

\* What a call that is cut off reports, and that nothing re-arms after a stop.
Reported == TimeoutTypeOK /\ CutOffIsDeadline /\ WriteSeesReadTimeout /\ StoppedIsQuiet

\* Only a timer nothing overtook ends a call, and some timer does.
TimersRight == LateTimersHarmless /\ EveryCallEnds

=============================================================================
