----------------------------- MODULE DelayedSync -----------------------------
(***************************************************************************)
(* The delayed synchronisation of limit-count with Redis                   *)
(* (pkg/plugin/limit_count/delayed_sync.go): requests are admitted against *)
(* a local copy of the remaining quota, and one goroutine adds what they   *)
(* used to the Redis counter at every sync_interval and at Stop.           *)
(*                                                                         *)
(* Every request costs one. incoming holds the mutex over its own Redis    *)
(* calls and is one step; the flush goroutine gives the mutex up while it  *)
(* talks to Redis, and is several. The backend is the fixed-window one.    *)
(***************************************************************************)
EXTENDS Integers, Sequences, SequencesExt, FiniteSets, FiniteSetsExt

CONSTANTS
    Requests,
    Keys,
    KeyOf,          \* the counter key of each request
    Limit,          \* count
    Window,         \* time_window, in ticks
    QueueSize,
    MaxStates,      \* maxDelayedSyncStates
    MaxClock,       \* bound: ticks of time
    MaxFaults       \* bound: Redis calls that fail

DelayedConfig ==
    /\ IsFiniteSet(Requests) /\ IsFiniteSet(Keys)
    /\ KeyOf \in [Requests -> Keys]
    /\ {Limit, Window, QueueSize, MaxStates} \subseteq Nat \ {0}
    /\ {MaxClock, MaxFaults} \subseteq Nat

VARIABLES
    states,     \* delayedSyncState of every key, `known' when it is in the map
    queue,      \* keys with something to flush
    retry,      \* keys of this and of the next flush
    retryNext,
    reqs,       \* the requests inside incoming
    run,        \* the flush goroutine
    stop,       \* Stop has been called, and has returned
    remote,     \* Redis: the counter of each key and when it expires
    clock,
    faults,
    ghost       \* history per key: admitted, committed, committed without a
                \* reply, and admitted since the local copy was last read

vars == <<states, queue, retry, retryNext, reqs, run, stop, remote, clock, faults, ghost>>

NoState == [known |-> FALSE, init |-> FALSE, remaining |-> 0, delta |-> 0,
            resetAt |-> 0, inFlight |-> FALSE]

Idle == [pc |-> "idle", keys |-> {}, pending |-> <<>>, key |-> "none", outcome |-> "none",
         remaining |-> 0, now |-> 0, last |-> FALSE]

Init ==
    /\ states = [k \in Keys |-> NoState]
    /\ queue = <<>> /\ retry = {} /\ retryNext = {}
    /\ reqs = [r \in Requests |-> [pc |-> "idle", now |-> 0, result |-> "none"]]
    /\ run = Idle
    /\ stop = "no"
    /\ remote = [k \in Keys |-> [n |-> 0, until |-> 0]]
    /\ clock = 0 /\ faults = 0
    /\ ghost = [k \in Keys |-> [admitted |-> 0, committed |-> 0, unanswered |-> 0, spent |-> 0]]

-----------------------------------------------------------------------------
(***************************************************************************)
(* Redis. A call succeeds, fails without effect, or takes effect and its   *)
(* reply is lost.                                                          *)
(***************************************************************************)
Outcomes == {"ok"} \cup IF faults < MaxFaults THEN {"failed", "unanswered"} ELSE {}

Count(k) == IF clock < remote[k].until THEN remote[k].n ELSE 0

Expiry(k) == IF clock < remote[k].until THEN remote[k].until ELSE clock + Window

Incremented(k, delta) == [n |-> Count(k) + delta, until |-> Expiry(k)]

Left(n) == IF n <= Limit THEN Limit - n ELSE 0

-----------------------------------------------------------------------------
(***************************************************************************)
(* Requests.                                                               *)
(***************************************************************************)
\* The states cleanupExpiredLocked leaves.
Cleaned_Dirty(now) ==
    [k \in Keys |->
        IF states[k].init /\ now >= states[k].resetAt /\ ~states[k].inFlight
        THEN NoState ELSE states[k]]

Cleaned(now) ==
    [k \in Keys |->
        IF /\ states[k].init /\ now >= states[k].resetAt
           /\ states[k].delta = 0 /\ ~states[k].inFlight
           /\ k \notin retry \cup retryNext
        THEN NoState ELSE states[k]]

Known(s) == {k \in Keys : s[k].known}

\* runDelayedLimit takes the time before it calls incoming.
Arrive(r) ==
    /\ reqs[r].pc = "idle" /\ stop = "no"
    /\ reqs' = [reqs EXCEPT ![r].pc = "incoming", ![r].now = clock]
    /\ UNCHANGED <<states, queue, retry, retryNext, run, stop, remote, clock, faults, ghost>>

Expired(s, now) == s.init /\ now >= s.resetAt

Answered(r, result) == reqs' = [reqs EXCEPT ![r].pc = "done", ![r].result = result]

\* No room for another key.
AtCapacity(r) ==
    LET k == KeyOf[r]
        s == Cleaned(reqs[r].now)
    IN  /\ reqs[r].pc = "incoming" /\ ~states[k].known
        /\ Cardinality(Known(s)) >= MaxStates
        /\ states' = s
        /\ Answered(r, "rejected")
        /\ UNCHANGED <<queue, retry, retryNext, run, stop, remote, clock, faults, ghost>>

\* The window has passed while a flush of the key is in flight.
AwaitFlush(r) ==
    LET s == states[KeyOf[r]] IN
    /\ reqs[r].pc = "incoming" /\ s.known
    /\ Expired(s, reqs[r].now) /\ s.inFlight
    /\ reqs' = [reqs EXCEPT ![r].pc = "waiting"]
    /\ UNCHANGED <<states, queue, retry, retryNext, run, stop, remote, clock, faults, ghost>>

\* The request's context ends while it waits.
Cancelled(r) ==
    /\ reqs[r].pc = "waiting"
    /\ Answered(r, "error")
    /\ UNCHANGED <<states, queue, retry, retryNext, run, stop, remote, clock, faults, ghost>>

\* incoming gets past the capacity and in-flight tests.
Proceeds(r) ==
    LET k == KeyOf[r]
        now == reqs[r].now
    IN  /\ reqs[r].pc = "incoming"
        /\ IF states[k].known THEN ~(Expired(states[k], now) /\ states[k].inFlight)
           ELSE Cardinality(Known(Cleaned(now))) < MaxStates

\* The map when incoming has found or made the state of the key.
Opened(r) ==
    IF states[KeyOf[r]].known THEN states
    ELSE [Cleaned(reqs[r].now) EXCEPT ![KeyOf[r]] = [NoState EXCEPT !.known = TRUE]]

\* The expired window still has a delta, and committing it fails.
CommitFails(r) ==
    LET k == KeyOf[r]
        s == states[k]
    IN  /\ Proceeds(r) /\ s.known /\ Expired(s, reqs[r].now) /\ s.delta > 0
        /\ \E o \in Outcomes \ {"ok"} :
             IF o = "failed" THEN UNCHANGED <<remote, ghost>>
             ELSE /\ remote' = [remote EXCEPT ![k] = Incremented(k, s.delta)]
                  /\ ghost' = [ghost EXCEPT ![k].committed = @ + s.delta,
                                            ![k].unanswered = @ + s.delta]
        /\ faults' = faults + 1
        /\ Answered(r, "error")
        /\ UNCHANGED <<states, queue, retry, retryNext, run, stop, clock>>

\* The rest of incoming when no commit is due, or after it succeeded: the
\* local copy is read again where it has to be, and the request is decided.
Decide(r, s0, rem0, g0) ==
    LET k == KeyOf[r]
        now == reqs[r].now
        fresh == ~s0[k].init \/ now >= s0[k].resetAt
        n == IF clock < rem0.until THEN rem0.n ELSE 0
        until == IF clock < rem0.until THEN rem0.until ELSE clock + Window
        s == IF fresh
             THEN [s0[k] EXCEPT !.init = TRUE, !.remaining = Left(n), !.delta = 0,
                                !.resetAt = IF until > now THEN until ELSE now]
             ELSE s0[k]
        g == IF fresh THEN [g0 EXCEPT !.spent = 0] ELSE g0
    IN  IF s.remaining - s.delta - 1 < 0
        THEN /\ states' = [s0 EXCEPT ![k] = s]
             /\ ghost' = [ghost EXCEPT ![k] = g]
             /\ Answered(r, "rejected")
        ELSE /\ states' = [s0 EXCEPT ![k] = [s EXCEPT !.delta = @ + 1]]
             /\ ghost' = [ghost EXCEPT ![k] = [g EXCEPT !.admitted = @ + 1, !.spent = @ + 1]]
             /\ reqs' = [reqs EXCEPT ![r].pc = "enqueue", ![r].result = "allowed"]

Incoming(r) ==
    LET k == KeyOf[r]
        s0 == Opened(r)
        due == Expired(s0[k], reqs[r].now) /\ s0[k].delta > 0
    IN  /\ Proceeds(r)
        /\ remote' = IF due THEN [remote EXCEPT ![k] = Incremented(k, s0[k].delta)] ELSE remote
        /\ IF due
           THEN Decide(r, [s0 EXCEPT ![k].delta = 0, ![k].init = FALSE], remote'[k],
                       [ghost[k] EXCEPT !.committed = @ + s0[k].delta])
           ELSE Decide(r, s0, remote[k], ghost[k])
        /\ UNCHANGED <<queue, retry, retryNext, run, stop, clock, faults>>

\* Reading the counter fails: a state made for this request is dropped again,
\* and a commit that came first stays.
ReadFails(r) ==
    LET k == KeyOf[r]
        s0 == Opened(r)
        due == Expired(s0[k], reqs[r].now) /\ s0[k].delta > 0
    IN  /\ Proceeds(r)
        /\ ~s0[k].init \/ reqs[r].now >= s0[k].resetAt
        /\ "failed" \in Outcomes
        /\ faults' = faults + 1
        /\ remote' = IF due THEN [remote EXCEPT ![k] = Incremented(k, s0[k].delta)] ELSE remote
        /\ ghost' = IF due THEN [ghost EXCEPT ![k].committed = @ + s0[k].delta] ELSE ghost
        /\ states' = [s0 EXCEPT ![k] =
               IF ~states[k].known THEN NoState
               ELSE IF due THEN [s0[k] EXCEPT !.delta = 0, !.init = FALSE] ELSE s0[k]]
        /\ Answered(r, "error")
        /\ UNCHANGED <<queue, retry, retryNext, run, stop, clock>>

Enqueue(r) ==
    /\ reqs[r].pc = "enqueue"
    /\ IF Len(queue) < QueueSize
       THEN queue' = Append(queue, KeyOf[r]) /\ UNCHANGED retryNext
       ELSE retryNext' = retryNext \cup {KeyOf[r]} /\ UNCHANGED queue
    /\ reqs' = [reqs EXCEPT ![r].pc = "done"]
    /\ UNCHANGED <<states, retry, run, stop, remote, clock, faults, ghost>>

-----------------------------------------------------------------------------
(***************************************************************************)
(* The flush goroutine.                                                    *)
(***************************************************************************)
\* A tick of the ticker: flushNow drains the queue.
TickFlush ==
    /\ run.pc = "idle"
    /\ run' = [Idle EXCEPT !.pc = "collect", !.keys = Range(queue), !.now = clock]
    /\ queue' = <<>>
    /\ UNCHANGED <<states, retry, retryNext, reqs, stop, remote, clock, faults, ghost>>

Collect ==
    /\ run.pc = "collect"
    /\ run' = [run EXCEPT !.pc = "reserve", !.keys = @ \cup retry]
    /\ retry' = {}
    /\ UNCHANGED <<states, queue, retryNext, reqs, stop, remote, clock, faults, ghost>>

\* The stop channel is closed: flushAllDirty.
StopFlush ==
    /\ run.pc = "idle" /\ stop = "stopping"
    /\ run' = [Idle EXCEPT !.pc = "reserve", !.last = TRUE,
                           !.keys = {k \in Keys : states[k].delta > 0}]
    /\ UNCHANGED <<states, queue, retry, retryNext, reqs, stop, remote, clock, faults, ghost>>

\* flushKeys takes the deltas out of the states.
Reserve ==
    LET due == {k \in run.keys : states[k].known /\ states[k].delta > 0 /\ ~states[k].inFlight} IN
    /\ run.pc = "reserve"
    /\ run' = [run EXCEPT !.pc = "sync", !.pending = [k \in due |-> states[k].delta]]
    /\ states' = [k \in Keys |->
           IF k \in due THEN [states[k] EXCEPT !.delta = 0, !.inFlight = TRUE] ELSE states[k]]
    /\ UNCHANGED <<queue, retry, retryNext, reqs, stop, remote, clock, faults, ghost>>

\* backend.sync for one of the keys, outside the mutex.
Sync(k) ==
    /\ run.pc = "sync" /\ k \in DOMAIN run.pending
    /\ \E o \in Outcomes :
         /\ faults' = IF o = "ok" THEN faults ELSE faults + 1
         /\ run' = [run EXCEPT !.pc = "apply", !.key = k, !.outcome = o,
                               !.remaining = Left(Count(k) + run.pending[k])]
         /\ IF o = "failed" THEN UNCHANGED <<remote, ghost>>
            ELSE /\ remote' = [remote EXCEPT ![k] = Incremented(k, run.pending[k])]
                 /\ ghost' = [ghost EXCEPT
                        ![k].committed = @ + run.pending[k],
                        ![k].unanswered = IF o = "ok" THEN @ ELSE @ + run.pending[k]]
    /\ UNCHANGED <<states, queue, retry, retryNext, reqs, stop, clock>>

Restored(s) == [s EXCEPT !.delta = @ + run.pending[run.key]]

\* A failed key waits for the next request to queue it.
Rescheduled_Never == retryNext

\* A shutdown flush is not repeated.
Rescheduled ==
    IF run.outcome = "ok" \/ run.last THEN retryNext ELSE retryNext \cup {run.key}

\* The outcome, under the mutex; those who wait for this flush go on.
Apply ==
    LET k == run.key
        s == [states[k] EXCEPT !.inFlight = FALSE]
        rest == DOMAIN run.pending \ {k}
    IN  /\ run.pc = "apply"
        /\ states' = [states EXCEPT ![k] =
               IF run.outcome = "ok" THEN [s EXCEPT !.remaining = run.remaining] ELSE Restored(s)]
        /\ retryNext' = Rescheduled
        /\ run' = [run EXCEPT !.pc = "sync", !.key = "none", !.outcome = "none", !.remaining = 0,
                              !.pending = [x \in rest |-> run.pending[x]]]
        /\ reqs' = [r \in Requests |->
               IF reqs[r].pc = "waiting" /\ KeyOf[r] = k
               THEN [reqs[r] EXCEPT !.pc = "incoming"] ELSE reqs[r]]
        /\ UNCHANGED <<queue, retry, stop, remote, clock, faults, ghost>>

\* The end of flushNow.
Finish ==
    /\ run.pc = "sync" /\ DOMAIN run.pending = {} /\ ~run.last
    /\ retry' = retry \cup retryNext
    /\ retryNext' = {}
    /\ states' = [k \in Keys |->
           IF k \in retry \cup retryNext THEN states[k] ELSE Cleaned(run.now)[k]]
    /\ run' = Idle
    /\ UNCHANGED <<queue, reqs, stop, remote, clock, faults, ghost>>

\* run returns and Stop with it.
Exit ==
    /\ run.pc = "sync" /\ DOMAIN run.pending = {} /\ run.last
    /\ run' = [Idle EXCEPT !.pc = "exited"]
    /\ stop' = "stopped"
    /\ UNCHANGED <<states, queue, retry, retryNext, reqs, remote, clock, faults, ghost>>

\* The route generation has no request any more when its plugins are stopped
\* (RouteGeneration!NoUseAfterStop).
Stop ==
    /\ stop = "no"
    /\ \A r \in Requests : reqs[r].pc \in {"idle", "done"}
    /\ stop' = "stopping"
    /\ UNCHANGED <<states, queue, retry, retryNext, reqs, run, remote, clock, faults, ghost>>

Tick ==
    /\ clock < MaxClock
    /\ clock' = clock + 1
    /\ UNCHANGED <<states, queue, retry, retryNext, reqs, run, stop, remote, faults, ghost>>

Request(r) ==
    \/ AtCapacity(r) \/ AwaitFlush(r) \/ CommitFails(r)
    \/ Incoming(r) \/ ReadFails(r) \/ Enqueue(r)

Flusher == TickFlush \/ Collect \/ Reserve \/ (\E k \in Keys : Sync(k)) \/ Apply \/ Finish

Next ==
    \/ \E r \in Requests : Arrive(r) \/ Cancelled(r) \/ Request(r)
    \/ Flusher \/ StopFlush \/ Exit \/ Stop \/ Tick

Spec == Init /\ [][Next]_vars

-----------------------------------------------------------------------------
\* Every variable has its type.
TypeOK ==
    /\ \A k \in Keys : states[k].delta \in Nat /\ states[k].remaining \in 0 .. Limit
    /\ \A k \in Keys : ~states[k].known => states[k] = NoState
    /\ Len(queue) <= QueueSize
    /\ retry \cup retryNext \subseteq Keys
    /\ stop \in {"no", "stopping", "stopped"}
    /\ Cardinality(Known(states)) <= MaxStates

\* What the flush goroutine holds of key k and Redis has not confirmed.
InFlight(k) ==
    IF k \in DOMAIN run.pending /\ ~(run.key = k /\ run.outcome = "ok") THEN run.pending[k] ELSE 0

\* "Reserve each pending delta under the lock so a concurrent expiry flush in
\* incoming can never commit the same delta twice" (flushKeys): every admitted
\* unit is waiting, in flight or counted by Redis exactly once, the ones whose
\* reply was lost aside, and cleanup and capacity never drop one.
DeltasConserved ==
    \A k \in Keys :
        ghost[k].admitted + ghost[k].unanswered
            = ghost[k].committed + states[k].delta + InFlight(k)

\* A request admitted while a delta is in flight is not held against that
\* delta: one window admits at most twice the quota, and once more for every
\* flush that Redis did not answer.
OverrunBounded == \A k \in Keys : ghost[k].spent <= (2 + faults) * Limit

\* Whatever waits to be flushed is on its way to the flush goroutine: queued,
\* scheduled for a retry, or about to be by the request that added it. Stop
\* leaves nothing ("accepted local deltas are not lost when the process
\* exits"), unless its own flush fails.
DirtyIsScheduled ==
    \A k \in Keys : states[k].delta > 0 =>
        \/ k \in Range(queue) \cup retry \cup retryNext
        \/ run.pc \in {"collect", "reserve"} /\ k \in run.keys
        \/ \E r \in Requests : KeyOf[r] = k /\ reqs[r].pc = "enqueue"
        \/ faults > 0 /\ stop = "stopped"
        \/ faults > 0 /\ run.last

\* The three together, and the types.
DeltasRight == TypeOK /\ DeltasConserved /\ OverrunBounded /\ DirtyIsScheduled

\* No request is inside incoming or waits for a flush, Stop is not waiting, and
\* Redis has counted every admitted unit unless the flush of Stop itself failed.
Synchronized ==
    /\ \A r \in Requests : reqs[r].pc \in {"idle", "done"}
    /\ stop # "stopping"
    /\ \A k \in Keys :
         \/ ghost[k].admitted + ghost[k].unanswered = ghost[k].committed
         \/ faults > 0 /\ stop = "stopped"

\* Every request that entered incoming is answered, those that wait for a
\* flush included, Stop returns, and in the end Redis has counted every
\* admitted unit, whatever failed on the way.
DeltasReachRedis == <>[]Synchronized

=============================================================================
