----------------------------- MODULE LoggerBatch -----------------------------
(***************************************************************************)
(* The batch processor behind the logger plugins                           *)
(* (pkg/plugin/logger_batch/processor.go).                                 *)
(*                                                                         *)
(* Request goroutines push entries; workers take batches and deliver them  *)
(* outside the mutex; a timer flushes what has waited long enough; Stop    *)
(* drains within a deadline and then gives up (abort) on what is left,     *)
(* while a delivery that ignores its context may still be running.         *)
(*                                                                         *)
(* A timer of the current generation is never early: every Push either     *)
(* flushes or schedules a new generation for the new deadline, so the test *)
(* of the deadline in onTimer always passes and is not modelled.           *)
(***************************************************************************)
EXTENDS Integers, Sequences, FiniteSets, FiniteSetsExt

CONSTANTS
    Workers,        \* max_concurrent_deliveries goroutines
    BatchMaxSize,
    MaxPending,     \* MaxPendingEntries
    MaxRetryCount,
    MaxEntries      \* bound: entries pushed

BatchConfig ==
    /\ IsFiniteSet(Workers) /\ Workers # {}
    /\ BatchMaxSize \in Nat \ {0}
    /\ MaxPending \in Nat \ {0}
    /\ MaxRetryCount \in Nat
    /\ MaxEntries \in Nat

VARIABLES
    buffer,     \* entries of the open batch
    batches,    \* all work batches made so far: [entries, terminal]
    ready,      \* batches no worker has yet, by index
    active,     \* batches of the workers
    worker,     \* the worker goroutines
    count,      \* the counters of Stats
    timer,      \* timerGen, the running timer and the expired goroutines
    stopped,
    shut,       \* the shutdown: finished, aborted, the caller and the cleanup
    pushed,     \* history: entries offered to Push so far
    sink        \* history: entries the sink has confirmed, in order

vars == <<buffer, batches, ready, active, worker, count, timer, stopped, shut, pushed, sink>>

Idle == [pc |-> "next", batch |-> 0, entries |-> <<>>, attempt |-> 0]

Init ==
    /\ buffer = <<>> /\ batches = <<>> /\ ready = <<>> /\ active = {}
    /\ worker = [w \in Workers |-> Idle]
    /\ count = [pending |-> 0, processing |-> 0, dropped |-> 0, delivered |-> 0, failed |-> 0]
    /\ timer = [gen |-> 0, running |-> 0, expired |-> {}]
    /\ stopped = FALSE
    /\ shut = [finished |-> FALSE, aborted |-> FALSE, caller |-> "none", drained |-> FALSE,
               cleaned |-> FALSE]
    /\ pushed = 0
    /\ sink = <<>>

\* The batches that still hold entries to deliver.
Open == {b \in DOMAIN batches : ~batches[b].terminal}

-----------------------------------------------------------------------------
\* stopTimerLocked and scheduleTimerLocked
StopTimer(t) == [t EXCEPT !.gen = @ + 1, !.running = 0]

StartTimer(t) == [t EXCEPT !.gen = @ + 1, !.running = t.gen + 1]

\* flushLocked with buffer b, which is not empty.
FlushLocked(b) ==
    /\ batches' = Append(batches, [entries |-> b, terminal |-> FALSE])
    /\ ready' = Append(ready, Len(batches) + 1)
    /\ buffer' = <<>>

\* Push beyond the limit, or after Stop.
PushRejected ==
    /\ pushed < MaxEntries
    /\ stopped \/ count.pending >= MaxPending
    /\ pushed' = pushed + 1
    /\ count' = [count EXCEPT !.dropped = @ + 1]
    /\ UNCHANGED <<buffer, batches, ready, active, worker, timer, stopped, shut, sink>>

\* Push stops the timer it finds and starts none.
Push_NoTimer ==
    LET b == Append(buffer, pushed + 1)
        full == Len(b) >= BatchMaxSize
    IN  /\ pushed < MaxEntries
        /\ ~stopped /\ count.pending < MaxPending
        /\ pushed' = pushed + 1
        /\ IF full THEN FlushLocked(b) ELSE buffer' = b /\ UNCHANGED <<batches, ready>>
        /\ timer' = StopTimer(timer)
        /\ count' = [count EXCEPT !.pending = @ + 1,
                                  !.processing = IF full THEN @ + Len(b) ELSE @]
        /\ UNCHANGED <<active, worker, stopped, shut, sink>>

Push ==
    LET b == Append(buffer, pushed + 1)
        full == Len(b) >= BatchMaxSize
    IN  /\ pushed < MaxEntries
        /\ ~stopped /\ count.pending < MaxPending
        /\ pushed' = pushed + 1
        /\ IF full
           THEN /\ FlushLocked(b)
                /\ timer' = StopTimer(timer)
           ELSE /\ buffer' = b
                /\ timer' = StartTimer(timer)
                /\ UNCHANGED <<batches, ready>>
        /\ count' = [count EXCEPT !.pending = @ + 1,
                                  !.processing = IF full THEN @ + Len(b) ELSE @]
        /\ UNCHANGED <<active, worker, stopped, shut, sink>>

\* Flush
Flush ==
    /\ buffer # <<>>
    /\ FlushLocked(buffer)
    /\ timer' = StopTimer(timer)
    /\ count' = [count EXCEPT !.processing = @ + Len(buffer)]
    /\ UNCHANGED <<active, worker, stopped, shut, pushed, sink>>

\* The timer's goroutine starts, and takes the mutex later.
TimerExpires ==
    /\ timer.running # 0
    /\ timer' = [timer EXCEPT !.running = 0, !.expired = @ \cup {timer.running}]
    /\ UNCHANGED <<buffer, batches, ready, active, worker, count, stopped, shut, pushed, sink>>

OnTimer(g) ==
    LET t == [timer EXCEPT !.expired = @ \ {g}] IN
    /\ g \in timer.expired
    /\ IF g # timer.gen \/ stopped \/ buffer = <<>>
       THEN /\ timer' = t
            /\ UNCHANGED <<buffer, batches, ready, count>>
       ELSE /\ FlushLocked(buffer)
            /\ timer' = StopTimer(t)
            /\ count' = [count EXCEPT !.processing = @ + Len(buffer)]
    /\ UNCHANGED <<active, worker, stopped, shut, pushed, sink>>

-----------------------------------------------------------------------------
(***************************************************************************)
(* The workers.                                                            *)
(***************************************************************************)
NextBatch(w) ==
    /\ worker[w].pc = "next"
    /\ ready # <<>>
    /\ worker' = [worker EXCEPT ![w] = [Idle EXCEPT !.pc = "begin", !.batch = Head(ready)]]
    /\ active' = active \cup {Head(ready)}
    /\ ready' = Tail(ready)
    /\ UNCHANGED <<buffer, batches, count, timer, stopped, shut, pushed, sink>>

WorkerReturns(w) ==
    /\ worker[w].pc = "next"
    /\ ready = <<>> /\ stopped
    /\ worker' = [worker EXCEPT ![w].pc = "done"]
    /\ UNCHANGED <<buffer, batches, ready, active, count, timer, stopped, shut, pushed, sink>>

\* An attempt takes the batch's entries, unless abort has ended the batch.
BeginAttempt(w) ==
    LET b == batches[worker[w].batch] IN
    /\ worker[w].pc = "begin"
    /\ worker' = [worker EXCEPT ![w] =
           IF b.terminal \/ b.entries = <<>> THEN Idle
           ELSE [@ EXCEPT !.pc = "deliver", !.entries = b.entries]]
    /\ UNCHANGED <<buffer, batches, ready, active, count, timer, stopped, shut, pushed, sink>>

\* The delivery function returns: everything was delivered (0), or entry k of
\* the attempt was the first to fail; firstFail = 1 also stands for a failure
\* of unknown extent.
Returned(w, k) ==
    /\ worker[w].pc = "deliver"
    /\ k \in 0 .. Len(worker[w].entries)
    /\ sink' = sink \o SubSeq(worker[w].entries, 1,
                              IF k = 0 THEN Len(worker[w].entries) ELSE k - 1)

\* finishBatchLocked
Finished(b) == [batches EXCEPT ![b] = [entries |-> <<>>, terminal |-> TRUE]]

\* completePrefixLocked, and finishBatchLocked's part of the counters. The code
\* clamps the results at zero; without the clamps a miscount would show.
Counted(n, fate) == [count EXCEPT !.pending = @ - n, !.processing = @ - n,
                                  ![fate] = @ + n]

Ended_Ignored(w, k) == FALSE

Ended(w, k) == batches[worker[w].batch].terminal

\* What process does with the result under the mutex.
Deliver(w, k) ==
    LET b == worker[w].batch
        n == Len(worker[w].entries)
        rest == SubSeq(worker[w].entries, k, n)
        last == worker[w].attempt >= MaxRetryCount
        prefix == Counted(k - 1, "delivered")
        left == n - k + 1
    IN  /\ Returned(w, k)
        /\ CASE Ended(w, k) ->
                  /\ worker' = [worker EXCEPT ![w] = Idle]
                  /\ UNCHANGED <<batches, active, count>>
             [] ~Ended(w, k) /\ k = 0 ->
                  /\ worker' = [worker EXCEPT ![w] = Idle]
                  /\ batches' = Finished(b)
                  /\ active' = active \ {b}
                  /\ count' = Counted(n, "delivered")
             [] ~Ended(w, k) /\ k > 0 /\ last ->
                  /\ worker' = [worker EXCEPT ![w] = Idle]
                  /\ batches' = Finished(b)
                  /\ active' = active \ {b}
                  /\ count' = [prefix EXCEPT !.pending = @ - left, !.processing = @ - left,
                                             !.failed = @ + left]
             [] ~Ended(w, k) /\ k > 0 /\ ~last ->
                  /\ worker' = [worker EXCEPT ![w].pc = "wait", ![w].attempt = @ + 1]
                  /\ batches' = [batches EXCEPT ![b].entries = rest]
                  /\ count' = prefix
                  /\ UNCHANGED active
        /\ UNCHANGED <<buffer, ready, timer, stopped, shut, pushed>>

\* waitRetry: the delay passes (also after the delivery context has been
\* cancelled: select takes either case), or the context has been cancelled.
WaitRetry(w) ==
    /\ worker[w].pc = "wait"
    /\ worker' = [worker EXCEPT ![w].pc = "begin"]
    /\ UNCHANGED <<buffer, batches, ready, active, count, timer, stopped, shut, pushed, sink>>

WaitCancelled(w) ==
    /\ worker[w].pc = "wait"
    /\ shut.aborted
    /\ worker' = [worker EXCEPT ![w] = Idle]
    /\ UNCHANGED <<buffer, batches, ready, active, count, timer, stopped, shut, pushed, sink>>

-----------------------------------------------------------------------------
(***************************************************************************)
(* StopWithCleanup: Shutdown with a deadline, then the sink's resources.   *)
(***************************************************************************)
\* startShutdown
StartShutdown ==
    /\ shut.caller = "none"
    /\ shut' = [shut EXCEPT !.caller = "waiting"]
    /\ stopped' = TRUE
    /\ IF buffer = <<>>
       THEN /\ timer' = StopTimer(timer)
            /\ UNCHANGED <<buffer, batches, ready, count>>
       ELSE /\ FlushLocked(buffer)
            /\ timer' = StopTimer(StopTimer(timer))
            /\ count' = [count EXCEPT !.processing = @ + Len(buffer)]
    /\ UNCHANGED <<active, worker, pushed, sink>>

\* The goroutine that waits for the workers closes workersDone and finishes.
WorkersDone ==
    /\ stopped /\ ~shut.drained
    /\ \A w \in Workers : worker[w].pc = "done"
    /\ shut' = [shut EXCEPT !.drained = TRUE, !.finished = TRUE]
    /\ UNCHANGED <<buffer, batches, ready, active, worker, count, timer, stopped, pushed, sink>>

\* dropUndispatchedLocked: the buffer and every queued or active batch that is
\* not terminal are given up.
DropUndispatched ==
    LET queued == {ready[i] : i \in DOMAIN ready} \cup active
        lost == Len(buffer)
                + MapThenSumSet(LAMBDA b : Len(batches[b].entries), queued \cap Open)
    IN  /\ batches' = [b \in DOMAIN batches |->
               IF b \in queued \cap Open THEN [entries |-> <<>>, terminal |-> TRUE]
               ELSE batches[b]]
        /\ buffer' = <<>> /\ ready' = <<>> /\ active' = {}
        /\ count' = [count EXCEPT !.pending = @ - lost,
                                  !.processing = IF lost > 0 THEN 0 ELSE @,
                                  !.failed = @ + lost]

\* The deadline of Stop: abort drops what is left and finishes the shutdown.
Abort ==
    /\ shut.caller = "waiting" /\ ~shut.finished
    /\ shut' = [shut EXCEPT !.aborted = TRUE, !.finished = TRUE]
    /\ DropUndispatched
    /\ UNCHANGED <<worker, timer, stopped, pushed, sink>>

\* Stop returns once the shutdown has finished.
StopReturns ==
    /\ shut.caller = "waiting" /\ shut.finished
    /\ shut' = [shut EXCEPT !.caller = "returned"]
    /\ UNCHANGED <<buffer, batches, ready, active, worker, count, timer, stopped, pushed, sink>>

\* cleanup runs now when the workers are done, and otherwise when they are.
Cleanup_AtOnce ==
    /\ shut.caller = "returned" /\ ~shut.cleaned
    /\ shut' = [shut EXCEPT !.cleaned = TRUE]
    /\ UNCHANGED <<buffer, batches, ready, active, worker, count, timer, stopped, pushed, sink>>

Cleanup ==
    /\ shut.caller = "returned" /\ ~shut.cleaned
    /\ shut.drained
    /\ shut' = [shut EXCEPT !.cleaned = TRUE]
    /\ UNCHANGED <<buffer, batches, ready, active, worker, count, timer, stopped, pushed, sink>>

Delivers(w) == \E k \in 0 .. MaxEntries : Deliver(w, k)

Work(w) ==
    \/ NextBatch(w) \/ WorkerReturns(w) \/ BeginAttempt(w)
    \/ WaitRetry(w) \/ WaitCancelled(w)

Next ==
    \/ Push \/ PushRejected \/ Flush \/ TimerExpires
    \/ \E g \in timer.expired : OnTimer(g)
    \/ \E w \in Workers : Work(w) \/ Delivers(w)
    \/ StartShutdown \/ WorkersDone \/ Abort \/ StopReturns \/ Cleanup

Spec == Init /\ [][Next]_vars

\* Timers fire and goroutines run; every delivery returns after its timeout.
\* Whether Stop's deadline comes is left open.
FairSpec ==
    /\ Spec
    /\ WF_vars(TimerExpires) /\ WF_vars(\E g \in timer.expired : OnTimer(g))
    /\ \A w \in Workers : WF_vars(Work(w)) /\ WF_vars(Delivers(w))
    /\ WF_vars(WorkersDone) /\ WF_vars(StopReturns) /\ WF_vars(Cleanup)

-----------------------------------------------------------------------------
Waiting == MapThenSumSet(LAMBDA b : Len(batches[b].entries), Open)

\* Every variable has its type.
TypeOK ==
    /\ \A f \in DOMAIN count : count[f] \in 0 .. MaxEntries
    /\ count.pending <= MaxPending
    /\ Len(buffer) < BatchMaxSize
    /\ \A i \in DOMAIN ready : ready[i] \in DOMAIN batches
    /\ active \subseteq DOMAIN batches
    /\ \A w \in Workers : worker[w].pc \in {"next", "begin", "deliver", "wait", "done"}
    /\ timer.running \in {0, timer.gen}
    /\ \A b \in Open : batches[b].entries # <<>>

\* No entry is lost or counted twice: every accepted entry is waiting, was
\* delivered or was given up, through partial deliveries, retries, and an abort
\* while deliveries are in flight; Stats agrees with what the processor holds.
EntriesConserved ==
    /\ pushed = count.pending + count.delivered + count.failed + count.dropped
    /\ count.pending = Len(buffer) + Waiting
    /\ count.processing = Waiting

\* What the sink confirmed before Stop gave up has been counted as delivered,
\* and no entry is confirmed twice.
DeliveredOnce ==
    /\ \A i, j \in DOMAIN sink : i # j => sink[i] # sink[j]
    /\ ~shut.aborted => count.delivered = Len(sink)

\* The sink's resources are released only after every delivery has returned,
\* also when Stop returned early (StopWithCleanup).
CleanupAfterDelivery == shut.cleaned => \A w \in Workers : worker[w].pc = "done"

\* A clean shutdown leaves nothing behind: unless its deadline passed, Stop
\* returns with every accepted entry delivered or its retries used up.
StopDrains == shut.finished => count.pending = 0 /\ buffer = <<>> /\ Open = {}

\* Entries are counted exactly and confirmed at most once.
EntriesRight == TypeOK /\ EntriesConserved /\ DeliveredOnce

\* Stop leaves nothing queued, and nothing is released under a delivery.
StopRight == StopDrains /\ CleanupAfterDelivery

\* The processor holds no entry, and a started shutdown is over.
Quiet ==
    /\ buffer = <<>> /\ Open = {}
    /\ shut.caller # "none" => shut.cleaned

\* Every accepted entry leaves the processor, without a further push or Stop,
\* and a started shutdown ends with the resources released. (Finitely many
\* entries are pushed, so the processor is quiet in the end.)
Progress == <>[]Quiet

=============================================================================
