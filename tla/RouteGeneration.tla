-------------------------- MODULE RouteGeneration --------------------------
(***************************************************************************)
(* The HTTP route publication object of the gateway                        *)
(* (pkg/server/route_handler.go): requests and batch-request workers take  *)
(* a reference on the current route generation with a compare-and-swap     *)
(* loop, Replace and Close swap the current generation out, retire it,     *)
(* close its hijacked (WebSocket) connections and stop it once the last    *)
(* reference is gone.                                                      *)
(*                                                                         *)
(* routeSet.state is one atomic word, a retired bit and a reference count: *)
(* it is modelled by retired[g] and count[g], always read and written      *)
(* together.  Every load, compare-and-swap, add and critical section of    *)
(* hijackMu is a step of its own.                                          *)
(***************************************************************************)
EXTENDS Integers, FiniteSets

CONSTANTS
    Threads,    \* goroutines that serve requests or batch-request items
    Gens,       \* route generations (one per successful build)
    First,      \* the generation newRouteHandler installs
    NoGen,      \* the nil generation pointer
    MaxItems    \* bound on the batch-request items one request dispatches

ASSUME FirstAssumption == First \in Gens
ASSUME NoGenAssumption == NoGen \notin Gens
ASSUME ThreadsAssumption == IsFiniteSet(Threads)
ASSUME MaxItemsAssumption == MaxItems \in Nat

VARIABLES
    current,    \* routeHandler.current
    closed,     \* routeHandler.closed
    mu,         \* the publisher that holds routeHandler.mu, or "free"
    retired,    \* high bit of routeSet.state
    count,      \* the other bits of routeSet.state
    drained,    \* generations whose drained channel is closed
    stopped,    \* generations whose stop function has run
    stopping,   \* generations with a stopRouteSet call waiting
    hijacked,   \* routeSet.hijacked: a connection is named by its thread
    open,       \* hijacked connections that are still open
    hijackMu,   \* generations whose hijackMu is held inside registerHijacked
    thr,        \* the goroutines
    pub         \* the publishers: the reloader and the shutdown

pubVars == <<current, closed, mu, stopping, pub>>
vars == <<current, closed, mu, retired, count, drained, stopped, stopping,
          hijacked, open, hijackMu, thr, pub>>

\* reload runs under reloadMu, so there is one Replace at a time.
Publishers == {"reload", "close"}

Idle == [pc |-> "idle", gen |-> NoGen, seen |-> 0,
         hijack |-> "none", lease |-> FALSE, worker |-> {}, items |-> 0]
PubIdle == [pc |-> "idle", gen |-> NoGen, seen |-> 0, conns |-> {}, sync |-> FALSE]

\* Program points at which a thread owns one reference of its generation.
Owning == {"serving", "leaseLoad", "leaseCAS", "hijack", "register", "unregister", "release"}
Holders(g) == {t \in Threads : thr[t].gen = g /\ thr[t].pc \in Owning}

Init ==
    /\ current = First /\ closed = FALSE /\ mu = "free"
    /\ retired = [g \in Gens |-> FALSE]
    /\ count = [g \in Gens |-> 0]
    /\ drained = {} /\ stopped = {} /\ stopping = {}
    /\ hijacked = [g \in Gens |-> {}]
    /\ open = {}
    /\ hijackMu = {}
    /\ thr = [t \in Threads |-> Idle]
    /\ pub = [p \in Publishers |-> PubIdle]

Goto(t, pc) == thr' = [thr EXCEPT ![t].pc = pc]

-----------------------------------------------------------------------------
(* ServeHTTP and the reference count.                                      *)

\* Load of the current pointer; a nil pointer is answered with 503.
ServeLoad(t) ==
    /\ thr[t].pc = "idle"
    /\ current # NoGen
    /\ thr' = [thr EXCEPT ![t].pc = "load", ![t].gen = current, ![t].items = MaxItems]
    /\ UNCHANGED <<pubVars, retired, count, drained, stopped, hijacked, open, hijackMu>>

ServeUnavailable(t) ==
    /\ thr[t].pc = "idle"
    /\ current = NoGen
    /\ UNCHANGED vars

\* acquireRequest: a retired word sends ServeHTTP back to the pointer.
AcquireLoad(t) ==
    /\ thr[t].pc = "load"
    /\ thr' = IF retired[thr[t].gen] THEN [thr EXCEPT ![t] = Idle]
              ELSE [thr EXCEPT ![t].pc = "cas", ![t].seen = count[thr[t].gen]]
    /\ UNCHANGED <<pubVars, retired, count, drained, stopped, hijacked, open, hijackMu>>

\* Mutant: the compare-and-swap looks at the count only.
WordUnchanged_CountOnly(g, seen) == count[g] = seen

WordUnchanged(g, seen) == ~retired[g] /\ count[g] = seen

AcquireCAS(t) ==
    LET g == thr[t].gen IN
    /\ thr[t].pc = "cas"
    /\ IF WordUnchanged(g, thr[t].seen)
       THEN /\ count' = [count EXCEPT ![g] = @ + 1]
            /\ thr' = [thr EXCEPT ![t].pc = "serving", ![t].seen = 0]
       ELSE /\ thr' = [thr EXCEPT ![t].pc = "load", ![t].seen = 0]
            /\ UNCHANGED count
    /\ UNCHANGED <<pubVars, retired, drained, stopped, hijacked, open, hijackMu>>

\* acquireDispatchLease, called by the batch-requests plugin while its request
\* is being served; the reference is handed to a worker goroutine, which may
\* outlive the request.  The goroutine is set aside when the lease is asked for.
LeaseBegin(t, w) ==
    /\ thr[t].pc = "serving" /\ thr[t].items > 0
    /\ thr[w].pc = "idle"
    /\ thr' = [thr EXCEPT ![t].pc = "leaseLoad", ![t].items = @ - 1,
                          ![t].worker = {w}, ![w].pc = "reserved"]
    /\ UNCHANGED <<pubVars, retired, count, drained, stopped, hijacked, open, hijackMu>>

LeaseLoad(t) ==
    /\ thr[t].pc = "leaseLoad"
    /\ IF retired[thr[t].gen]
       THEN thr' = [u \in Threads |->
                       IF u = t THEN [thr[t] EXCEPT !.pc = "serving", !.worker = {}]
                       ELSE IF u \in thr[t].worker THEN Idle ELSE thr[u]]
       ELSE thr' = [thr EXCEPT ![t].pc = "leaseCAS", ![t].seen = count[thr[t].gen]]
    /\ UNCHANGED <<pubVars, retired, count, drained, stopped, hijacked, open, hijackMu>>

LeaseCAS(t) ==
    LET g == thr[t].gen IN
    /\ thr[t].pc = "leaseCAS"
    /\ IF WordUnchanged(g, thr[t].seen)
       THEN /\ count' = [count EXCEPT ![g] = @ + 1]
            /\ thr' = [u \in Threads |->
                          IF u = t THEN [thr[t] EXCEPT !.pc = "serving", !.worker = {}, !.seen = 0]
                          ELSE IF u \in thr[t].worker
                          THEN [Idle EXCEPT !.pc = "serving", !.gen = g, !.lease = TRUE]
                          ELSE thr[u]]
       ELSE /\ thr' = [thr EXCEPT ![t].pc = "leaseLoad", ![t].seen = 0]
            /\ UNCHANGED count
    /\ UNCHANGED <<pubVars, retired, drained, stopped, hijacked, open, hijackMu>>

\* Mutants: a lease is released by the worker and by the dispatcher (no
\* sync.Once); the last release does not look at the retired bit.
Release_Twice(t) ==
    /\ thr[t].pc = "release"
    /\ count' = [count EXCEPT ![thr[t].gen] = @ - (IF thr[t].lease THEN 2 ELSE 1)]
    /\ thr' = [thr EXCEPT ![t] = IF retired[thr[t].gen] THEN [@ EXCEPT !.pc = "drain"] ELSE Idle]
    /\ UNCHANGED <<pubVars, retired, drained, stopped, hijacked, open, hijackMu>>

Release_NoDrain(t) ==
    /\ thr[t].pc = "release"
    /\ count' = [count EXCEPT ![thr[t].gen] = @ - 1]
    /\ thr' = [thr EXCEPT ![t] = Idle]
    /\ UNCHANGED <<pubVars, retired, drained, stopped, hijacked, open, hijackMu>>

\* releaseRequest: the decrement, and closeDrained when it leaves the bare
\* retired bit.  The channel is closed by the step after the decrement.
Release(t) ==
    LET g == thr[t].gen IN
    /\ thr[t].pc = "release"
    /\ count' = [count EXCEPT ![g] = @ - 1]
    /\ IF retired[g] /\ count[g] = 1
       THEN Goto(t, "drain")
       ELSE thr' = [thr EXCEPT ![t] = Idle]
    /\ UNCHANGED <<pubVars, retired, drained, stopped, hijacked, open, hijackMu>>

CloseDrained(t) ==
    /\ thr[t].pc = "drain"
    /\ drained' = drained \cup {thr[t].gen}
    /\ thr' = [thr EXCEPT ![t] = Idle]
    /\ UNCHANGED <<pubVars, retired, count, stopped, hijacked, open, hijackMu>>

-----------------------------------------------------------------------------
(* Hijacked connections.                                                   *)

\* The handler takes the connection over; the response writer of a batch
\* worker cannot be hijacked.
Hijack(t) ==
    /\ thr[t].pc = "serving" /\ ~thr[t].lease /\ thr[t].hijack = "none"
    /\ open' = open \cup {t}
    /\ Goto(t, "hijack")
    /\ UNCHANGED <<pubVars, retired, count, drained, stopped, hijacked, hijackMu>>

\* Mutant: the retired bit is read before hijackMu is taken.
RegisterCheck_Unlocked(t) ==
    LET g == thr[t].gen IN
    /\ thr[t].pc = "hijack"
    /\ thr' = [thr EXCEPT ![t].pc = "register",
                          ![t].hijack = IF retired[g] THEN "refused" ELSE "registered"]
    /\ UNCHANGED <<pubVars, retired, count, drained, stopped, hijacked, open, hijackMu>>

\* registerHijacked: the retired bit is read under hijackMu, which is given
\* up at once when the generation is retired ...
RegisterCheck(t) ==
    LET g == thr[t].gen IN
    /\ thr[t].pc = "hijack" /\ g \notin hijackMu
    /\ hijackMu' = IF retired[g] THEN hijackMu ELSE hijackMu \cup {g}
    /\ thr' = [thr EXCEPT ![t].pc = "register",
                          ![t].hijack = IF retired[g] THEN "refused" ELSE "registered"]
    /\ UNCHANGED <<pubVars, retired, count, drained, stopped, hijacked, open>>

\* ... and the connection is recorded, or closed, before the handler goes on.
RegisterHijacked(t) ==
    LET g == thr[t].gen IN
    /\ thr[t].pc = "register"
    /\ IF thr[t].hijack = "registered"
       THEN /\ hijacked' = [hijacked EXCEPT ![g] = @ \cup {t}]
            /\ hijackMu' = hijackMu \ {g}
            /\ UNCHANGED open
       ELSE /\ open' = open \ {t}
            /\ UNCHANGED <<hijacked, hijackMu>>
    /\ Goto(t, "serving")
    /\ UNCHANGED <<pubVars, retired, count, drained, stopped>>

\* The handler returns; one that had hijacked its connection has closed it.
Return(t) ==
    /\ thr[t].pc = "serving"
    /\ open' = open \ {t}
    /\ Goto(t, IF thr[t].hijack = "registered" THEN "unregister" ELSE "release")
    /\ UNCHANGED <<pubVars, retired, count, drained, stopped, hijacked, hijackMu>>

Unregister(t) ==
    LET g == thr[t].gen IN
    /\ thr[t].pc = "unregister" /\ g \notin hijackMu
    /\ hijacked' = [hijacked EXCEPT ![g] = @ \ {t}]
    /\ Goto(t, "release")
    /\ UNCHANGED <<pubVars, retired, count, drained, stopped, open, hijackMu>>

-----------------------------------------------------------------------------
(* Replace and Close.                                                      *)

Unused == {g \in Gens \ {First} : /\ g # current /\ ~retired[g]
                                  /\ \A p \in Publishers : pub[p].gen # g}

\* Replace under mu: swap the pointer, or retire the new generation itself
\* when the handler is already closed.
ReplaceSwap ==
    /\ pub["reload"].pc = "idle" /\ mu = "free"
    /\ \E next \in Unused :
        IF closed
        THEN /\ pub' = [pub EXCEPT !["reload"] = [PubIdle EXCEPT !.pc = "load", !.gen = next, !.sync = TRUE]]
             /\ UNCHANGED current
        ELSE /\ pub' = [pub EXCEPT !["reload"] = [PubIdle EXCEPT !.pc = "load", !.gen = current]]
             /\ current' = next
    /\ mu' = "reload"
    /\ UNCHANGED <<closed, stopping, retired, count, drained, stopped, hijacked, open, hijackMu, thr>>

\* Close under mu: only the first call does anything.
CloseSwap ==
    /\ pub["close"].pc = "idle" /\ mu = "free" /\ ~closed
    /\ closed' = TRUE
    /\ pub' = [pub EXCEPT !["close"] = [PubIdle EXCEPT !.pc = "load", !.gen = current, !.sync = TRUE]]
    /\ current' = NoGen
    /\ mu' = "close"
    /\ UNCHANGED <<stopping, retired, count, drained, stopped, hijacked, open, hijackMu, thr>>

\* retireRouteSet: load, then compare-and-swap of the retired bit.
RetireLoad(p) ==
    /\ pub[p].pc = "load"
    /\ pub' = IF retired[pub[p].gen] THEN [pub EXCEPT ![p].pc = "unlock"]
              ELSE [pub EXCEPT ![p].pc = "cas", ![p].seen = count[pub[p].gen]]
    /\ UNCHANGED <<current, closed, mu, stopping, retired, count, drained, stopped, hijacked, open, hijackMu, thr>>

RetireCAS(p) ==
    LET g == pub[p].gen IN
    /\ pub[p].pc = "cas"
    /\ IF WordUnchanged(g, pub[p].seen)
       THEN /\ retired' = [retired EXCEPT ![g] = TRUE]
            /\ pub' = [pub EXCEPT ![p].pc = "closeHijacked"]
       ELSE /\ pub' = [pub EXCEPT ![p].pc = "load"]
            /\ UNCHANGED retired
    /\ UNCHANGED <<current, closed, mu, stopping, count, drained, stopped, hijacked, open, hijackMu, thr>>

\* closeHijacked: the set is taken under hijackMu, the connections are closed
\* after it is released.
CloseHijacked(p) ==
    LET g == pub[p].gen IN
    /\ pub[p].pc = "closeHijacked" /\ g \notin hijackMu
    /\ pub' = [pub EXCEPT ![p].pc = "closeConns", ![p].conns = hijacked[g]]
    /\ hijacked' = [hijacked EXCEPT ![g] = {}]
    /\ UNCHANGED <<current, closed, mu, stopping, retired, count, drained, stopped, open, hijackMu, thr>>

CloseConnection(p) ==
    /\ pub[p].pc = "closeConns"
    /\ \E c \in pub[p].conns :
        /\ open' = open \ {c}
        /\ pub' = [pub EXCEPT ![p].conns = @ \ {c}]
    /\ UNCHANGED <<current, closed, mu, stopping, retired, count, drained, stopped, hijacked, hijackMu, thr>>

\* Mutant: retirement signals drained whatever the count was.
RetireDrained_Always(p) ==
    /\ pub[p].pc = "closeConns" /\ pub[p].conns = {}
    /\ drained' = drained \cup {pub[p].gen}
    /\ pub' = [pub EXCEPT ![p].pc = "unlock"]
    /\ UNCHANGED <<current, closed, mu, stopping, retired, count, stopped, hijacked, open, hijackMu, thr>>

RetireDrained(p) ==
    /\ pub[p].pc = "closeConns" /\ pub[p].conns = {}
    /\ drained' = IF pub[p].seen = 0 THEN drained \cup {pub[p].gen} ELSE drained
    /\ pub' = [pub EXCEPT ![p].pc = "unlock"]
    /\ UNCHANGED <<current, closed, mu, stopping, retired, count, stopped, hijacked, open, hijackMu, thr>>

\* The publisher leaves mu and calls stopRouteSet, Replace in a goroutine.
Unlock(p) ==
    /\ pub[p].pc = "unlock"
    /\ mu' = "free"
    /\ stopping' = stopping \cup {pub[p].gen}
    /\ pub' = [pub EXCEPT ![p] = IF @.sync THEN [@ EXCEPT !.pc = "wait"] ELSE PubIdle]
    /\ UNCHANGED <<current, closed, retired, count, drained, stopped, hijacked, open, hijackMu, thr>>

StopRouteSet(g) ==
    /\ g \in stopping \cap drained
    /\ stopped' = stopped \cup {g}
    /\ stopping' = stopping \ {g}
    /\ UNCHANGED <<current, closed, mu, retired, count, drained, hijacked, open, hijackMu, thr, pub>>

SyncStopped(p) ==
    /\ pub[p].pc = "wait" /\ pub[p].gen \in stopped
    /\ pub' = [pub EXCEPT ![p] = PubIdle]
    /\ UNCHANGED <<current, closed, mu, stopping, retired, count, drained, stopped, hijacked, open, hijackMu, thr>>

-----------------------------------------------------------------------------

ThreadStep(t) ==
    \/ ServeLoad(t) \/ ServeUnavailable(t) \/ AcquireLoad(t) \/ AcquireCAS(t)
    \/ (\E w \in Threads : LeaseBegin(t, w)) \/ LeaseLoad(t) \/ LeaseCAS(t)
    \/ Hijack(t) \/ RegisterCheck(t) \/ RegisterHijacked(t)
    \/ Return(t) \/ Unregister(t) \/ Release(t) \/ CloseDrained(t)

RetireStep(p) ==
    \/ RetireLoad(p) \/ RetireCAS(p) \/ CloseHijacked(p) \/ CloseConnection(p)
    \/ RetireDrained(p) \/ Unlock(p) \/ SyncStopped(p)

Next ==
    \/ \E t \in Threads : ThreadStep(t)
    \/ ReplaceSwap \/ CloseSwap
    \/ \E p \in Publishers : RetireStep(p)
    \/ \E g \in Gens : StopRouteSet(g)

Spec == Init /\ [][Next]_vars

\* A goroutine that can run does run: every step but the arrival of a request
\* and the choices of a handler.  A handler returns, except that one with an
\* open hijacked connection may stay in it for ever.  sync.Mutex does not
\* starve a waiter, hence strong fairness where hijackMu is taken.
Fairness ==
    /\ \A t \in Threads :
        /\ WF_vars(AcquireLoad(t) \/ AcquireCAS(t) \/ LeaseLoad(t) \/ LeaseCAS(t)
                   \/ RegisterHijacked(t) \/ Release(t) \/ CloseDrained(t))
        /\ SF_vars(RegisterCheck(t) \/ Unregister(t))
        /\ WF_vars(t \notin open /\ Return(t))
    /\ \A p \in Publishers : WF_vars(RetireStep(p)) /\ SF_vars(CloseHijacked(p))
    /\ \A g \in Gens : WF_vars(StopRouteSet(g))

FairSpec == Spec /\ Fairness

-----------------------------------------------------------------------------
(* Properties.                                                             *)

ThreadType ==
    [pc : Owning \cup {"idle", "load", "cas", "reserved", "drain"},
     gen : Gens \cup {NoGen}, seen : Nat, hijack : {"none", "registered", "refused"},
     lease : BOOLEAN, worker : SUBSET Threads, items : Nat]

PubType ==
    [pc : {"idle", "load", "cas", "closeHijacked", "closeConns", "unlock", "wait"},
     gen : Gens \cup {NoGen}, seen : Nat, conns : SUBSET Threads, sync : BOOLEAN]

\* Every variable keeps the type its Go declaration gives it; the reference
\* count never goes below zero, so the word never borrows into the retired bit.
TypeOK ==
    /\ current \in Gens \cup {NoGen} /\ closed \in BOOLEAN
    /\ mu \in Publishers \cup {"free"}
    /\ retired \in [Gens -> BOOLEAN] /\ count \in [Gens -> Nat]
    /\ drained \subseteq Gens /\ stopped \subseteq Gens /\ stopping \subseteq Gens
    /\ hijacked \in [Gens -> SUBSET Threads] /\ open \subseteq Threads
    /\ hijackMu \subseteq Gens
    /\ thr \in [Threads -> ThreadType]
    /\ pub \in [Publishers -> PubType]

\* The count in routeSet.state is the number of requests and batch workers
\* that hold the generation: no reference is lost or returned twice.
CountExact == \A g \in Gens : count[g] = Cardinality(Holders(g))

\* stopRouteSet runs the stop function of a generation (which stops its
\* plugins and cluster leases) only after the generation is retired and no
\* request or batch worker is inside it, and none enters afterwards.
NoUseAfterStop == \A g \in stopped : retired[g] /\ Holders(g) = {}

Retiring(g) == \E p \in Publishers :
    pub[p].gen = g /\ pub[p].pc \in {"closeHijacked", "closeConns"}

\* Once retireRouteSet has returned, no handler of the retired generation goes
\* on with an open hijacked connection, whichever way registerHijacked and
\* closeHijacked interleaved.
TunnelsClosed ==
    \A t \in Threads :
        LET g == thr[t].gen IN
        (thr[t].pc = "serving" /\ thr[t].hijack # "none" /\ retired[g] /\ ~Retiring(g))
            => t \notin open

\* Outside mu the current pointer is nil exactly when the handler is closed
\* and never points to a retired generation, so the acquire loop of ServeHTTP
\* does not spin on a generation that will always refuse it.
CurrentServable ==
    mu = "free" =>
        /\ (current = NoGen) <=> closed
        /\ current # NoGen => ~retired[current]

\* Every variable has its type, the current generation can be acquired, and
\* retirement leaves no tunnel open (Replace, Close, registerHijacked).
PublicationRight == TypeOK /\ CurrentServable /\ TunnelsClosed

Phase(g) == IF g \in stopped THEN "stopped" ELSE IF retired[g] THEN "retired" ELSE "live"

Contract == INSTANCE GenerationContract WITH
    Users <- Threads,
    phase <- [g \in Gens |-> Phase(g)],
    users <- [g \in Gens |-> Holders(g)]

\* Requests, leases, Replace and Close together implement the contract: a
\* retired generation takes no new user, and is stopped once, when empty.
ImplementsContract == Contract!Spec

\* Nothing is on its way: every retired generation has been stopped, and no
\* publisher is inside Replace or Close.
Settled ==
    /\ \A g \in Gens : retired[g] => g \in stopped
    /\ \A p \in Publishers : pub[p].pc = "idle"

\* Every generation that is retired is stopped in the end: its hijacked
\* connections are closed, its requests return, the last one closes drained.
\* Close returns, and Replace too: the compare-and-swap loop of retireRouteSet
\* and the wait for drained end. (There are finitely many generations, so all
\* of this is over at some point.)
Progress == <>[]Settled

=============================================================================
