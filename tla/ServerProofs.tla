---------------------------- MODULE ServerProofs -----------------------------
(***************************************************************************)
(* The shutdown of the process, and the configuration file of a standalone *)
(* server.                                                                 *)
(***************************************************************************)
EXTENDS ServerLifecycle, StandaloneConfig, FiniteSetTheorems, TLAPS

-----------------------------------------------------------------------------
(***************************************************************************)
(* For any set of requests: a shutdown that is complete has released       *)
(* everything, and the store is never stopped under its users              *)
(* (ServerLifecycle!ReleaseRight).                                         *)
(*                                                                         *)
(* An attempt goes through its waits in one order, so each wait it has     *)
(* passed is a fact about the rest of its way; the facts survive because   *)
(* shutdownRequested, set before the first of them, keeps Start from       *)
(* bringing anything up again. The inductive invariant lists them in the   *)
(* order of the attempt.                                                   *)
(***************************************************************************)

\* Some caller's attempt is at one of the given steps, or has completed.
Reached(steps) == complete \/ \E c \in Callers : caller[c] \in steps

\* The steps of an attempt after each of its waits and stops.
AfterRelease == {"exporter"}
AfterRoutes == {"store"} \cup AfterRelease
AfterStream == {"routes", "handlers"} \cup AfterRoutes
AfterScheduler == {"stream"} \cup AfterStream
AfterStartup == {"scheduler"} \cup AfterScheduler
AfterProducer == {"startup"} \cup AfterStartup
AfterExpiration == {"producer"} \cup AfterProducer

\* What an attempt has established when it has got so far.
AttemptFacts ==
    /\ Reached(AfterExpiration) => requested /\ "expiration" \notin running
    /\ Reached(AfterProducer) => producer # "retained"
    /\ Reached(AfterStartup) => ~InStartup
    /\ Reached(AfterScheduler) => "scheduler" \notin running
    /\ Reached(AfterStream) => "stream" \notin running
    /\ Reached(AfterRoutes) => routes = "closed"
    /\ Reached(AfterRelease) => "store" \notin running
    /\ complete => "exporter" \notin running /\ attempt = "nobody"

\* The producer runs only while it is retained, and is known to Start from
\* the step that retains it on.
ProducerFacts ==
    /\ "producer" \in running => producer = "retained"
    /\ start \in {"load", "watch", "stream", "scheduler", "exporter", "serve"} => producer # "none"
    /\ start \in {"new", "expiration", "store", "retain"} => producer = "none"

\* Start has not got as far as the store.
BeforeStore ==
    /\ start \in {"new", "refused", "expiration", "store", "finish", "cleanup", "done"}
    /\ producer = "none"
    /\ \A r \in Requests : request[r] = "none"
    /\ running \cap {"producer", "scheduler", "stream"} = {}

\* The store runs unless Start never reached it or an attempt released it, and
\* closed routes hold no request.
StoreFacts ==
    /\ "store" \in running \/ BeforeStore \/ Reached(AfterRelease)
    /\ routes = "closed" => \A r \in Requests : request[r] # "inside"
    /\ routes = "open" \/ Reached({"handlers"} \cup AfterRoutes)

\* The deferred cleanup calls shutdown after Start is over, and leaves the
\* background caller behind when it is done.
CallerFacts ==
    /\ start \in Startup \cup {"new", "refused"} => caller["cleanup"] = "idle"
    /\ caller["cleanup"] # "done" => caller["background"] = "idle"

ShutdownInv == TypeOK /\ OneAttempt /\ AttemptFacts /\ ProducerFacts /\ StoreFacts /\ CallerFacts

-----------------------------------------------------------------------------
\* A new Server, on which neither Start nor Shutdown was called, satisfies the
\* inductive invariant.
LEMMA InitShutdown == Init => ShutdownInv
  BY Zenon DEF Init, ShutdownInv, TypeOK, OneAttempt, AttemptFacts, ProducerFacts, StoreFacts, CallerFacts, Reached,
         AfterExpiration, AfterProducer, AfterStartup, AfterScheduler, AfterStream, AfterRoutes,
         AfterRelease, BeforeStore, InStartup, Startup, Resting, Attempting, Callers, Resources, Providers

\* The inductive invariant is preserved by the steps of Start, which brings
\* resources up one by one.
LEMMA StartSteps ==
  ASSUME ShutdownInv,
         BeginStart \/ StartFails \/ StartStorage \/ retainProducer \/ LoadConfig \/ StartProducer
         \/ startReloadScheduler \/ StopServing \/ finishStart \/ SchedulerExits
  PROVE  ShutdownInv'
<1> USE DEF ShutdownInv, startVars, httpVars, shutdownVars, InStartup, Startup
<1>1. CASE BeginStart
  <2>1. TypeOK' /\ OneAttempt' /\ CallerFacts'
    BY <1>1 DEF BeginStart, TypeOK, OneAttempt, CallerFacts, Resources, Resting, Attempting, Callers
  <2>2. AttemptFacts'
    BY <1>1 DEF BeginStart, TypeOK, OneAttempt, AttemptFacts, Reached, AfterExpiration,
               AfterProducer, AfterStartup, AfterScheduler, AfterStream, AfterRoutes, AfterRelease,
               Attempting, Callers, ProducerFacts, CallerFacts
  <2>3. ProducerFacts' /\ StoreFacts'
    BY <1>1 DEF BeginStart, TypeOK, OneAttempt, AttemptFacts, Reached, AfterExpiration,
               AfterProducer, AfterStartup, AfterScheduler, AfterStream, AfterRoutes, AfterRelease,
               Attempting, Callers, ProducerFacts, StoreFacts, BeforeStore, CallerFacts
  <2> QED  BY <2>1, <2>2, <2>3
<1>2. CASE StartFails
  <2>1. TypeOK' /\ OneAttempt' /\ CallerFacts'
    BY <1>2 DEF StartFails, MayFail, TypeOK, OneAttempt, CallerFacts, Resources, Resting, Attempting,
               Callers
  <2>2. AttemptFacts'
    BY <1>2 DEF StartFails, MayFail, TypeOK, OneAttempt, AttemptFacts, Reached, AfterExpiration,
               AfterProducer, AfterStartup, AfterScheduler, AfterStream, AfterRoutes, AfterRelease,
               Attempting, Callers, ProducerFacts, CallerFacts
  <2>3. ProducerFacts' /\ StoreFacts'
    BY <1>2 DEF StartFails, MayFail, TypeOK, OneAttempt, AttemptFacts, Reached, AfterExpiration,
               AfterProducer, AfterStartup, AfterScheduler, AfterStream, AfterRoutes, AfterRelease,
               Attempting, Callers, ProducerFacts, StoreFacts, BeforeStore, CallerFacts
  <2> QED  BY <2>1, <2>2, <2>3
<1>3. CASE StartStorage
  <2>1. TypeOK' /\ OneAttempt' /\ CallerFacts'
    BY <1>3 DEF StartStorage, Following, TypeOK, OneAttempt, CallerFacts, Resources, Resting,
               Attempting, Callers
  <2>2. AttemptFacts'
    BY <1>3 DEF StartStorage, Following, TypeOK, OneAttempt, AttemptFacts, Reached, AfterExpiration,
               AfterProducer, AfterStartup, AfterScheduler, AfterStream, AfterRoutes, AfterRelease,
               Attempting, Callers, ProducerFacts, CallerFacts
  <2>3. ProducerFacts' /\ StoreFacts'
    BY <1>3 DEF StartStorage, Following, TypeOK, OneAttempt, AttemptFacts, Reached, AfterExpiration,
               AfterProducer, AfterStartup, AfterScheduler, AfterStream, AfterRoutes, AfterRelease,
               Attempting, Callers, ProducerFacts, StoreFacts, BeforeStore, CallerFacts
  <2> QED  BY <2>1, <2>2, <2>3
<1>4. CASE retainProducer
  <2>1. TypeOK' /\ OneAttempt' /\ CallerFacts'
    BY <1>4 DEF retainProducer, Following, TypeOK, OneAttempt, CallerFacts, Resources, Resting,
               Attempting, Callers
  <2>2. AttemptFacts'
    BY <1>4 DEF retainProducer, Following, TypeOK, OneAttempt, AttemptFacts, Reached,
               AfterExpiration, AfterProducer, AfterStartup, AfterScheduler, AfterStream,
               AfterRoutes, AfterRelease, Attempting, Callers, ProducerFacts, CallerFacts
  <2>3. ProducerFacts' /\ StoreFacts'
    BY <1>4 DEF retainProducer, Following, TypeOK, OneAttempt, AttemptFacts, Reached,
               AfterExpiration, AfterProducer, AfterStartup, AfterScheduler, AfterStream,
               AfterRoutes, AfterRelease, Attempting, Callers, ProducerFacts, StoreFacts,
               BeforeStore, CallerFacts
  <2> QED  BY <2>1, <2>2, <2>3
<1>5. CASE LoadConfig
  <2>1. TypeOK' /\ OneAttempt' /\ CallerFacts'
    BY <1>5 DEF LoadConfig, Following, TypeOK, OneAttempt, CallerFacts, Resources, Resting,
               Attempting, Callers
  <2>2. AttemptFacts'
    BY <1>5 DEF LoadConfig, Following, TypeOK, OneAttempt, AttemptFacts, Reached, AfterExpiration,
               AfterProducer, AfterStartup, AfterScheduler, AfterStream, AfterRoutes, AfterRelease,
               Attempting, Callers, ProducerFacts, CallerFacts
  <2>3. ProducerFacts' /\ StoreFacts'
    BY <1>5 DEF LoadConfig, Following, TypeOK, OneAttempt, AttemptFacts, Reached, AfterExpiration,
               AfterProducer, AfterStartup, AfterScheduler, AfterStream, AfterRoutes, AfterRelease,
               Attempting, Callers, ProducerFacts, StoreFacts, BeforeStore, CallerFacts
  <2> QED  BY <2>1, <2>2, <2>3
<1>6. CASE StartProducer
  <2>1. TypeOK' /\ OneAttempt' /\ CallerFacts'
    BY <1>6 DEF StartProducer, Following, TypeOK, OneAttempt, CallerFacts, Resources, Resting,
               Attempting, Callers
  <2>2. AttemptFacts'
    BY <1>6 DEF StartProducer, Following, TypeOK, OneAttempt, AttemptFacts, Reached, AfterExpiration,
               AfterProducer, AfterStartup, AfterScheduler, AfterStream, AfterRoutes, AfterRelease,
               Attempting, Callers, ProducerFacts, CallerFacts
  <2>3. ProducerFacts' /\ StoreFacts'
    BY <1>6 DEF StartProducer, Following, TypeOK, OneAttempt, AttemptFacts, Reached, AfterExpiration,
               AfterProducer, AfterStartup, AfterScheduler, AfterStream, AfterRoutes, AfterRelease,
               Attempting, Callers, ProducerFacts, StoreFacts, BeforeStore, CallerFacts
  <2> QED  BY <2>1, <2>2, <2>3
<1>7. CASE startReloadScheduler
  <2>1. TypeOK' /\ OneAttempt' /\ CallerFacts'
    BY <1>7 DEF startReloadScheduler, Following, TypeOK, OneAttempt, CallerFacts, Resources, Resting,
               Attempting, Callers
  <2>2. AttemptFacts'
    BY <1>7 DEF startReloadScheduler, Following, TypeOK, OneAttempt, AttemptFacts, Reached,
               AfterExpiration, AfterProducer, AfterStartup, AfterScheduler, AfterStream,
               AfterRoutes, AfterRelease, Attempting, Callers, ProducerFacts, CallerFacts
  <2>3. ProducerFacts' /\ StoreFacts'
    BY <1>7 DEF startReloadScheduler, Following, TypeOK, OneAttempt, AttemptFacts, Reached,
               AfterExpiration, AfterProducer, AfterStartup, AfterScheduler, AfterStream,
               AfterRoutes, AfterRelease, Attempting, Callers, ProducerFacts, StoreFacts,
               BeforeStore, CallerFacts
  <2> QED  BY <2>1, <2>2, <2>3
<1>8. CASE StopServing
  <2>1. TypeOK' /\ OneAttempt' /\ CallerFacts'
    BY <1>8, Zenon DEF StopServing, TypeOK, OneAttempt, CallerFacts, Resources, Resting, Attempting, Callers
  <2>2. AttemptFacts'
    BY <1>8 DEF StopServing, TypeOK, OneAttempt, AttemptFacts, Reached, AfterExpiration,
               AfterProducer, AfterStartup, AfterScheduler, AfterStream, AfterRoutes, AfterRelease,
               Attempting, Callers, ProducerFacts, CallerFacts
  <2>3. ProducerFacts' /\ StoreFacts'
    BY <1>8 DEF StopServing, TypeOK, OneAttempt, AttemptFacts, Reached, AfterExpiration,
               AfterProducer, AfterStartup, AfterScheduler, AfterStream, AfterRoutes, AfterRelease,
               Attempting, Callers, ProducerFacts, StoreFacts, BeforeStore, CallerFacts
  <2> QED  BY <2>1, <2>2, <2>3
<1>9. CASE finishStart
  <2>1. TypeOK' /\ OneAttempt' /\ CallerFacts'
    BY <1>9 DEF finishStart, TypeOK, OneAttempt, CallerFacts, Resources, Resting, Attempting, Callers
  <2>2. AttemptFacts'
    BY <1>9 DEF finishStart, TypeOK, OneAttempt, AttemptFacts, Reached, AfterExpiration,
               AfterProducer, AfterStartup, AfterScheduler, AfterStream, AfterRoutes, AfterRelease,
               Attempting, Callers, ProducerFacts, CallerFacts
  <2>3. ProducerFacts' /\ StoreFacts'
    BY <1>9 DEF finishStart, TypeOK, OneAttempt, AttemptFacts, Reached, AfterExpiration,
               AfterProducer, AfterStartup, AfterScheduler, AfterStream, AfterRoutes, AfterRelease,
               Attempting, Callers, ProducerFacts, StoreFacts, BeforeStore, CallerFacts
  <2> QED  BY <2>1, <2>2, <2>3
<1>10. CASE SchedulerExits
  <2>1. TypeOK' /\ OneAttempt' /\ CallerFacts'
    BY <1>10 DEF SchedulerExits, TypeOK, OneAttempt, CallerFacts, Resources, Resting, Attempting,
               Callers
  <2>2. AttemptFacts'
    BY <1>10 DEF SchedulerExits, TypeOK, OneAttempt, AttemptFacts, Reached, AfterExpiration,
               AfterProducer, AfterStartup, AfterScheduler, AfterStream, AfterRoutes, AfterRelease,
               Attempting, Callers, ProducerFacts, CallerFacts
  <2>3. ProducerFacts' /\ StoreFacts'
    BY <1>10 DEF SchedulerExits, TypeOK, OneAttempt, AttemptFacts, Reached, AfterExpiration,
               AfterProducer, AfterStartup, AfterScheduler, AfterStream, AfterRoutes, AfterRelease,
               Attempting, Callers, ProducerFacts, StoreFacts, BeforeStore, CallerFacts
  <2> QED  BY <2>1, <2>2, <2>3
<1> QED  BY <1>1, <1>2, <1>3, <1>4, <1>5, <1>6, <1>7, <1>8, <1>9, <1>10

\* The inductive invariant is preserved by a step of Start that keeps a
\* resource unless a shutdown is requested.
LEMMA ResourceSteps ==
  ASSUME ShutdownInv, NEW r \in Resources,
         StartResource(r)
  PROVE  ShutdownInv'
<1> USE DEF ShutdownInv, startVars, httpVars, shutdownVars, InStartup, Startup
<1>1. CASE StartResource(r)
  <2>1. TypeOK' /\ OneAttempt' /\ CallerFacts'
    BY <1>1 DEF StartResource, Keep, Following, TypeOK, OneAttempt, CallerFacts, Resources, Resting,
               Attempting, Callers
  <2>2. AttemptFacts'
    BY <1>1 DEF StartResource, Keep, Following, TypeOK, OneAttempt, AttemptFacts, Reached,
               AfterExpiration, AfterProducer, AfterStartup, AfterScheduler, AfterStream,
               AfterRoutes, AfterRelease, Attempting, Callers, ProducerFacts, CallerFacts
  <2>3. ProducerFacts' /\ StoreFacts'
    BY <1>1 DEF StartResource, Keep, Following, TypeOK, OneAttempt, AttemptFacts, Reached,
               AfterExpiration, AfterProducer, AfterStartup, AfterScheduler, AfterStream,
               AfterRoutes, AfterRelease, Attempting, Callers, ProducerFacts, StoreFacts,
               BeforeStore, CallerFacts
  <2> QED  BY <2>1, <2>2, <2>3
<1> QED  BY <1>1

\* The inductive invariant is preserved by a request that arrives, enters a
\* route generation or leaves it.
LEMMA RequestSteps ==
  ASSUME ShutdownInv, NEW r \in Requests,
         Arrive(r) \/ EnterRoutes(r) \/ Leave(r)
  PROVE  ShutdownInv'
<1> USE DEF ShutdownInv, startVars, httpVars, shutdownVars, InStartup, Startup
<1>1. CASE Arrive(r)
  <2>1. TypeOK' /\ OneAttempt' /\ CallerFacts'
    BY <1>1 DEF Arrive, TypeOK, OneAttempt, CallerFacts, Resources, Resting, Attempting, Callers
  <2>2. AttemptFacts'
    BY <1>1 DEF Arrive, TypeOK, OneAttempt, AttemptFacts, Reached, AfterExpiration, AfterProducer,
               AfterStartup, AfterScheduler, AfterStream, AfterRoutes, AfterRelease, Attempting,
               Callers, ProducerFacts, CallerFacts
  <2>3. ProducerFacts' /\ StoreFacts'
    BY <1>1 DEF Arrive, TypeOK, OneAttempt, AttemptFacts, Reached, AfterExpiration, AfterProducer,
               AfterStartup, AfterScheduler, AfterStream, AfterRoutes, AfterRelease, Attempting,
               Callers, ProducerFacts, StoreFacts, BeforeStore, CallerFacts
  <2> QED  BY <2>1, <2>2, <2>3
<1>2. CASE EnterRoutes(r)
  <2>1. TypeOK' /\ OneAttempt' /\ CallerFacts'
    BY <1>2 DEF EnterRoutes, TypeOK, OneAttempt, CallerFacts, Resources, Resting, Attempting, Callers
  <2>2. AttemptFacts'
    BY <1>2 DEF EnterRoutes, TypeOK, OneAttempt, AttemptFacts, Reached, AfterExpiration,
               AfterProducer, AfterStartup, AfterScheduler, AfterStream, AfterRoutes, AfterRelease,
               Attempting, Callers, ProducerFacts, CallerFacts
  <2>3. ProducerFacts' /\ StoreFacts'
    BY <1>2 DEF EnterRoutes, TypeOK, OneAttempt, AttemptFacts, Reached, AfterExpiration,
               AfterProducer, AfterStartup, AfterScheduler, AfterStream, AfterRoutes, AfterRelease,
               Attempting, Callers, ProducerFacts, StoreFacts, BeforeStore, CallerFacts
  <2> QED  BY <2>1, <2>2, <2>3
<1>3. CASE Leave(r)
  <2>1. TypeOK' /\ OneAttempt' /\ CallerFacts'
    BY <1>3 DEF Leave, TypeOK, OneAttempt, CallerFacts, Resources, Resting, Attempting, Callers
  <2>2. AttemptFacts'
    BY <1>3 DEF Leave, TypeOK, OneAttempt, AttemptFacts, Reached, AfterExpiration, AfterProducer,
               AfterStartup, AfterScheduler, AfterStream, AfterRoutes, AfterRelease, Attempting,
               Callers, ProducerFacts, CallerFacts
  <2>3. ProducerFacts' /\ StoreFacts'
    BY <1>3 DEF Leave, TypeOK, OneAttempt, AttemptFacts, Reached, AfterExpiration, AfterProducer,
               AfterStartup, AfterScheduler, AfterStream, AfterRoutes, AfterRelease, Attempting,
               Callers, ProducerFacts, StoreFacts, BeforeStore, CallerFacts
  <2> QED  BY <2>1, <2>2, <2>3
<1> QED  BY <1>1, <1>2, <1>3

\* The inductive invariant is preserved by the signal loop of the command and
\* the deferred cleanup of Start.
LEMMA OwnerSteps ==
  ASSUME ShutdownInv,
         Signal \/ SignalReturns \/ CleanupReturns \/ CleanupFallback
  PROVE  ShutdownInv'
<1> USE DEF ShutdownInv, startVars, httpVars, shutdownVars, InStartup, Startup
<1>1. CASE Signal
  <2>1. TypeOK' /\ OneAttempt' /\ CallerFacts'
    BY <1>1 DEF Signal, To, TypeOK, OneAttempt, CallerFacts, Resources, Resting, Attempting, Callers
  <2>2. AttemptFacts'
    BY <1>1 DEF Signal, To, TypeOK, OneAttempt, AttemptFacts, Reached, AfterExpiration,
               AfterProducer, AfterStartup, AfterScheduler, AfterStream, AfterRoutes, AfterRelease,
               Attempting, Callers, ProducerFacts, CallerFacts
  <2>3. ProducerFacts' /\ StoreFacts'
    BY <1>1 DEF Signal, To, TypeOK, OneAttempt, AttemptFacts, Reached, AfterExpiration,
               AfterProducer, AfterStartup, AfterScheduler, AfterStream, AfterRoutes, AfterRelease,
               Attempting, Callers, ProducerFacts, StoreFacts, BeforeStore, CallerFacts
  <2> QED  BY <2>1, <2>2, <2>3
<1>2. CASE SignalReturns
  <2>1. TypeOK' /\ OneAttempt' /\ CallerFacts'
    BY <1>2 DEF SignalReturns, To, TypeOK, OneAttempt, CallerFacts, Resources, Resting, Attempting,
               Callers
  <2>2. AttemptFacts'
    BY <1>2 DEF SignalReturns, To, TypeOK, OneAttempt, AttemptFacts, Reached, AfterExpiration,
               AfterProducer, AfterStartup, AfterScheduler, AfterStream, AfterRoutes, AfterRelease,
               Attempting, Callers, ProducerFacts, CallerFacts
  <2>3. ProducerFacts' /\ StoreFacts'
    BY <1>2 DEF SignalReturns, To, TypeOK, OneAttempt, AttemptFacts, Reached, AfterExpiration,
               AfterProducer, AfterStartup, AfterScheduler, AfterStream, AfterRoutes, AfterRelease,
               Attempting, Callers, ProducerFacts, StoreFacts, BeforeStore, CallerFacts
  <2> QED  BY <2>1, <2>2, <2>3
<1>3. CASE CleanupReturns
  <2>1. TypeOK' /\ OneAttempt' /\ CallerFacts'
    BY <1>3 DEF CleanupReturns, To, TypeOK, OneAttempt, CallerFacts, Resources, Resting, Attempting,
               Callers
  <2>2. AttemptFacts'
    BY <1>3 DEF CleanupReturns, To, TypeOK, OneAttempt, AttemptFacts, Reached, AfterExpiration,
               AfterProducer, AfterStartup, AfterScheduler, AfterStream, AfterRoutes, AfterRelease,
               Attempting, Callers, ProducerFacts, CallerFacts
  <2>3. ProducerFacts' /\ StoreFacts'
    BY <1>3 DEF CleanupReturns, To, TypeOK, OneAttempt, AttemptFacts, Reached, AfterExpiration,
               AfterProducer, AfterStartup, AfterScheduler, AfterStream, AfterRoutes, AfterRelease,
               Attempting, Callers, ProducerFacts, StoreFacts, BeforeStore, CallerFacts
  <2> QED  BY <2>1, <2>2, <2>3
<1>4. CASE CleanupFallback
  <2>1. TypeOK' /\ OneAttempt' /\ CallerFacts'
    BY <1>4 DEF CleanupFallback, StopProducer, TypeOK, OneAttempt, CallerFacts, Resources, Resting,
               Attempting, Callers
  <2>2. AttemptFacts'
    BY <1>4 DEF CleanupFallback, StopProducer, TypeOK, OneAttempt, AttemptFacts, Reached,
               AfterExpiration, AfterProducer, AfterStartup, AfterScheduler, AfterStream,
               AfterRoutes, AfterRelease, Attempting, Callers, ProducerFacts, CallerFacts
  <2>3. ProducerFacts' /\ StoreFacts'
    BY <1>4 DEF CleanupFallback, StopProducer, TypeOK, OneAttempt, AttemptFacts, Reached,
               AfterExpiration, AfterProducer, AfterStartup, AfterScheduler, AfterStream,
               AfterRoutes, AfterRelease, Attempting, Callers, ProducerFacts, StoreFacts,
               BeforeStore, CallerFacts
  <2> QED  BY <2>1, <2>2, <2>3
<1> QED  BY <1>1, <1>2, <1>3, <1>4

\* The inductive invariant is preserved by a step of a caller of shutdown, or
\* the end of its deadline.
LEMMA AttemptSteps ==
  ASSUME ShutdownInv, NEW c \in Callers,
         Enter(c) \/ HttpShutdown(c) \/ HttpDrained(c) \/ stopPrometheusExpirationRuntime(c) \/
         stopProducerAndScheduler(c) \/ AwaitLifecycle(c) \/ CloseStream(c) \/ CloseRoutes(c) \/
         StopStorage(c) \/ FinishAttempt(c) \/ TimeOut(c)
  PROVE  ShutdownInv'
<1> USE DEF ShutdownInv, startVars, httpVars, shutdownVars, InStartup, Startup
<1>1. CASE Enter(c)
  <2>1. TypeOK' /\ OneAttempt' /\ CallerFacts'
    BY <1>1 DEF Enter, To, TypeOK, OneAttempt, CallerFacts, Resources, Resting, Attempting, Callers
  <2>2. AttemptFacts'
    BY <1>1 DEF Enter, To, TypeOK, OneAttempt, AttemptFacts, Reached, AfterExpiration, AfterProducer,
               AfterStartup, AfterScheduler, AfterStream, AfterRoutes, AfterRelease, Attempting,
               Callers, ProducerFacts, CallerFacts
  <2>3. ProducerFacts' /\ StoreFacts'
    BY <1>1 DEF Enter, To, TypeOK, OneAttempt, AttemptFacts, Reached, AfterExpiration, AfterProducer,
               AfterStartup, AfterScheduler, AfterStream, AfterRoutes, AfterRelease, Attempting,
               Callers, ProducerFacts, StoreFacts, BeforeStore, CallerFacts
  <2> QED  BY <2>1, <2>2, <2>3
<1>2. CASE HttpShutdown(c)
  <2>1. TypeOK' /\ OneAttempt' /\ CallerFacts'
    BY <1>2 DEF HttpShutdown, To, TypeOK, OneAttempt, CallerFacts, Resources, Resting, Attempting,
               Callers
  <2>2. AttemptFacts'
    BY <1>2 DEF HttpShutdown, To, TypeOK, OneAttempt, AttemptFacts, Reached, AfterExpiration,
               AfterProducer, AfterStartup, AfterScheduler, AfterStream, AfterRoutes, AfterRelease,
               Attempting, Callers, ProducerFacts, CallerFacts
  <2>3. ProducerFacts' /\ StoreFacts'
    BY <1>2 DEF HttpShutdown, To, TypeOK, OneAttempt, AttemptFacts, Reached, AfterExpiration,
               AfterProducer, AfterStartup, AfterScheduler, AfterStream, AfterRoutes, AfterRelease,
               Attempting, Callers, ProducerFacts, StoreFacts, BeforeStore, CallerFacts
  <2> QED  BY <2>1, <2>2, <2>3
<1>3. CASE HttpDrained(c)
  <2>1. TypeOK' /\ OneAttempt' /\ CallerFacts'
    BY <1>3 DEF HttpDrained, To, TypeOK, OneAttempt, CallerFacts, Resources, Resting, Attempting,
               Callers
  <2>2. AttemptFacts'
    BY <1>3 DEF HttpDrained, To, TypeOK, OneAttempt, AttemptFacts, Reached, AfterExpiration,
               AfterProducer, AfterStartup, AfterScheduler, AfterStream, AfterRoutes, AfterRelease,
               Attempting, Callers, ProducerFacts, CallerFacts
  <2>3. ProducerFacts' /\ StoreFacts'
    BY <1>3 DEF HttpDrained, To, TypeOK, OneAttempt, AttemptFacts, Reached, AfterExpiration,
               AfterProducer, AfterStartup, AfterScheduler, AfterStream, AfterRoutes, AfterRelease,
               Attempting, Callers, ProducerFacts, StoreFacts, BeforeStore, CallerFacts
  <2> QED  BY <2>1, <2>2, <2>3
<1>4. CASE stopPrometheusExpirationRuntime(c)
  <2>1. TypeOK' /\ OneAttempt' /\ CallerFacts'
    BY <1>4 DEF stopPrometheusExpirationRuntime, To, TypeOK, OneAttempt, CallerFacts, Resources,
               Resting, Attempting, Callers
  <2>2. AttemptFacts'
    BY <1>4 DEF stopPrometheusExpirationRuntime, To, TypeOK, OneAttempt, AttemptFacts, Reached,
               AfterExpiration, AfterProducer, AfterStartup, AfterScheduler, AfterStream,
               AfterRoutes, AfterRelease, Attempting, Callers, ProducerFacts, CallerFacts
  <2>3. ProducerFacts' /\ StoreFacts'
    BY <1>4 DEF stopPrometheusExpirationRuntime, To, TypeOK, OneAttempt, AttemptFacts, Reached,
               AfterExpiration, AfterProducer, AfterStartup, AfterScheduler, AfterStream,
               AfterRoutes, AfterRelease, Attempting, Callers, ProducerFacts, StoreFacts,
               BeforeStore, CallerFacts
  <2> QED  BY <2>1, <2>2, <2>3
<1>5. CASE stopProducerAndScheduler(c)
  <2>1. TypeOK' /\ OneAttempt' /\ CallerFacts'
    BY <1>5 DEF stopProducerAndScheduler, To, StopProducer, TypeOK, OneAttempt, CallerFacts,
               Resources, Resting, Attempting, Callers
  <2>2. AttemptFacts'
    BY <1>5 DEF stopProducerAndScheduler, To, StopProducer, TypeOK, OneAttempt, AttemptFacts,
               Reached, AfterExpiration, AfterProducer, AfterStartup, AfterScheduler, AfterStream,
               AfterRoutes, AfterRelease, Attempting, Callers, ProducerFacts, CallerFacts
  <2>3. ProducerFacts' /\ StoreFacts'
    BY <1>5 DEF stopProducerAndScheduler, To, StopProducer, TypeOK, OneAttempt, AttemptFacts,
               Reached, AfterExpiration, AfterProducer, AfterStartup, AfterScheduler, AfterStream,
               AfterRoutes, AfterRelease, Attempting, Callers, ProducerFacts, StoreFacts,
               BeforeStore, CallerFacts
  <2> QED  BY <2>1, <2>2, <2>3
<1>6. CASE AwaitLifecycle(c)
  <2>1. TypeOK' /\ OneAttempt' /\ CallerFacts'
    BY <1>6 DEF AwaitLifecycle, To, StartupOver, TypeOK, OneAttempt, CallerFacts, Resources, Resting,
               Attempting, Callers
  <2>2. AttemptFacts'
    BY <1>6 DEF AwaitLifecycle, To, StartupOver, TypeOK, OneAttempt, AttemptFacts, Reached,
               AfterExpiration, AfterProducer, AfterStartup, AfterScheduler, AfterStream,
               AfterRoutes, AfterRelease, Attempting, Callers, ProducerFacts, CallerFacts
  <2>3. ProducerFacts' /\ StoreFacts'
    BY <1>6 DEF AwaitLifecycle, To, StartupOver, TypeOK, OneAttempt, AttemptFacts, Reached,
               AfterExpiration, AfterProducer, AfterStartup, AfterScheduler, AfterStream,
               AfterRoutes, AfterRelease, Attempting, Callers, ProducerFacts, StoreFacts,
               BeforeStore, CallerFacts
  <2> QED  BY <2>1, <2>2, <2>3
<1>7. CASE CloseStream(c)
  <2>1. TypeOK' /\ OneAttempt' /\ CallerFacts'
    BY <1>7 DEF CloseStream, To, TypeOK, OneAttempt, CallerFacts, Resources, Resting, Attempting,
               Callers
  <2>2. AttemptFacts'
    BY <1>7 DEF CloseStream, To, TypeOK, OneAttempt, AttemptFacts, Reached, AfterExpiration,
               AfterProducer, AfterStartup, AfterScheduler, AfterStream, AfterRoutes, AfterRelease,
               Attempting, Callers, ProducerFacts, CallerFacts
  <2>3. ProducerFacts' /\ StoreFacts'
    BY <1>7 DEF CloseStream, To, TypeOK, OneAttempt, AttemptFacts, Reached, AfterExpiration,
               AfterProducer, AfterStartup, AfterScheduler, AfterStream, AfterRoutes, AfterRelease,
               Attempting, Callers, ProducerFacts, StoreFacts, BeforeStore, CallerFacts
  <2> QED  BY <2>1, <2>2, <2>3
<1>8. CASE CloseRoutes(c)
  <2>1. TypeOK' /\ OneAttempt' /\ CallerFacts'
    BY <1>8 DEF CloseRoutes, To, TypeOK, OneAttempt, CallerFacts, Resources, Resting, Attempting,
               Callers
  <2>2. AttemptFacts'
    BY <1>8 DEF CloseRoutes, To, TypeOK, OneAttempt, AttemptFacts, Reached, AfterExpiration,
               AfterProducer, AfterStartup, AfterScheduler, AfterStream, AfterRoutes, AfterRelease,
               Attempting, Callers, ProducerFacts, CallerFacts
  <2>3. ProducerFacts' /\ StoreFacts'
    BY <1>8 DEF CloseRoutes, To, TypeOK, OneAttempt, AttemptFacts, Reached, AfterExpiration,
               AfterProducer, AfterStartup, AfterScheduler, AfterStream, AfterRoutes, AfterRelease,
               Attempting, Callers, ProducerFacts, StoreFacts, BeforeStore, CallerFacts
  <2> QED  BY <2>1, <2>2, <2>3
<1>9. CASE StopStorage(c)
  <2>1. TypeOK' /\ OneAttempt' /\ CallerFacts'
    BY <1>9 DEF StopStorage, To, TypeOK, OneAttempt, CallerFacts, Resources, Resting, Attempting,
               Callers
  <2>2. AttemptFacts'
    BY <1>9 DEF StopStorage, To, TypeOK, OneAttempt, AttemptFacts, Reached, AfterExpiration,
               AfterProducer, AfterStartup, AfterScheduler, AfterStream, AfterRoutes, AfterRelease,
               Attempting, Callers, ProducerFacts, CallerFacts
  <2>3. ProducerFacts' /\ StoreFacts'
    BY <1>9 DEF StopStorage, To, TypeOK, OneAttempt, AttemptFacts, Reached, AfterExpiration,
               AfterProducer, AfterStartup, AfterScheduler, AfterStream, AfterRoutes, AfterRelease,
               Attempting, Callers, ProducerFacts, StoreFacts, BeforeStore, CallerFacts
  <2> QED  BY <2>1, <2>2, <2>3
<1>10. CASE FinishAttempt(c)
  <2>1. TypeOK' /\ OneAttempt' /\ CallerFacts'
    BY <1>10 DEF FinishAttempt, To, TypeOK, OneAttempt, CallerFacts, Resources, Resting, Attempting,
               Callers
  <2>2. AttemptFacts'
    BY <1>10 DEF FinishAttempt, To, TypeOK, OneAttempt, AttemptFacts, Reached, AfterExpiration,
               AfterProducer, AfterStartup, AfterScheduler, AfterStream, AfterRoutes, AfterRelease,
               Attempting, Callers, ProducerFacts, CallerFacts
  <2>3. ProducerFacts' /\ StoreFacts'
    BY <1>10 DEF FinishAttempt, To, TypeOK, OneAttempt, AttemptFacts, Reached, AfterExpiration,
               AfterProducer, AfterStartup, AfterScheduler, AfterStream, AfterRoutes, AfterRelease,
               Attempting, Callers, ProducerFacts, StoreFacts, BeforeStore, CallerFacts
  <2> QED  BY <2>1, <2>2, <2>3
<1>11. CASE TimeOut(c)
  <2>1. TypeOK' /\ OneAttempt' /\ CallerFacts'
    BY <1>11 DEF TimeOut, To, Bounded, TypeOK, OneAttempt, CallerFacts, Resources, Resting,
               Attempting, Callers
  <2>2. AttemptFacts'
    BY <1>11 DEF TimeOut, To, Bounded, TypeOK, OneAttempt, AttemptFacts, Reached, AfterExpiration,
               AfterProducer, AfterStartup, AfterScheduler, AfterStream, AfterRoutes, AfterRelease,
               Attempting, Callers, ProducerFacts, CallerFacts
  <2>3. ProducerFacts' /\ StoreFacts'
    BY <1>11 DEF TimeOut, To, Bounded, TypeOK, OneAttempt, AttemptFacts, Reached, AfterExpiration,
               AfterProducer, AfterStartup, AfterScheduler, AfterStream, AfterRoutes, AfterRelease,
               Attempting, Callers, ProducerFacts, StoreFacts, BeforeStore, CallerFacts
  <2> QED  BY <2>1, <2>2, <2>3
<1> QED  BY <1>1, <1>2, <1>3, <1>4, <1>5, <1>6, <1>7, <1>8, <1>9, <1>10, <1>11

\* Every step of the process preserves the inductive invariant.
LEMMA NextShutdown == ShutdownInv /\ [Next]_vars => ShutdownInv'
<1> SUFFICES ASSUME ShutdownInv, [Next]_vars PROVE ShutdownInv'
  OBVIOUS
<1>1. CASE UNCHANGED vars
  BY <1>1 DEF vars, ShutdownInv, TypeOK, OneAttempt, AttemptFacts, ProducerFacts, StoreFacts, CallerFacts,
              Reached, BeforeStore, InStartup
<1>2. CASE Next
  BY <1>2, StartSteps, ResourceSteps, RequestSteps, OwnerSteps, AttemptSteps
     DEF Next, StartStep, CallerStep, CleanupStep, RequestStep
<1> QED  BY <1>1, <1>2

\* The invariant says what the shutdown promises: complete means that nothing
\* runs, and a stopped store has no users.
LEMMA IInvReleaseRight == ShutdownInv => ReleaseRight
<1> SUFFICES ASSUME ShutdownInv PROVE ReleaseRight
  OBVIOUS
<1> USE DEF ShutdownInv, TypeOK, AttemptFacts, ProducerFacts, StoreFacts, Reached, AfterExpiration, AfterProducer,
            AfterStartup, AfterScheduler, AfterStream, AfterRoutes, AfterRelease, BeforeStore, InStartup,
            Startup, Resources
<1>1. StoreOutlivesUsers  BY DEF StoreOutlivesUsers
<1>2. CompleteIsFinal  BY DEF CompleteIsFinal
<1> QED  BY <1>1, <1>2 DEF ReleaseRight

\* In every behaviour of Start and Shutdown, with any number of requests, any
\* failures and deadlines, the store outlives its users, attempts exclude one
\* another and a completed shutdown leaves nothing running.
THEOREM Released == Spec => []ReleaseRight
<1>1. Spec => []ShutdownInv  BY InitShutdown, NextShutdown, PTL DEF Spec
<1> QED  BY <1>1, IInvReleaseRight, PTL

-----------------------------------------------------------------------------
(***************************************************************************)
(* For any set of values and any number of edits and failures: only usable *)
(* values of the file reach the store, and as long as nothing fails the    *)
(* watcher, the store and the routers agree and every usable resource of   *)
(* the file has arrived.                                                   *)
(*                                                                         *)
(* The invariant follows the reconcile: what was read and set aside        *)
(* (ReadFacts), where the three copies of the configuration are between    *)
(* two publications (CopyFacts), and what has arrived (ArrivedFacts).      *)
(* CleanFacts adds what the quarantine counts while a file is published.   *)
(***************************************************************************)

Publishing == {"route", "stream", "done"}

Recs ==
    [pc : {"idle", "apply"} \cup Publishing, read : [Keys -> Contents], next : [Keys -> Contents],
     previous : [Keys -> Contents], preserve : SUBSET Keys, ok : BOOLEAN]

\* The shape of what the reconcile works on.
RecType ==
    /\ rec \in Recs
    /\ file \in [Keys -> Contents] /\ current \in [Keys -> Contents]
    /\ stored \in [Keys -> Contents] /\ served \in [Keys -> Contents]

\* Until the batch is applied, exactly unusable resources are set aside with
\* their last good value, and everything else is as read.
ReadFacts ==
    rec.pc = "apply" =>
        /\ rec.previous = current
        /\ \A k \in Keys : rec.read[k] = "malformed" => k \in rec.preserve
        /\ \A k \in rec.preserve : rec.read[k] \in Bad /\ rec.next[k] = current[k]
        /\ \A k \in Keys \ rec.preserve : rec.next[k] = rec.read[k]

\* Without failures, the copies differ only by the publications still to come.
CopyFacts ==
    failures = 0 =>
        /\ rec.pc \in {"idle", "apply"} => current = stored /\ served = stored
        /\ rec.pc \in Publishing => current = stored /\ stored = rec.next
        /\ rec.pc = "route" => served = rec.previous
        /\ rec.pc = "stream" => served["route"] = stored["route"] /\ served["stream"] = rec.previous["stream"]
        /\ rec.pc = "done" => served = stored

\* Without failures, usable resources are in the store once the batch is applied,
\* and what was read is what is in the file unless another event is due.
ArrivedFacts ==
    /\ rec.pc # "idle" /\ ~pending => rec.read = file
    /\ failures = 0 /\ rec.pc \in Publishing =>
          \A k \in Keys : rec.read[k] \in Bad \/ stored[k] = rec.read[k]
    /\ UsableArrives

\* Only usable values reach the store and the routers, and readiness counts what
\* the last applied batch set aside: with nothing set aside the store is the
\* file as it was read.
CleanFacts ==
    /\ StandaloneTypeOK
    /\ rec.pc \in Publishing =>
          /\ quarantine = Cardinality(rec.preserve)
          /\ \A k \in Keys \ rec.preserve : rec.next[k] = rec.read[k]
    /\ ReadyIsClean

StandaloneInv == RecType /\ ReadFacts /\ CopyFacts /\ ArrivedFacts /\ failures \in Nat

-----------------------------------------------------------------------------
\* A gateway that has started from a good file satisfies the invariant.
LEMMA InitStandalone == StandaloneInit => StandaloneInv
  BY DEF StandaloneInit, StandaloneInv, Recs, RecType, ReadFacts, CopyFacts, ArrivedFacts, UsableArrives, Idle, Contents, Keys,
         Publishing

\* A reconcile that is not under way is of the reconcile's type.
LEMMA IdleType == Idle \in Recs
  BY DEF Idle, Contents, Publishing, Recs

\* A failed reconcile is over and leaves the watcher with the snapshot it had.
LEMMA FailedIdle ==
  ASSUME NEW o, NEW previous, Failed(o, previous)
  PROVE  /\ rec'.pc = "idle" /\ current' = previous
         /\ rec' \in Recs
  BY IdleType, Zenon DEF Failed, Idle, Recs

\* Every edit of the file and every step of the watcher preserves it.
LEMMA NextStandalone == StandaloneInv /\ [StandaloneNext]_standaloneVars => StandaloneInv'
<1> SUFFICES ASSUME StandaloneInv, [StandaloneNext]_standaloneVars PROVE StandaloneInv'
  OBVIOUS
<1> USE DEF StandaloneInv, Publishing, Recs
<1>1. CASE Edit
  <2>1. RecType' /\ ReadFacts' /\ CopyFacts'
    BY <1>1 DEF Edit, RecType, ReadFacts, CopyFacts
  <2>2. ArrivedFacts'  BY <1>1 DEF Edit, ArrivedFacts, UsableArrives
  <2> QED  BY <1>1, <2>1, <2>2 DEF Edit
<1>2. CASE ReadFails
  <2>1. RecType' /\ ReadFacts' /\ rec'.pc = "idle"
    BY <1>2, FailedIdle DEF ReadFails, RecType, ReadFacts
  <2>2. CopyFacts'
    BY <1>2, <2>1 DEF ReadFails, Failed, CopyFacts
  <2>3. ArrivedFacts'
    BY <1>2, <2>1 DEF ReadFails, ArrivedFacts, UsableArrives
  <2> QED  BY <1>2, <2>1, <2>2, <2>3 DEF ReadFails
<1>3. CASE Read
  <2> DEFINE malformed == {k \in Keys : file[k] = "malformed"}
  <2>0. Retained(file, malformed) \in [Keys -> Contents]
    BY DEF Retained, RecType
  <2>1. RecType'
    BY <1>3, <2>0, IdleType, Zenon DEF Read, RecType
  <2>3. ReadFacts'
    BY <1>3 DEF Read, Retained, Idle, RecType, ReadFacts, Bad
  <2>2. CopyFacts' /\ ArrivedFacts'
    BY <1>3 DEF Read, Idle, CopyFacts, ArrivedFacts, UsableArrives
  <2> QED  BY <1>3, <2>1, <2>2, <2>3 DEF Read
<1>4. CASE Refused
  <2> DEFINE refused == {k \in Keys \ rec.preserve : rec.next[k] = "refused"}
  <2>0. Retained(rec.next, refused) \in [Keys -> Contents]
    BY DEF Retained, RecType
  <2>1. RecType'
    BY <1>4, <2>0, Zenon DEF Refused, RecType
  <2>3. ReadFacts'
    BY <1>4 DEF Refused, Retained, RecType, ReadFacts, Bad
  <2>2. CopyFacts' /\ ArrivedFacts'
    BY <1>4 DEF Refused, RecType, CopyFacts, ArrivedFacts, UsableArrives
  <2> QED  BY <1>4, <2>1, <2>2, <2>3 DEF Refused
<1>5. CASE Applied
  <2>1. RecType' /\ ReadFacts'
    BY <1>5 DEF Applied, Replaced, RecType, ReadFacts
  <2>2. failures = 0 => stored' = rec.next
    BY <1>5 DEF Applied, Replaced, RecType, ReadFacts, CopyFacts
  <2>3. CopyFacts'
    BY <1>5, <2>2 DEF Applied, RecType, ReadFacts, CopyFacts
  <2>4. ArrivedFacts'
    BY <1>5, <2>2 DEF Applied, RecType, ReadFacts, ArrivedFacts, UsableArrives
  <2> QED  BY <1>5, <2>1, <2>3, <2>4 DEF Applied
<1>6. CASE ApplyFails
  <2>0. Replaced \in [Keys -> Contents]
    BY DEF Replaced, RecType
  <2>1. RecType' /\ ReadFacts' /\ rec'.pc = "idle"
    BY <1>6, <2>0, FailedIdle DEF ApplyFails, RecType, ReadFacts
  <2>2. failures' # 0 /\ failures' \in Nat
    BY <1>6 DEF ApplyFails
  <2> QED  BY <2>1, <2>2 DEF CopyFacts, ArrivedFacts, UsableArrives
<1>7. CASE \E o \in Keys : Publish(o)
  <2> PICK o \in Keys : Publish(o)  BY <1>7
  <2>1. RecType' /\ ReadFacts'
    BY DEF Publish, After, Keys, RecType, ReadFacts
  <2>2. CopyFacts'
    BY DEF Publish, After, Changed, Keys, RecType, CopyFacts
  <2>3. ArrivedFacts'
    BY DEF Publish, After, Keys, RecType, ArrivedFacts, UsableArrives
  <2> QED  BY <2>1, <2>2, <2>3 DEF Publish
<1>8. CASE \E o \in Keys : PublishFails(o)
  <2> PICK o \in Keys : PublishFails(o)  BY <1>8
  <2>1. RecType' /\ ReadFacts' /\ rec'.pc = "idle"
    BY FailedIdle DEF PublishFails, RecType, ReadFacts
  <2>2. failures' # 0 /\ failures' \in Nat
    BY DEF PublishFails
  <2> QED  BY <2>1, <2>2 DEF CopyFacts, ArrivedFacts, UsableArrives
<1>9. CASE Done
  <2>1. RecType' /\ ReadFacts' /\ CopyFacts'
    BY <1>9 DEF Done, Idle, RecType, ReadFacts, CopyFacts, Contents
  <2>2. ArrivedFacts'
    BY <1>9 DEF Done, Idle, RecType, ArrivedFacts, UsableArrives
  <2> QED  BY <1>9, <2>1, <2>2 DEF Done
<1>10. CASE UNCHANGED standaloneVars
  BY <1>10 DEF standaloneVars, RecType, ReadFacts, CopyFacts, ArrivedFacts, UsableArrives
<1> QED
  BY <1>1, <1>2, <1>3, <1>4, <1>5, <1>6, <1>7, <1>8, <1>9, <1>10 DEF StandaloneNext, Reconcile

\* The invariant holds in every behaviour of the file watcher.
LEMMA Invariance == StandaloneSpec => []StandaloneInv
  BY InitStandalone, NextStandalone, PTL DEF StandaloneSpec

\* As long as nothing failed, the watcher's snapshot, the store and both routers
\* agree whenever no reload is under way.
THEOREM Agreement == StandaloneSpec => []AllAgree
<1>1. StandaloneInv => AllAgree  BY DEF StandaloneInv, CopyFacts, AllAgree
<1> QED  BY <1>1, Invariance, PTL

\* As long as nothing failed, every usable resource of a file whose event is
\* handled is in the store, whatever else of the file is quarantined.
THEOREM Arrival == StandaloneSpec => []UsableArrives
<1>1. StandaloneInv => UsableArrives  BY DEF StandaloneInv, ArrivedFacts
<1> QED  BY <1>1, Invariance, PTL

\* The number of resources set aside is at most two, and 0 only for none.
LEMMA Quarantined ==
  ASSUME NEW S \in SUBSET Keys
  PROVE  /\ Cardinality(S) \in 0 .. Cardinality(Keys)
         /\ Cardinality(S) = 0 => S = {}
<1>1. IsFiniteSet(Keys)
  <2>1. Keys = ({} \cup {"route"}) \cup {"stream"}  BY DEF Keys
  <2> QED  BY <2>1, FS_AddElement, FS_EmptySet
<1>2. IsFiniteSet(S) /\ Cardinality(S) <= Cardinality(Keys)
  BY <1>1, FS_Subset
<1>3. Cardinality(S) \in Nat /\ Cardinality(Keys) \in Nat
  BY <1>1, <1>2, FS_CardinalityType
<1> QED  BY <1>2, <1>3, FS_EmptySet

\* A failed reconcile leaves the provider's stage or its own unhealthy.
LEMMA FailedStage ==
  ASSUME StandaloneTypeOK, NEW o \in {"provider", "route", "stream"}, NEW previous, Failed(o, previous)
  PROVE  stage' \in [{"provider", "route", "stream"} -> BOOLEAN] /\ stage'[o] = FALSE
  BY DEF Failed, StandaloneTypeOK

\* Every step keeps the store usable and readiness honest.
LEMMA NextClean == StandaloneInv /\ CleanFacts /\ [StandaloneNext]_standaloneVars => CleanFacts'
<1> SUFFICES ASSUME StandaloneInv, CleanFacts, [StandaloneNext]_standaloneVars PROVE CleanFacts'
  OBVIOUS
<1> USE DEF StandaloneInv, Publishing
<1>1. CASE Edit
  BY <1>1 DEF Edit, CleanFacts, StandaloneTypeOK, ReadyIsClean
<1>2. CASE ReadFails
  <2>1. rec'.pc = "idle" /\ StandaloneTypeOK' /\ stage'["provider"] = FALSE /\ "provider" \in DOMAIN stage'
    BY <1>2, FailedIdle, FailedStage DEF ReadFails, CleanFacts, StandaloneTypeOK
  <2> QED  BY <2>1 DEF CleanFacts, ReadyIsClean, Ready
<1>3. CASE Read
  BY <1>3 DEF Read, Idle, CleanFacts, StandaloneTypeOK, ReadyIsClean
<1>4. CASE Refused
  BY <1>4 DEF Refused, RecType, Recs, CleanFacts, StandaloneTypeOK, ReadyIsClean
<1>5. ASSUME rec.pc = "apply", \A k \in Keys \ rec.preserve : rec.next[k] # "refused"
      PROVE  Replaced \in [Keys -> Good \cup {"absent"}]
  BY <1>5 DEF Replaced, RecType, Recs, ReadFacts, CleanFacts, StandaloneTypeOK, Contents, Bad
<1>6. CASE Applied
  <2>1. StandaloneTypeOK'
    BY <1>5, <1>6, Quarantined DEF Applied, RecType, Recs, CleanFacts, StandaloneTypeOK
  <2> QED  BY <1>6, <2>1 DEF Applied, RecType, Recs, ReadFacts, CleanFacts, ReadyIsClean
<1>7. CASE ApplyFails
  <2>1. rec'.pc = "idle" /\ failures' # 0
    BY <1>7, FailedIdle DEF ApplyFails
  <2>2. StandaloneTypeOK'
    <3>1. /\ stored' \in [Keys -> Good \cup {"absent"}]
          /\ quarantine' \in 0 .. Cardinality(Keys)
      BY <1>5, <1>7, Quarantined DEF ApplyFails, RecType, Recs, CleanFacts, StandaloneTypeOK
    <3>2. stage' \in [{"provider", "route", "stream"} -> BOOLEAN]
      BY <1>7, FailedStage DEF ApplyFails, CleanFacts
    <3> QED  BY <1>7, <3>1, <3>2 DEF ApplyFails, CleanFacts, StandaloneTypeOK
  <2> QED  BY <2>1, <2>2 DEF CleanFacts, ReadyIsClean
<1>8. CASE \E o \in Keys : Publish(o)
  <2> PICK o \in Keys : Publish(o)  BY <1>8
  <2>1. StandaloneTypeOK'
    BY DEF Publish, Keys, CleanFacts, StandaloneTypeOK
  <2> QED  BY <2>1 DEF Publish, After, Keys, RecType, Recs, CleanFacts, ReadyIsClean
<1>9. CASE \E o \in Keys : PublishFails(o)
  <2> PICK o \in Keys : PublishFails(o)  BY <1>9
  <2>1. rec'.pc = "idle" /\ failures' # 0
    BY FailedIdle DEF PublishFails
  <2>2. StandaloneTypeOK'
    BY FailedStage DEF PublishFails, Keys, CleanFacts, StandaloneTypeOK
  <2> QED  BY <2>1, <2>2 DEF CleanFacts, ReadyIsClean
<1>10. CASE Done
  <2>1. StandaloneTypeOK'
    BY <1>10 DEF Done, CleanFacts, StandaloneTypeOK
  <2>2. ASSUME failures = 0, ~pending, quarantine = 0 PROVE stored = file /\ served = file
    <3>1. rec.preserve = {}  BY <1>10, <2>2, Quarantined DEF Done, CleanFacts, RecType, Recs
    <3>2. stored = rec.next /\ served = stored /\ rec.read = file
      BY <1>10, <2>2 DEF Done, CopyFacts, ArrivedFacts
    <3> QED  BY <1>10, <3>1, <3>2 DEF Done, CleanFacts, RecType, Recs
  <2> QED  BY <1>10, <2>1, <2>2 DEF Done, Idle, CleanFacts, ReadyIsClean, Ready
<1>11. CASE UNCHANGED standaloneVars
  BY <1>11 DEF standaloneVars, CleanFacts, StandaloneTypeOK, ReadyIsClean, Ready
<1> QED
  BY <1>1, <1>2, <1>3, <1>4, <1>6, <1>7, <1>8, <1>9, <1>10, <1>11 DEF StandaloneNext, Reconcile

\* The store agrees with the file and with the routers, only usable values are
\* stored and served, and a gateway that reports ready has the file it last
\* read with nothing of it in quarantine (RecordConfigApplyQuarantine,
\* configApplyReadyLocked).
THEOREM Snapshot == StandaloneSpec => []SnapshotRight
<1>1. StandaloneInit => CleanFacts
  <2>1. 0 \in 0 .. Cardinality(Keys)  BY Quarantined, FS_EmptySet
  <2> SUFFICES ASSUME StandaloneInit PROVE CleanFacts  OBVIOUS
  <2>2. StandaloneTypeOK
    BY <2>1, Zenon DEF StandaloneInit, StandaloneTypeOK, Contents
  <2> QED  BY <2>2 DEF StandaloneInit, CleanFacts, ReadyIsClean, Idle, Publishing
<1>2. StandaloneInv /\ CleanFacts => SnapshotRight
  BY DEF StandaloneInv, CopyFacts, ArrivedFacts, CleanFacts, AllAgree, SnapshotRight
<1> QED  BY <1>1, <1>2, NextClean, Invariance, PTL DEF StandaloneSpec

\* A reload changes a resource in the store only to a usable value read from
\* the file: a malformed or refused one keeps its last good value, even after
\* failures.
THEOREM LastGood == StandaloneSpec => LastGoodKept
<1>1. StandaloneInv /\ [StandaloneNext]_standaloneVars => [StoresWhatWasRead]_standaloneVars
  <2> SUFFICES ASSUME StandaloneInv, StandaloneNext, NEW k \in Keys, stored'[k] # stored[k]
               PROVE  stored'[k] = rec.read[k] /\ rec.read[k] \notin Bad
    BY DEF StoresWhatWasRead
  <2>1. rec.pc = "apply" /\ stored' = Replaced /\ \A j \in Keys \ rec.preserve : rec.next[j] # "refused"
    BY DEF StandaloneNext, Reconcile, Edit, ReadFails, Read, Refused, Applied, ApplyFails, Publish, PublishFails, Done
  <2>2. k \notin rec.preserve  BY <2>1 DEF Replaced
  <2> QED  BY <2>1, <2>2 DEF Replaced, StandaloneInv, ReadFacts, Bad
<1> QED  BY <1>1, Invariance, PTL DEF StandaloneSpec, LastGoodKept

=============================================================================
