----------------------- MODULE RouteGenerationProofs -----------------------
(***************************************************************************)
(* For every set of goroutines and generations: the reference count of     *)
(* RouteGeneration is exact and a stopped generation is never used.        *)
(***************************************************************************)
EXTENDS RouteGeneration, FiniteSetTheorems, TLAPS

\* A thread inside the acquire loop or inside a generation knows which one.
ThreadsPlaced ==
    \A t \in Threads :
        thr[t].pc \in Owning \cup {"load", "cas", "drain"} => thr[t].gen \in Gens

\* Between the request for a lease and its outcome one idle goroutine is set
\* aside, and for one request only.
WorkersReserved ==
    \A t \in Threads :
        /\ thr[t].worker # {} <=> thr[t].pc \in {"leaseLoad", "leaseCAS"}
        /\ \A w \in thr[t].worker :
            /\ thr[t].worker = {w} /\ thr[w].pc = "reserved"
            /\ \A u \in Threads : w \in thr[u].worker => u = t

\* A publisher at work has a generation; once past its compare-and-swap the
\* generation is retired, and stays empty if it was empty then.
PublishersPlaced ==
    /\ current = NoGen => closed
    /\ \A p \in Publishers :
        /\ pub[p].pc # "idle" => pub[p].gen \in Gens
        /\ pub[p].pc \in {"closeHijacked", "closeConns"} =>
            retired[pub[p].gen] /\ (pub[p].seen = 0 => count[pub[p].gen] = 0)

\* The drained channel is closed, or about to be, only for a retired
\* generation nobody holds; only drained generations are stopped.
DrainedEmpty ==
    /\ \A g \in drained : retired[g] /\ count[g] = 0
    /\ \A t \in Threads : thr[t].pc = "drain" => retired[thr[t].gen] /\ count[thr[t].gen] = 0
    /\ stopped \subseteq drained

IInv == TypeOK /\ ThreadsPlaced /\ WorkersReserved /\ PublishersPlaced /\ CountExact /\ DrainedEmpty

USE FirstAssumption, NoGenAssumption

\* The holders of a generation are finitely many goroutines.
LEMMA HoldersFinite ==
    ASSUME NEW g PROVE IsFiniteSet(Holders(g)) /\ Cardinality(Holders(g)) \in Nat
<1>1. Holders(g) \subseteq Threads BY DEF Holders
<1> QED BY <1>1, ThreadsAssumption, FS_Subset, FS_CardinalityType

\* A step that leaves every count and every set of holders alone keeps the
\* counts exact.
LEMMA CountUntouched ==
    ASSUME CountExact, count' = count, \A g \in Gens : Holders(g)' = Holders(g)
    PROVE  CountExact'
BY DEF CountExact

\* A step that adds one holder to a generation and one to its count (a
\* successful compare-and-swap of acquireRequest) keeps the counts exact.
LEMMA CountTaken ==
    ASSUME TypeOK, CountExact, NEW g \in Gens, NEW t \in Threads, t \notin Holders(g),
           count' = [count EXCEPT ![g] = @ + 1],
           Holders(g)' = Holders(g) \cup {t},
           \A h \in Gens \ {g} : Holders(h)' = Holders(h)
    PROVE  CountExact'
<1>1. Cardinality(Holders(g) \cup {t}) = Cardinality(Holders(g)) + 1
      BY HoldersFinite, FS_AddElement, Zenon
<1> QED BY <1>1, Zenon DEF CountExact, TypeOK

\* A step that removes one holder and one from the count (releaseRequest)
\* keeps the counts exact.
LEMMA CountReturned ==
    ASSUME TypeOK, CountExact, NEW g \in Gens, NEW t \in Threads, t \in Holders(g),
           count' = [count EXCEPT ![g] = @ - 1],
           Holders(g)' = Holders(g) \ {t},
           \A h \in Gens \ {g} : Holders(h)' = Holders(h)
    PROVE  CountExact'
<1>1. Cardinality(Holders(g) \ {t}) = Cardinality(Holders(g)) - 1
      BY HoldersFinite, FS_RemoveElement, Zenon
<1> QED BY <1>1, Zenon DEF CountExact, TypeOK

\* A generation somebody holds has a positive count.
LEMMA HeldIsCounted ==
    ASSUME TypeOK, CountExact, NEW g \in Gens, NEW t \in Holders(g)
    PROVE  count[g] >= 1
<1>1. Cardinality(Holders(g)) # 0 BY HoldersFinite, FS_EmptySet
<1> QED BY <1>1, HoldersFinite DEF CountExact

-----------------------------------------------------------------------------
(* Steps of a goroutine.                                                   *)

\* A thread step that moves neither into nor out of a generation, into nor out
\* of a lease request, keeps the invariant.
LEMMA QuietThreadStep ==
    ASSUME IInv, NEW t \in Threads, NEW r \in ThreadType,
           thr' = [thr EXCEPT ![t] = r],
           UNCHANGED <<current, closed, mu, stopping, pub, retired, count, drained, stopped>>,
           hijacked' \in [Gens -> SUBSET Threads], open' \subseteq Threads, hijackMu' \subseteq Gens,
           r.pc \in Owning <=> thr[t].pc \in Owning,
           r.pc \in Owning => r.gen = thr[t].gen,
           r.pc \in {"load", "cas"} => r.gen \in Gens,
           r.pc \notin {"drain", "reserved"}, thr[t].pc # "reserved",
           r.worker = thr[t].worker,
           r.pc \in {"leaseLoad", "leaseCAS"} <=> thr[t].pc \in {"leaseLoad", "leaseCAS"}
    PROVE  IInv'
<1> USE DEF IInv
<1>1. TypeOK' BY DEF TypeOK
<1>2. ThreadsPlaced' BY DEF TypeOK, ThreadsPlaced
<1>3. WorkersReserved' BY DEF TypeOK, WorkersReserved
<1>4. PublishersPlaced' BY DEF PublishersPlaced
<1>5. CountExact'
  <2>1. \A g \in Gens : Holders(g)' = Holders(g) BY DEF TypeOK, Holders
  <2> QED BY <2>1, CountUntouched
<1>6. DrainedEmpty' BY DEF TypeOK, DrainedEmpty
<1> QED BY <1>1, <1>2, <1>3, <1>4, <1>5, <1>6

\* Reading the current pointer in ServeHTTP keeps the invariant.
LEMMA ServeLoadStep == ASSUME IInv, NEW t \in Threads, ServeLoad(t) PROVE IInv'
<1> DEFINE r == [thr[t] EXCEPT !.pc = "load", !.gen = current, !.items = MaxItems]
<1>1. thr[t] \in ThreadType BY DEF IInv, TypeOK
<1>2. r \in ThreadType BY <1>1, MaxItemsAssumption, Zenon DEF IInv, TypeOK, ThreadType
<1>3. thr' = [thr EXCEPT ![t] = r] BY Zenon DEF IInv, TypeOK, ServeLoad
<1>4. r.pc = "load" /\ r.gen = current /\ r.worker = thr[t].worker BY <1>1 DEF ThreadType
<1> HIDE DEF r
<1>8. /\ UNCHANGED <<current, closed, mu, stopping, pub, retired, count, drained, stopped>>
      /\ hijacked' \in [Gens -> SUBSET Threads] /\ open' \subseteq Threads /\ hijackMu' \subseteq Gens
      BY <1>1, <1>2, <1>3, <1>4 DEF IInv, TypeOK, ServeLoad, pubVars
<1>9. /\ r.pc \in Owning <=> thr[t].pc \in Owning
      /\ r.pc \in Owning => r.gen = thr[t].gen
      /\ r.pc \in {"load", "cas"} => r.gen \in Gens
      /\ r.pc \notin {"drain", "reserved"} /\ thr[t].pc # "reserved"
      /\ r.pc \in {"leaseLoad", "leaseCAS"} <=> thr[t].pc \in {"leaseLoad", "leaseCAS"}
      BY <1>1, <1>2, <1>3, <1>4 DEF IInv, TypeOK, ServeLoad, Owning
<1> QED BY <1>1, <1>2, <1>3, <1>4, <1>8, <1>9, QuietThreadStep, Zenon

\* Reading the word in acquireRequest keeps the invariant.
LEMMA AcquireLoadStep == ASSUME IInv, NEW t \in Threads, AcquireLoad(t) PROVE IInv'
<1> DEFINE r == IF retired[thr[t].gen] THEN Idle
                ELSE [thr[t] EXCEPT !.pc = "cas", !.seen = count[thr[t].gen]]
<1>1. thr[t] \in ThreadType /\ thr[t].gen \in Gens /\ thr[t].worker = {}
      BY DEF IInv, TypeOK, ThreadsPlaced, WorkersReserved, AcquireLoad
<1>2. r \in ThreadType BY <1>1, Zenon DEF IInv, TypeOK, ThreadType, Idle
<1>3. thr' = [thr EXCEPT ![t] = r] BY Zenon DEF IInv, TypeOK, AcquireLoad
<1>4. r.pc \in {"idle", "cas"} /\ (r.pc = "cas" => r.gen = thr[t].gen) /\ r.worker = {}
      BY <1>1 DEF ThreadType, Idle
<1> HIDE DEF r
<1>8. /\ UNCHANGED <<current, closed, mu, stopping, pub, retired, count, drained, stopped>>
      /\ hijacked' \in [Gens -> SUBSET Threads] /\ open' \subseteq Threads /\ hijackMu' \subseteq Gens
      BY <1>1, <1>2, <1>3, <1>4 DEF IInv, TypeOK, AcquireLoad, pubVars
<1>9. /\ r.pc \in Owning <=> thr[t].pc \in Owning
      /\ r.pc \in Owning => r.gen = thr[t].gen
      /\ r.pc \in {"load", "cas"} => r.gen \in Gens
      /\ r.pc \notin {"drain", "reserved"} /\ thr[t].pc # "reserved"
      /\ r.pc \in {"leaseLoad", "leaseCAS"} <=> thr[t].pc \in {"leaseLoad", "leaseCAS"}
      BY <1>1, <1>2, <1>3, <1>4 DEF IInv, TypeOK, AcquireLoad, Owning
<1> QED BY <1>1, <1>2, <1>3, <1>4, <1>8, <1>9, QuietThreadStep, Zenon

\* Taking a connection over keeps the invariant.
LEMMA HijackStep == ASSUME IInv, NEW t \in Threads, Hijack(t) PROVE IInv'
<1> DEFINE r == [thr[t] EXCEPT !.pc = "hijack"]
<1>1. thr[t] \in ThreadType BY DEF IInv, TypeOK
<1>2. r \in ThreadType BY <1>1 DEF ThreadType, Owning
<1>3. thr' = [thr EXCEPT ![t] = r] BY DEF IInv, TypeOK, Hijack, Goto
<1>4. r.pc = "hijack" /\ r.gen = thr[t].gen /\ r.worker = thr[t].worker BY <1>1 DEF ThreadType
<1> HIDE DEF r
<1>8. /\ UNCHANGED <<current, closed, mu, stopping, pub, retired, count, drained, stopped>>
      /\ hijacked' \in [Gens -> SUBSET Threads] /\ open' \subseteq Threads /\ hijackMu' \subseteq Gens
      BY <1>1, <1>2, <1>3, <1>4 DEF IInv, TypeOK, Hijack, pubVars
<1>9. /\ r.pc \in Owning <=> thr[t].pc \in Owning
      /\ r.pc \in Owning => r.gen = thr[t].gen
      /\ r.pc \in {"load", "cas"} => r.gen \in Gens
      /\ r.pc \notin {"drain", "reserved"} /\ thr[t].pc # "reserved"
      /\ r.pc \in {"leaseLoad", "leaseCAS"} <=> thr[t].pc \in {"leaseLoad", "leaseCAS"}
      BY <1>1, <1>2, <1>3, <1>4 DEF IInv, TypeOK, Hijack, Owning
<1> QED BY <1>1, <1>2, <1>3, <1>4, <1>8, <1>9, QuietThreadStep, Zenon

\* Reading the retired bit in registerHijacked keeps the invariant.
LEMMA RegisterCheckStep == ASSUME IInv, NEW t \in Threads, RegisterCheck(t) PROVE IInv'
<1> DEFINE r == [thr[t] EXCEPT !.pc = "register",
                               !.hijack = IF retired[thr[t].gen] THEN "refused" ELSE "registered"]
<1>1. thr[t] \in ThreadType /\ thr[t].gen \in Gens
      BY DEF IInv, TypeOK, ThreadsPlaced, RegisterCheck, Owning
<1>2. r \in ThreadType BY <1>1, Zenon DEF ThreadType, Owning
<1>3. thr' = [thr EXCEPT ![t] = r] BY Zenon DEF IInv, TypeOK, RegisterCheck
<1>4. r.pc = "register" /\ r.gen = thr[t].gen /\ r.worker = thr[t].worker BY <1>1 DEF ThreadType
<1> HIDE DEF r
<1>8. /\ UNCHANGED <<current, closed, mu, stopping, pub, retired, count, drained, stopped>>
      /\ hijacked' \in [Gens -> SUBSET Threads] /\ open' \subseteq Threads /\ hijackMu' \subseteq Gens
      BY <1>1, <1>2, <1>3, <1>4 DEF IInv, TypeOK, RegisterCheck, pubVars
<1>9. /\ r.pc \in Owning <=> thr[t].pc \in Owning
      /\ r.pc \in Owning => r.gen = thr[t].gen
      /\ r.pc \in {"load", "cas"} => r.gen \in Gens
      /\ r.pc \notin {"drain", "reserved"} /\ thr[t].pc # "reserved"
      /\ r.pc \in {"leaseLoad", "leaseCAS"} <=> thr[t].pc \in {"leaseLoad", "leaseCAS"}
      BY <1>1, <1>2, <1>3, <1>4 DEF IInv, TypeOK, RegisterCheck, Owning
<1> QED BY <1>1, <1>2, <1>3, <1>4, <1>8, <1>9, QuietThreadStep, Zenon

\* Recording or closing the connection in registerHijacked keeps the invariant.
LEMMA RegisterHijackedStep == ASSUME IInv, NEW t \in Threads, RegisterHijacked(t) PROVE IInv'
<1> DEFINE r == [thr[t] EXCEPT !.pc = "serving"]
<1>1. thr[t] \in ThreadType BY DEF IInv, TypeOK
<1>2. r \in ThreadType BY <1>1 DEF ThreadType, Owning
<1>3. thr' = [thr EXCEPT ![t] = r] BY DEF IInv, TypeOK, RegisterHijacked, Goto
<1>4. r.pc = "serving" /\ r.gen = thr[t].gen /\ r.worker = thr[t].worker BY <1>1 DEF ThreadType
<1>5. hijacked' \in [Gens -> SUBSET Threads] /\ open' \subseteq Threads /\ hijackMu' \subseteq Gens
      BY DEF IInv, TypeOK, RegisterHijacked
<1> HIDE DEF r
<1>8. /\ UNCHANGED <<current, closed, mu, stopping, pub, retired, count, drained, stopped>>
      /\ hijacked' \in [Gens -> SUBSET Threads] /\ open' \subseteq Threads /\ hijackMu' \subseteq Gens
      BY <1>1, <1>2, <1>3, <1>4, <1>5 DEF IInv, TypeOK, RegisterHijacked, pubVars
<1>9. /\ r.pc \in Owning <=> thr[t].pc \in Owning
      /\ r.pc \in Owning => r.gen = thr[t].gen
      /\ r.pc \in {"load", "cas"} => r.gen \in Gens
      /\ r.pc \notin {"drain", "reserved"} /\ thr[t].pc # "reserved"
      /\ r.pc \in {"leaseLoad", "leaseCAS"} <=> thr[t].pc \in {"leaseLoad", "leaseCAS"}
      BY <1>1, <1>2, <1>3, <1>4, <1>5 DEF IInv, TypeOK, RegisterHijacked, Owning
<1> QED BY <1>1, <1>2, <1>3, <1>4, <1>5, <1>8, <1>9, QuietThreadStep, Zenon

\* The return of a handler keeps the invariant.
LEMMA ReturnStep == ASSUME IInv, NEW t \in Threads, Return(t) PROVE IInv'
<1> DEFINE r == [thr[t] EXCEPT !.pc = IF thr[t].hijack = "registered" THEN "unregister" ELSE "release"]
<1>1. thr[t] \in ThreadType BY DEF IInv, TypeOK
<1>2. r \in ThreadType BY <1>1 DEF ThreadType, Owning
<1>3. thr' = [thr EXCEPT ![t] = r] BY DEF IInv, TypeOK, Return, Goto
<1>4. r.pc \in {"unregister", "release"} /\ r.gen = thr[t].gen /\ r.worker = thr[t].worker
      BY <1>1 DEF ThreadType
<1> HIDE DEF r
<1>8. /\ UNCHANGED <<current, closed, mu, stopping, pub, retired, count, drained, stopped>>
      /\ hijacked' \in [Gens -> SUBSET Threads] /\ open' \subseteq Threads /\ hijackMu' \subseteq Gens
      BY <1>1, <1>2, <1>3, <1>4 DEF IInv, TypeOK, Return, pubVars
<1>9. /\ r.pc \in Owning <=> thr[t].pc \in Owning
      /\ r.pc \in Owning => r.gen = thr[t].gen
      /\ r.pc \in {"load", "cas"} => r.gen \in Gens
      /\ r.pc \notin {"drain", "reserved"} /\ thr[t].pc # "reserved"
      /\ r.pc \in {"leaseLoad", "leaseCAS"} <=> thr[t].pc \in {"leaseLoad", "leaseCAS"}
      BY <1>1, <1>2, <1>3, <1>4 DEF IInv, TypeOK, Return, Owning
<1> QED BY <1>1, <1>2, <1>3, <1>4, <1>8, <1>9, QuietThreadStep, Zenon

\* unregisterHijacked keeps the invariant.
LEMMA UnregisterStep == ASSUME IInv, NEW t \in Threads, Unregister(t) PROVE IInv'
<1> DEFINE r == [thr[t] EXCEPT !.pc = "release"]
<1>1. thr[t] \in ThreadType BY DEF IInv, TypeOK
<1>2. r \in ThreadType BY <1>1 DEF ThreadType, Owning
<1>3. thr' = [thr EXCEPT ![t] = r] BY DEF IInv, TypeOK, Unregister, Goto
<1>4. r.pc = "release" /\ r.gen = thr[t].gen /\ r.worker = thr[t].worker BY <1>1 DEF ThreadType
<1>5. hijacked' \in [Gens -> SUBSET Threads] BY Zenon DEF IInv, TypeOK, Unregister
<1> HIDE DEF r
<1>8. /\ UNCHANGED <<current, closed, mu, stopping, pub, retired, count, drained, stopped>>
      /\ hijacked' \in [Gens -> SUBSET Threads] /\ open' \subseteq Threads /\ hijackMu' \subseteq Gens
      BY <1>1, <1>2, <1>3, <1>4, <1>5 DEF IInv, TypeOK, Unregister, pubVars
<1>9. /\ r.pc \in Owning <=> thr[t].pc \in Owning
      /\ r.pc \in Owning => r.gen = thr[t].gen
      /\ r.pc \in {"load", "cas"} => r.gen \in Gens
      /\ r.pc \notin {"drain", "reserved"} /\ thr[t].pc # "reserved"
      /\ r.pc \in {"leaseLoad", "leaseCAS"} <=> thr[t].pc \in {"leaseLoad", "leaseCAS"}
      BY <1>1, <1>2, <1>3, <1>4, <1>5 DEF IInv, TypeOK, Unregister, Owning
<1> QED BY <1>1, <1>2, <1>3, <1>4, <1>5, <1>8, <1>9, QuietThreadStep, Zenon

\* The compare-and-swap of acquireRequest keeps the invariant.
LEMMA AcquireCASStep == ASSUME IInv, NEW t \in Threads, AcquireCAS(t) PROVE IInv'
<1>0. PICK g \in Gens : g = thr[t].gen BY DEF IInv, ThreadsPlaced, AcquireCAS, Owning
<1>1. /\ thr[t] \in ThreadType /\ g \in Gens /\ thr[t].worker = {}
      /\ thr[t].pc = "cas" /\ thr[t].pc \notin Owning
      BY <1>0 DEF IInv, TypeOK, ThreadsPlaced, WorkersReserved, AcquireCAS, Owning
<1>2. CASE WordUnchanged(g, thr[t].seen)
  <2> DEFINE r == [thr[t] EXCEPT !.pc = "serving", !.seen = 0]
  <2>1. r \in ThreadType BY <1>0, <1>1, Zenon DEF ThreadType, Owning
  <2>2. /\ thr' = [thr EXCEPT ![t] = r] /\ count' = [count EXCEPT ![g] = @ + 1] /\ ~retired[g]
        /\ UNCHANGED <<current, closed, mu, stopping, pub, retired, drained, stopped, hijacked, open, hijackMu>>
        BY <1>0, <1>2, Zenon DEF IInv, TypeOK, AcquireCAS, WordUnchanged, pubVars
  <2>3. r.pc = "serving" /\ r.pc \in Owning /\ r.gen = g /\ r.worker = {} BY <1>0, <1>1 DEF ThreadType, Owning
  <2> HIDE DEF r
  <2>4. TypeOK' BY <1>0, <1>1, <2>1, <2>2 DEF IInv, TypeOK
  <2>5. ThreadsPlaced' BY <1>0, <1>1, <2>2, <2>3 DEF IInv, TypeOK, ThreadsPlaced
  <2>6. WorkersReserved' BY <1>0, <1>1, <2>2, <2>3 DEF IInv, TypeOK, WorkersReserved
  <2>7. PublishersPlaced' BY <1>0, <1>1, <2>2 DEF IInv, TypeOK, PublishersPlaced
  <2>8. CountExact'
    <3>1. t \notin Holders(g) /\ Holders(g)' = Holders(g) \cup {t}
          BY <1>0, <1>1, <2>2, <2>3 DEF IInv, TypeOK, Holders
    <3>2. \A h \in Gens \ {g} : Holders(h)' = Holders(h)
          BY <1>0, <1>1, <2>2, <2>3 DEF IInv, TypeOK, Holders
    <3> QED BY <1>0, <1>1, <2>2, <3>1, <3>2, CountTaken, Zenon DEF IInv
  <2>9. DrainedEmpty' BY <1>0, <1>1, <2>2, <2>3 DEF IInv, TypeOK, DrainedEmpty
  <2> QED BY <2>4, <2>5, <2>6, <2>7, <2>8, <2>9 DEF IInv
<1>3. CASE ~WordUnchanged(g, thr[t].seen)
  <2> DEFINE r == [thr[t] EXCEPT !.pc = "load", !.seen = 0]
  <2>1. r \in ThreadType BY <1>0, <1>1, Zenon DEF ThreadType
  <2>2. thr' = [thr EXCEPT ![t] = r] BY <1>0, <1>3, Zenon DEF IInv, TypeOK, AcquireCAS
  <2>3. r.pc = "load" /\ r.gen = g /\ r.worker = {} BY <1>0, <1>1 DEF ThreadType
  <2> HIDE DEF r
  <2>8. /\ UNCHANGED <<current, closed, mu, stopping, pub, retired, count, drained, stopped>>
        /\ hijacked' \in [Gens -> SUBSET Threads] /\ open' \subseteq Threads /\ hijackMu' \subseteq Gens
        BY <1>0, <1>1, <1>3, <2>1, <2>2, <2>3 DEF IInv, TypeOK, AcquireCAS, pubVars
  <2>9. /\ r.pc \in Owning <=> thr[t].pc \in Owning
        /\ r.pc \in Owning => r.gen = thr[t].gen
        /\ r.pc \in {"load", "cas"} => r.gen \in Gens
        /\ r.pc \notin {"drain", "reserved"} /\ thr[t].pc # "reserved"
        /\ r.pc \in {"leaseLoad", "leaseCAS"} <=> thr[t].pc \in {"leaseLoad", "leaseCAS"}
        BY <1>0, <1>1, <1>3, <2>1, <2>2, <2>3 DEF IInv, TypeOK, AcquireCAS, Owning
  <2> QED BY <1>0, <1>1, <1>3, <2>1, <2>2, <2>3, <2>8, <2>9, QuietThreadStep, Zenon
<1> QED BY <1>2, <1>3

\* Asking for a dispatch lease keeps the invariant.
LEMMA LeaseBeginStep ==
    ASSUME IInv, NEW t \in Threads, NEW w \in Threads, LeaseBegin(t, w) PROVE IInv'
<1> DEFINE r == [thr[t] EXCEPT !.pc = "leaseLoad", !.items = @ - 1, !.worker = {w}]
           q == [thr[w] EXCEPT !.pc = "reserved"]
<1>1. /\ thr[t] \in ThreadType /\ thr[w] \in ThreadType /\ t # w
      /\ thr[t].gen \in Gens /\ thr[t].items > 0 /\ thr[w].worker = {} /\ thr[t].worker = {}
      /\ thr[t].pc = "serving" /\ thr[w].pc = "idle"
      BY DEF IInv, TypeOK, ThreadsPlaced, WorkersReserved, LeaseBegin, Owning
<1>2. r \in ThreadType /\ q \in ThreadType
  <2>1. thr[t].items - 1 \in Nat BY <1>1 DEF ThreadType
  <2> QED BY <1>1, <2>1, Zenon DEF ThreadType, Owning
<1>3. /\ thr' = [thr EXCEPT ![t] = r, ![w] = q]
      /\ UNCHANGED <<current, closed, mu, stopping, pub, retired, count, drained, stopped, hijacked, open, hijackMu>>
      BY <1>1, Zenon DEF IInv, TypeOK, LeaseBegin, pubVars
<1>4. /\ r.pc = "leaseLoad" /\ r.gen = thr[t].gen /\ r.worker = {w}
      /\ q.pc = "reserved" /\ q.worker = {}
      BY <1>1 DEF ThreadType
<1> HIDE DEF r, q
<1>5. TypeOK' BY <1>1, <1>2, <1>3 DEF IInv, TypeOK
<1>6. ThreadsPlaced' BY <1>1, <1>3, <1>4 DEF IInv, TypeOK, ThreadsPlaced, Owning
<1>7. WorkersReserved'
  <2>1. \A u \in Threads : w \notin thr[u].worker BY <1>1 DEF IInv, WorkersReserved
  <2>2. \A u \in Threads : thr'[u].worker = IF u = t THEN {w} ELSE thr[u].worker
        BY <1>1, <1>3, <1>4, Zenon DEF IInv, TypeOK
  <2>3. \A u \in Threads : u \notin {t, w} => thr'[u].pc = thr[u].pc
        BY <1>1, <1>3, <1>4 DEF IInv, TypeOK
  <2>4. thr'[t].pc = "leaseLoad" /\ thr'[w].pc = "reserved" BY <1>1, <1>3, <1>4 DEF IInv, TypeOK
  <2>5. \A u \in Threads : thr'[u].worker # {} <=> thr'[u].pc \in {"leaseLoad", "leaseCAS"}
        BY <1>1, <2>2, <2>3, <2>4 DEF IInv, WorkersReserved
  <2>6. ASSUME NEW u \in Threads, NEW v \in thr'[u].worker
        PROVE  /\ thr'[u].worker = {v} /\ thr'[v].pc = "reserved"
               /\ \A x \in Threads : v \in thr'[x].worker => x = u
    <3>1. CASE u = t BY <1>1, <2>1, <2>2, <2>4, <2>6, <3>1
    <3>2. CASE u # t
      <4>1. v \in thr[u].worker BY <2>2, <2>6, <3>2
      <4>2. v # w BY <2>1, <4>1
      <4>3. /\ thr[u].worker = {v} /\ thr[v].pc = "reserved"
            /\ \A x \in Threads : v \in thr[x].worker => x = u
            BY <4>1 DEF IInv, WorkersReserved
      <4>4. v \in Threads /\ v # t BY <1>1, <4>1, <4>3 DEF IInv, TypeOK, ThreadType
      <4> QED BY <2>2, <2>3, <3>2, <4>2, <4>3, <4>4
    <3> QED BY <3>1, <3>2
  <2> QED BY <2>5, <2>6 DEF WorkersReserved
<1>8. PublishersPlaced' BY <1>3 DEF IInv, PublishersPlaced
<1>9. CountExact'
  <2>1. \A g \in Gens : Holders(g)' = Holders(g) BY <1>1, <1>3, <1>4 DEF IInv, TypeOK, Holders, Owning
  <2> QED BY <1>3, <2>1, CountUntouched DEF IInv
<1>10. DrainedEmpty' BY <1>1, <1>3, <1>4 DEF IInv, TypeOK, DrainedEmpty
<1> QED BY <1>5, <1>6, <1>7, <1>8, <1>9, <1>10 DEF IInv

\* Reading the word in acquireDispatchLease keeps the invariant.
LEMMA LeaseLoadStep == ASSUME IInv, NEW t \in Threads, LeaseLoad(t) PROVE IInv'
<1>1. /\ thr[t] \in ThreadType /\ thr[t].gen \in Gens /\ thr[t].pc = "leaseLoad"
      /\ t \notin thr[t].worker /\ thr[t].worker # {}
      BY DEF IInv, TypeOK, ThreadsPlaced, WorkersReserved, LeaseLoad, Owning
<1>2. CASE retired[thr[t].gen]
  <2> DEFINE r == [thr[t] EXCEPT !.pc = "serving", !.worker = {}]
  <2>1. PICK w \in Threads : thr[t].worker = {w} /\ thr[w].pc = "reserved" /\ w # t
        BY <1>1 DEF IInv, TypeOK, ThreadType, WorkersReserved
  <2>2. thr[w] \in ThreadType /\ thr[w].worker = {} BY <2>1 DEF IInv, TypeOK, WorkersReserved
  <2>3. r \in ThreadType /\ Idle \in ThreadType BY <1>1, Zenon DEF ThreadType, Owning, Idle
  <2>4. /\ thr' = [thr EXCEPT ![t] = r, ![w] = Idle]
        /\ UNCHANGED <<current, closed, mu, stopping, pub, retired, count, drained, stopped, hijacked, open, hijackMu>>
        BY <1>2, <2>1 DEF IInv, TypeOK, LeaseLoad, pubVars
  <2>5. r.pc = "serving" /\ r.gen = thr[t].gen /\ r.worker = {} /\ Idle.pc = "idle" /\ Idle.worker = {}
        BY <1>1 DEF ThreadType, Idle
  <2> HIDE DEF r
  <2>6. TypeOK' BY <2>1, <2>3, <2>4 DEF IInv, TypeOK
  <2>7. ThreadsPlaced' BY <1>1, <2>1, <2>4, <2>5 DEF IInv, TypeOK, ThreadsPlaced, Owning
  <2>8. WorkersReserved'
    <3>1. \A u \in Threads : thr'[u].worker = IF u = t THEN {} ELSE thr[u].worker
          BY <2>1, <2>2, <2>4, <2>5, Zenon DEF IInv, TypeOK
    <3>2. \A u \in Threads : u \notin {t, w} => thr'[u].pc = thr[u].pc
          BY <2>1, <2>4 DEF IInv, TypeOK
    <3>3. thr'[t].pc = "serving" /\ thr'[w].pc \in {"idle", "serving"} BY <2>1, <2>4, <2>5 DEF IInv, TypeOK
    <3>4. \A u \in Threads : w \in thr[u].worker => u = t BY <2>1 DEF IInv, WorkersReserved
    <3> QED BY <1>1, <2>1, <2>2, <3>1, <3>2, <3>3, <3>4, SMTT(20) DEF IInv, TypeOK, ThreadType, WorkersReserved
  <2>9. PublishersPlaced' BY <2>4 DEF IInv, PublishersPlaced
  <2>10. CountExact'
    <3>1. \A g \in Gens : Holders(g)' = Holders(g)
          BY <1>1, <2>1, <2>4, <2>5 DEF IInv, TypeOK, Holders, Owning
    <3> QED BY <2>4, <3>1, CountUntouched DEF IInv
  <2>11. DrainedEmpty' BY <1>1, <2>1, <2>4, <2>5 DEF IInv, TypeOK, DrainedEmpty
  <2> QED BY <2>6, <2>7, <2>8, <2>9, <2>10, <2>11 DEF IInv
<1>3. CASE ~retired[thr[t].gen]
  <2> DEFINE r == [thr[t] EXCEPT !.pc = "leaseCAS", !.seen = count[thr[t].gen]]
  <2>1. r \in ThreadType BY <1>1, Zenon DEF IInv, TypeOK, ThreadType, Owning
  <2>2. thr' = [thr EXCEPT ![t] = r] BY <1>3, Zenon DEF IInv, TypeOK, LeaseLoad
  <2>3. r.pc = "leaseCAS" /\ r.gen = thr[t].gen /\ r.worker = thr[t].worker BY <1>1 DEF ThreadType
  <2> HIDE DEF r
  <2>8. /\ UNCHANGED <<current, closed, mu, stopping, pub, retired, count, drained, stopped>>
        /\ hijacked' \in [Gens -> SUBSET Threads] /\ open' \subseteq Threads /\ hijackMu' \subseteq Gens
        BY <1>1, <2>1, <2>2, <2>3 DEF IInv, TypeOK, LeaseLoad, pubVars
  <2>9. /\ r.pc \in Owning <=> thr[t].pc \in Owning
        /\ r.pc \in Owning => r.gen = thr[t].gen
        /\ r.pc \in {"load", "cas"} => r.gen \in Gens
        /\ r.pc \notin {"drain", "reserved"} /\ thr[t].pc # "reserved"
        /\ r.pc \in {"leaseLoad", "leaseCAS"} <=> thr[t].pc \in {"leaseLoad", "leaseCAS"}
        BY <1>1, <2>1, <2>2, <2>3 DEF IInv, TypeOK, LeaseLoad, Owning
  <2> QED BY <1>1, <2>1, <2>2, <2>3, <2>8, <2>9, QuietThreadStep, Zenon
<1> QED BY <1>2, <1>3

\* The compare-and-swap of acquireDispatchLease keeps the invariant.
LEMMA LeaseCASStep == ASSUME IInv, NEW t \in Threads, LeaseCAS(t) PROVE IInv'
<1>0. PICK g \in Gens : g = thr[t].gen BY DEF IInv, ThreadsPlaced, LeaseCAS, Owning
<1>1. /\ thr[t] \in ThreadType /\ g \in Gens /\ thr[t].pc = "leaseCAS"
      /\ t \notin thr[t].worker /\ thr[t].worker # {}
      BY <1>0 DEF IInv, TypeOK, ThreadsPlaced, WorkersReserved, LeaseCAS, Owning
<1>2. CASE WordUnchanged(g, thr[t].seen)
  <2> DEFINE r == [thr[t] EXCEPT !.pc = "serving", !.worker = {}, !.seen = 0]
             q == [Idle EXCEPT !.pc = "serving", !.gen = g, !.lease = TRUE]
  <2>1. PICK w \in Threads : thr[t].worker = {w} /\ thr[w].pc = "reserved" /\ w # t
        BY <1>0, <1>1 DEF IInv, TypeOK, ThreadType, WorkersReserved
  <2>2. thr[w] \in ThreadType /\ thr[w].worker = {} BY <2>1 DEF IInv, TypeOK, WorkersReserved
  <2>3. r \in ThreadType /\ q \in ThreadType BY <1>0, <1>1, Zenon DEF ThreadType, Owning, Idle
  <2>4. /\ thr' = [thr EXCEPT ![t] = r, ![w] = q]
        /\ count' = [count EXCEPT ![g] = @ + 1] /\ ~retired[g]
        /\ UNCHANGED <<current, closed, mu, stopping, pub, retired, drained, stopped, hijacked, open, hijackMu>>
        BY <1>0, <1>2, <2>1 DEF IInv, TypeOK, LeaseCAS, WordUnchanged, pubVars
  <2>5. /\ r.pc = "serving" /\ r.gen = thr[t].gen /\ r.worker = {}
        /\ q.pc = "serving" /\ q.gen = g /\ q.worker = {}
        BY <1>0, <1>1 DEF ThreadType, Idle
  <2> HIDE DEF r, q
  <2>6. TypeOK' BY <1>0, <1>1, <2>1, <2>3, <2>4 DEF IInv, TypeOK
  <2>7. ThreadsPlaced' BY <1>0, <1>1, <2>1, <2>4, <2>5 DEF IInv, TypeOK, ThreadsPlaced, Owning
  <2>8. WorkersReserved'
    <3>1. \A u \in Threads : thr'[u].worker = IF u = t THEN {} ELSE thr[u].worker
          BY <2>1, <2>2, <2>4, <2>5, Zenon DEF IInv, TypeOK
    <3>2. \A u \in Threads : u \notin {t, w} => thr'[u].pc = thr[u].pc
          BY <2>1, <2>4 DEF IInv, TypeOK
    <3>3. thr'[t].pc = "serving" /\ thr'[w].pc \in {"idle", "serving"} BY <2>1, <2>4, <2>5 DEF IInv, TypeOK
    <3>4. \A u \in Threads : w \in thr[u].worker => u = t BY <2>1 DEF IInv, WorkersReserved
    <3> QED BY SMTT(20), <1>1, <2>1, <2>2, <3>1, <3>2, <3>3, <3>4 DEF IInv, TypeOK, ThreadType, WorkersReserved
  <2>9. PublishersPlaced' BY <1>0, <1>1, <2>4 DEF IInv, TypeOK, PublishersPlaced
  <2>10. CountExact'
    <3>1. w \notin Holders(g) /\ Holders(g)' = Holders(g) \cup {w}
          BY <1>0, <1>1, <2>1, <2>4, <2>5 DEF IInv, TypeOK, Holders, Owning
    <3>2. \A h \in Gens \ {g} : Holders(h)' = Holders(h)
          BY <1>0, <1>1, <2>1, <2>4, <2>5 DEF IInv, TypeOK, Holders, Owning
    <3> QED BY <1>0, <1>1, <2>4, <3>1, <3>2, CountTaken, Zenon DEF IInv
  <2>11. DrainedEmpty' BY <1>0, <1>1, <2>1, <2>4, <2>5 DEF IInv, TypeOK, DrainedEmpty
  <2> QED BY <2>6, <2>7, <2>8, <2>9, <2>10, <2>11 DEF IInv
<1>3. CASE ~WordUnchanged(g, thr[t].seen)
  <2> DEFINE r == [thr[t] EXCEPT !.pc = "leaseLoad", !.seen = 0]
  <2>1. r \in ThreadType BY <1>0, <1>1, Zenon DEF ThreadType, Owning
  <2>2. thr' = [thr EXCEPT ![t] = r] BY <1>0, <1>3, Zenon DEF IInv, TypeOK, LeaseCAS
  <2>3. r.pc = "leaseLoad" /\ r.gen = thr[t].gen /\ r.worker = thr[t].worker BY <1>0, <1>1 DEF ThreadType
  <2> HIDE DEF r
  <2>8. /\ UNCHANGED <<current, closed, mu, stopping, pub, retired, count, drained, stopped>>
        /\ hijacked' \in [Gens -> SUBSET Threads] /\ open' \subseteq Threads /\ hijackMu' \subseteq Gens
        BY <1>0, <1>1, <1>3, <2>1, <2>2, <2>3 DEF IInv, TypeOK, LeaseCAS, pubVars
  <2>9. /\ r.pc \in Owning <=> thr[t].pc \in Owning
        /\ r.pc \in Owning => r.gen = thr[t].gen
        /\ r.pc \in {"load", "cas"} => r.gen \in Gens
        /\ r.pc \notin {"drain", "reserved"} /\ thr[t].pc # "reserved"
        /\ r.pc \in {"leaseLoad", "leaseCAS"} <=> thr[t].pc \in {"leaseLoad", "leaseCAS"}
        BY <1>0, <1>1, <1>3, <2>1, <2>2, <2>3 DEF IInv, TypeOK, LeaseCAS, Owning
  <2> QED BY <1>0, <1>1, <1>3, <2>1, <2>2, <2>3, <2>8, <2>9, QuietThreadStep, Zenon
<1> QED BY <1>2, <1>3

\* The decrement of releaseRequest keeps the invariant.
LEMMA ReleaseStep == ASSUME IInv, NEW t \in Threads, Release(t) PROVE IInv'
<1>0. PICK g \in Gens : g = thr[t].gen BY DEF IInv, ThreadsPlaced, Release, Owning
<1> DEFINE r == IF retired[g] /\ count[g] = 1 THEN [thr[t] EXCEPT !.pc = "drain"] ELSE Idle
<1>1. thr[t] \in ThreadType /\ g \in Gens /\ thr[t].worker = {} /\ thr[t].pc = "release"
      BY <1>0 DEF IInv, TypeOK, ThreadsPlaced, WorkersReserved, Release, Owning
<1>2. t \in Holders(g) BY <1>0, <1>1 DEF Holders, Owning
<1>3. count[g] >= 1 BY <1>0, <1>1, <1>2, HeldIsCounted DEF IInv
<1>4. r \in ThreadType BY <1>0, <1>1 DEF ThreadType, Idle
<1>5. /\ thr' = [thr EXCEPT ![t] = r] /\ count' = [count EXCEPT ![g] = @ - 1]
      /\ UNCHANGED <<current, closed, mu, stopping, pub, retired, drained, stopped, hijacked, open, hijackMu>>
      BY <1>0 DEF IInv, TypeOK, Release, Goto, pubVars
<1>6. /\ r.worker = {} /\ r.pc \in {"drain", "idle"}
      /\ r.pc = "drain" => r.gen = g /\ retired[g] /\ count[g] = 1
      BY <1>0, <1>1 DEF ThreadType, Idle
<1> HIDE DEF r
<1>7. TypeOK' BY <1>0, <1>1, <1>3, <1>4, <1>5 DEF IInv, TypeOK
<1>8. ThreadsPlaced' BY <1>0, <1>1, <1>5, <1>6 DEF IInv, TypeOK, ThreadsPlaced, Owning
<1>9. WorkersReserved' BY <1>0, <1>1, <1>5, <1>6 DEF IInv, TypeOK, WorkersReserved
<1>10. PublishersPlaced' BY <1>0, <1>1, <1>3, <1>5 DEF IInv, TypeOK, PublishersPlaced
<1>11. CountExact'
  <2>1. Holders(g)' = Holders(g) \ {t} BY <1>0, <1>1, <1>5, <1>6 DEF IInv, TypeOK, Holders, Owning
  <2>2. \A h \in Gens \ {g} : Holders(h)' = Holders(h) BY <1>0, <1>1, <1>5, <1>6 DEF IInv, TypeOK, Holders, Owning
  <2> QED BY <1>0, <1>1, <1>2, <1>5, <2>1, <2>2, CountReturned, Zenon DEF IInv
<1>12. DrainedEmpty' BY <1>0, <1>1, <1>3, <1>5, <1>6 DEF IInv, TypeOK, DrainedEmpty
<1> QED BY <1>7, <1>8, <1>9, <1>10, <1>11, <1>12 DEF IInv

\* closeDrained after the last release keeps the invariant.
LEMMA CloseDrainedStep == ASSUME IInv, NEW t \in Threads, CloseDrained(t) PROVE IInv'
<1>1. thr[t] \in ThreadType /\ thr[t].gen \in Gens /\ thr[t].worker = {} /\ thr[t].pc = "drain"
      BY DEF IInv, TypeOK, ThreadsPlaced, WorkersReserved, CloseDrained
<1>2. Idle \in ThreadType /\ Idle.pc = "idle" /\ Idle.worker = {} BY DEF ThreadType, Idle
<1>3. /\ thr' = [thr EXCEPT ![t] = Idle] /\ drained' = drained \cup {thr[t].gen}
      /\ UNCHANGED <<current, closed, mu, stopping, pub, retired, count, stopped, hijacked, open, hijackMu>>
      BY DEF CloseDrained, pubVars
<1>4. TypeOK' BY <1>1, <1>2, <1>3 DEF IInv, TypeOK
<1>5. ThreadsPlaced' BY <1>2, <1>3 DEF IInv, TypeOK, ThreadsPlaced, Owning
<1>6. WorkersReserved' BY <1>1, <1>2, <1>3 DEF IInv, TypeOK, WorkersReserved
<1>7. PublishersPlaced' BY <1>3 DEF IInv, PublishersPlaced
<1>8. CountExact'
  <2>1. \A g \in Gens : Holders(g)' = Holders(g) BY <1>1, <1>2, <1>3 DEF IInv, TypeOK, Holders, Owning
  <2> QED BY <1>3, <2>1, CountUntouched DEF IInv
<1>9. DrainedEmpty' BY <1>1, <1>2, <1>3 DEF IInv, TypeOK, DrainedEmpty
<1> QED BY <1>4, <1>5, <1>6, <1>7, <1>8, <1>9 DEF IInv

-----------------------------------------------------------------------------
(* Steps of a publisher.                                                   *)

\* A publisher step that retires, drains and stops nothing keeps the
\* invariant.
LEMMA QuietPublisherStep ==
    ASSUME IInv, NEW p \in Publishers, NEW r \in PubType,
           pub' = [pub EXCEPT ![p] = r],
           UNCHANGED <<retired, count, drained, stopped, thr, hijackMu>>,
           current' \in Gens \cup {NoGen}, closed' \in BOOLEAN, mu' \in Publishers \cup {"free"},
           stopping' \subseteq Gens,
           hijacked' \in [Gens -> SUBSET Threads], open' \subseteq Threads,
           current' = NoGen => closed',
           r.pc # "idle" => r.gen \in Gens,
           r.pc \in {"closeHijacked", "closeConns"} =>
               /\ pub[p].pc \in {"closeHijacked", "closeConns"}
               /\ r.gen = pub[p].gen /\ r.seen = pub[p].seen
    PROVE  IInv'
<1>1. TypeOK' BY DEF IInv, TypeOK
<1>2. ThreadsPlaced' BY DEF IInv, ThreadsPlaced
<1>3. WorkersReserved' BY DEF IInv, WorkersReserved
<1>4. PublishersPlaced' BY DEF IInv, TypeOK, PublishersPlaced
<1>5. CountExact'
  <2>1. \A g \in Gens : Holders(g)' = Holders(g) BY DEF Holders
  <2> QED BY <2>1, CountUntouched DEF IInv
<1>6. DrainedEmpty' BY DEF IInv, DrainedEmpty
<1> QED BY <1>1, <1>2, <1>3, <1>4, <1>5, <1>6 DEF IInv

\* The pointer swap of Replace keeps the invariant.
LEMMA ReplaceSwapStep == ASSUME IInv, ReplaceSwap PROVE IInv'
<1>1. PICK next \in Gens :
        IF closed
        THEN /\ pub' = [pub EXCEPT !["reload"] = [PubIdle EXCEPT !.pc = "load", !.gen = next, !.sync = TRUE]]
             /\ UNCHANGED current
        ELSE /\ pub' = [pub EXCEPT !["reload"] = [PubIdle EXCEPT !.pc = "load", !.gen = current]]
             /\ current' = next
      BY Zenon DEF ReplaceSwap, Unused
<1> DEFINE r == IF closed THEN [PubIdle EXCEPT !.pc = "load", !.gen = next, !.sync = TRUE]
                ELSE [PubIdle EXCEPT !.pc = "load", !.gen = current]
<1>2. r \in PubType /\ r.pc = "load" /\ r.gen \in Gens
      BY Zenon DEF IInv, TypeOK, PubType, PubIdle, PublishersPlaced
<1>3. "reload" \in Publishers /\ pub' = [pub EXCEPT !["reload"] = r] BY <1>1 DEF Publishers
<1>4. /\ current' \in Gens \cup {NoGen} /\ closed' = closed /\ mu' \in Publishers
      /\ current' = NoGen => closed'
      BY <1>1 DEF IInv, TypeOK, ReplaceSwap, PublishersPlaced, Publishers
<1> HIDE DEF r
<1> QED BY <1>2, <1>3, <1>4, QuietPublisherStep, Zenon DEF IInv, TypeOK, ReplaceSwap

\* The pointer swap of Close keeps the invariant.
LEMMA CloseSwapStep == ASSUME IInv, CloseSwap PROVE IInv'
<1> DEFINE r == [PubIdle EXCEPT !.pc = "load", !.gen = current, !.sync = TRUE]
<1>1. r \in PubType /\ r.pc = "load" /\ r.gen \in Gens
      BY Zenon DEF IInv, TypeOK, PubType, PubIdle, PublishersPlaced, CloseSwap
<1>2. "close" \in Publishers /\ pub' = [pub EXCEPT !["close"] = r] BY DEF Publishers, CloseSwap
<1>3. current' = NoGen /\ closed' = TRUE /\ mu' \in Publishers BY DEF CloseSwap, Publishers
<1> HIDE DEF r
<1> QED BY <1>1, <1>2, <1>3, QuietPublisherStep, Zenon DEF IInv, TypeOK, CloseSwap

\* Reading the word in retireRouteSet keeps the invariant.
LEMMA RetireLoadStep == ASSUME IInv, NEW p \in Publishers, RetireLoad(p) PROVE IInv'
<1> DEFINE r == IF retired[pub[p].gen] THEN [pub[p] EXCEPT !.pc = "unlock"]
                ELSE [pub[p] EXCEPT !.pc = "cas", !.seen = count[pub[p].gen]]
<1>1. pub[p] \in PubType /\ pub[p].gen \in Gens BY DEF IInv, TypeOK, PublishersPlaced, RetireLoad
<1>2. r \in PubType /\ r.pc \in {"unlock", "cas"} /\ r.gen = pub[p].gen
      BY <1>1, Zenon DEF IInv, TypeOK, PubType
<1>3. pub' = [pub EXCEPT ![p] = r] BY Zenon DEF IInv, TypeOK, RetireLoad
<1> HIDE DEF r
<1>8. /\ UNCHANGED <<retired, count, drained, stopped, thr, hijackMu>>
      /\ current' \in Gens \cup {NoGen} /\ closed' \in BOOLEAN /\ mu' \in Publishers \cup {"free"}
      /\ stopping' \subseteq Gens
      /\ hijacked' \in [Gens -> SUBSET Threads] /\ open' \subseteq Threads
      /\ current' = NoGen => closed'
      BY <1>1, <1>2, <1>3 DEF IInv, TypeOK, RetireLoad, PublishersPlaced
<1>9. pub[p].pc = "load" BY DEF RetireLoad
<1> QED BY <1>1, <1>2, <1>3, <1>8, <1>9, QuietPublisherStep, Zenon

\* Setting the retired bit keeps the invariant.
LEMMA RetireCASStep == ASSUME IInv, NEW p \in Publishers, RetireCAS(p) PROVE IInv'
<1>0. PICK g \in Gens : g = pub[p].gen BY DEF IInv, PublishersPlaced, RetireCAS
<1>1. pub[p] \in PubType BY DEF IInv, TypeOK
<1>2. CASE WordUnchanged(g, pub[p].seen)
  <2> DEFINE r == [pub[p] EXCEPT !.pc = "closeHijacked"]
  <2>1. r \in PubType /\ r.gen = g /\ r.seen = pub[p].seen /\ r.pc = "closeHijacked"
        BY <1>0, <1>1 DEF PubType
  <2>2. /\ pub' = [pub EXCEPT ![p] = r] /\ retired' = [retired EXCEPT ![g] = TRUE]
        /\ count[g] = pub[p].seen
        /\ UNCHANGED <<current, closed, mu, stopping, count, drained, stopped, hijacked, open, hijackMu, thr>>
        BY <1>0, <1>2 DEF IInv, TypeOK, RetireCAS, WordUnchanged
  <2> HIDE DEF r
  <2>3. TypeOK' BY <2>1, <2>2 DEF IInv, TypeOK
  <2>4. ThreadsPlaced' /\ WorkersReserved' BY <2>2 DEF IInv, ThreadsPlaced, WorkersReserved
  <2>5. PublishersPlaced' BY <2>1, <2>2 DEF IInv, TypeOK, PublishersPlaced
  <2>6. CountExact'
    <3>1. \A h \in Gens : Holders(h)' = Holders(h) BY <2>2 DEF Holders
    <3> QED BY <2>2, <3>1, CountUntouched, SMTT(20) DEF IInv
  <2>7. DrainedEmpty' BY <2>2 DEF IInv, TypeOK, ThreadsPlaced, DrainedEmpty
  <2> QED BY <2>3, <2>4, <2>5, <2>6, <2>7 DEF IInv
<1>3. CASE ~WordUnchanged(g, pub[p].seen)
  <2> DEFINE r == [pub[p] EXCEPT !.pc = "load"]
  <2>1. r \in PubType /\ r.gen = g /\ r.pc = "load" BY <1>0, <1>1 DEF PubType
  <2>2. pub' = [pub EXCEPT ![p] = r] BY <1>0, <1>3 DEF IInv, TypeOK, RetireCAS
  <2> HIDE DEF r
  <2>8. /\ UNCHANGED <<retired, count, drained, stopped, thr, hijackMu>>
        /\ current' \in Gens \cup {NoGen} /\ closed' \in BOOLEAN /\ mu' \in Publishers \cup {"free"}
        /\ stopping' \subseteq Gens
        /\ hijacked' \in [Gens -> SUBSET Threads] /\ open' \subseteq Threads
        /\ current' = NoGen => closed'
        BY <1>0, <1>3, <2>1, <2>2 DEF IInv, TypeOK, RetireCAS, PublishersPlaced
  <2>9. pub[p].pc = "cas" BY DEF RetireCAS
  <2> QED BY <1>0, <1>3, <2>1, <2>2, <2>8, <2>9, QuietPublisherStep, Zenon
<1> QED BY <1>2, <1>3

\* Taking the set of connections in closeHijacked keeps the invariant.
LEMMA CloseHijackedStep == ASSUME IInv, NEW p \in Publishers, CloseHijacked(p) PROVE IInv'
<1> DEFINE r == [pub[p] EXCEPT !.pc = "closeConns", !.conns = hijacked[pub[p].gen]]
<1>1. pub[p] \in PubType /\ pub[p].gen \in Gens BY DEF IInv, TypeOK, PublishersPlaced, CloseHijacked
<1>2. r \in PubType /\ r.pc = "closeConns" /\ r.gen = pub[p].gen /\ r.seen = pub[p].seen
      BY <1>1, Zenon DEF IInv, TypeOK, PubType
<1>3. pub' = [pub EXCEPT ![p] = r] BY Zenon DEF IInv, TypeOK, CloseHijacked
<1>4. hijacked' \in [Gens -> SUBSET Threads] BY Zenon DEF IInv, TypeOK, CloseHijacked
<1> HIDE DEF r
<1>8. /\ UNCHANGED <<retired, count, drained, stopped, thr, hijackMu>>
      /\ current' \in Gens \cup {NoGen} /\ closed' \in BOOLEAN /\ mu' \in Publishers \cup {"free"}
      /\ stopping' \subseteq Gens
      /\ hijacked' \in [Gens -> SUBSET Threads] /\ open' \subseteq Threads
      /\ current' = NoGen => closed'
      BY <1>1, <1>2, <1>3, <1>4 DEF IInv, TypeOK, CloseHijacked, PublishersPlaced
<1>9. pub[p].pc = "closeHijacked" BY DEF CloseHijacked
<1> QED BY <1>1, <1>2, <1>3, <1>4, <1>8, <1>9, QuietPublisherStep, Zenon

\* Closing one connection keeps the invariant.
LEMMA CloseConnectionStep == ASSUME IInv, NEW p \in Publishers, CloseConnection(p) PROVE IInv'
<1>1. PICK c \in pub[p].conns : open' = open \ {c} /\ pub' = [pub EXCEPT ![p].conns = @ \ {c}]
      BY Zenon DEF CloseConnection
<1> DEFINE r == [pub[p] EXCEPT !.conns = @ \ {c}]
<1>2. pub[p] \in PubType BY DEF IInv, TypeOK
<1>3. r \in PubType /\ r.pc = "closeConns" /\ r.gen = pub[p].gen /\ r.seen = pub[p].seen
      BY <1>2 DEF PubType, CloseConnection
<1>4. pub' = [pub EXCEPT ![p] = r] BY <1>1 DEF IInv, TypeOK
<1> HIDE DEF r
<1>8. /\ UNCHANGED <<retired, count, drained, stopped, thr, hijackMu>>
      /\ current' \in Gens \cup {NoGen} /\ closed' \in BOOLEAN /\ mu' \in Publishers \cup {"free"}
      /\ stopping' \subseteq Gens
      /\ hijacked' \in [Gens -> SUBSET Threads] /\ open' \subseteq Threads
      /\ current' = NoGen => closed'
      BY <1>1, <1>3, <1>4 DEF IInv, TypeOK, CloseConnection, PublishersPlaced
<1>9. pub[p].pc = "closeConns" /\ pub[p].gen \in Gens BY DEF IInv, PublishersPlaced, CloseConnection
<1> QED BY <1>3, <1>4, <1>8, <1>9, QuietPublisherStep, Zenon

\* Signalling drained for an empty generation keeps the invariant.
LEMMA RetireDrainedStep == ASSUME IInv, NEW p \in Publishers, RetireDrained(p) PROVE IInv'
<1> DEFINE r == [pub[p] EXCEPT !.pc = "unlock"]
<1>1. pub[p] \in PubType BY DEF IInv, TypeOK
<1>2. r \in PubType /\ r.pc = "unlock" /\ r.gen = pub[p].gen BY <1>1 DEF PubType
<1>3. /\ pub' = [pub EXCEPT ![p] = r]
      /\ UNCHANGED <<current, closed, mu, stopping, retired, count, stopped, hijacked, open, hijackMu, thr>>
      BY DEF IInv, TypeOK, RetireDrained
<1>4. /\ drained \subseteq drained' /\ drained' \subseteq Gens
      /\ \A g \in drained' : retired[g] /\ count[g] = 0
      BY DEF IInv, TypeOK, DrainedEmpty, PublishersPlaced, RetireDrained
<1> HIDE DEF r
<1>5. TypeOK' BY <1>2, <1>3, <1>4 DEF IInv, TypeOK
<1>6. ThreadsPlaced' /\ WorkersReserved' BY <1>3 DEF IInv, ThreadsPlaced, WorkersReserved
<1>7. PublishersPlaced' BY <1>2, <1>3 DEF IInv, TypeOK, PublishersPlaced, RetireDrained
<1>8. CountExact'
  <2>1. \A h \in Gens : Holders(h)' = Holders(h) BY <1>3 DEF Holders
  <2> QED BY <1>3, <2>1, CountUntouched DEF IInv
<1>9. DrainedEmpty' BY <1>3, <1>4 DEF IInv, DrainedEmpty
<1> QED BY <1>5, <1>6, <1>7, <1>8, <1>9 DEF IInv

\* Leaving mu and calling stopRouteSet keeps the invariant.
LEMMA UnlockStep == ASSUME IInv, NEW p \in Publishers, Unlock(p) PROVE IInv'
<1> DEFINE r == IF pub[p].sync THEN [pub[p] EXCEPT !.pc = "wait"] ELSE PubIdle
<1>1. pub[p] \in PubType /\ pub[p].gen \in Gens BY DEF IInv, TypeOK, PublishersPlaced, Unlock
<1>2. r \in PubType /\ r.pc \in {"wait", "idle"} /\ (r.pc = "wait" => r.gen = pub[p].gen)
      BY <1>1 DEF PubType, PubIdle
<1>3. pub' = [pub EXCEPT ![p] = r] BY DEF IInv, TypeOK, Unlock
<1>4. mu' = "free" /\ stopping' \subseteq Gens BY <1>1 DEF IInv, TypeOK, Unlock
<1>5. current = NoGen => closed BY DEF IInv, PublishersPlaced
<1> HIDE DEF r
<1> QED BY <1>1, <1>2, <1>3, <1>4, <1>5, QuietPublisherStep, Zenon DEF IInv, TypeOK, Unlock

\* The return of a synchronous stopRouteSet keeps the invariant.
LEMMA SyncStoppedStep == ASSUME IInv, NEW p \in Publishers, SyncStopped(p) PROVE IInv'
<1>1. PubIdle \in PubType /\ PubIdle.pc = "idle" BY DEF PubType, PubIdle
<1> QED BY <1>1, QuietPublisherStep, Zenon DEF IInv, TypeOK, SyncStopped, PublishersPlaced

\* Running the stop function keeps the invariant.
LEMMA StopRouteSetStep == ASSUME IInv, NEW g \in Gens, StopRouteSet(g) PROVE IInv'
<1>1. TypeOK' BY DEF IInv, TypeOK, StopRouteSet
<1>2. ThreadsPlaced' /\ WorkersReserved' BY DEF IInv, ThreadsPlaced, WorkersReserved, StopRouteSet
<1>3. PublishersPlaced' BY DEF IInv, PublishersPlaced, StopRouteSet
<1>4. CountExact'
  <2>1. \A h \in Gens : Holders(h)' = Holders(h) BY DEF Holders, StopRouteSet
  <2> QED BY <2>1, CountUntouched DEF IInv, StopRouteSet
<1>5. DrainedEmpty' BY DEF IInv, DrainedEmpty, StopRouteSet
<1> QED BY <1>1, <1>2, <1>3, <1>4, <1>5 DEF IInv

-----------------------------------------------------------------------------
(* The theorems.                                                           *)

\* The invariant holds after newRouteHandler.
LEMMA IInvInit == Init => IInv
<1> SUFFICES ASSUME Init PROVE IInv OBVIOUS
<1>1. Idle \in ThreadType /\ Idle.pc = "idle" /\ Idle.worker = {} BY DEF ThreadType, Idle
<1>2. PubIdle \in PubType /\ PubIdle.pc = "idle" BY DEF PubType, PubIdle
<1>3. TypeOK BY <1>1, <1>2, Zenon DEF Init, TypeOK
<1>4. ThreadsPlaced /\ WorkersReserved BY <1>1 DEF Init, ThreadsPlaced, WorkersReserved, Owning
<1>5. PublishersPlaced BY <1>2 DEF Init, PublishersPlaced
<1>6. CountExact
  <2>1. \A g \in Gens : Holders(g) = {} BY <1>1 DEF Init, Holders, Owning
  <2> QED BY <2>1, FS_EmptySet DEF Init, CountExact
<1>7. DrainedEmpty BY <1>1, SMTT(20) DEF Init, DrainedEmpty
<1> QED BY <1>3, <1>4, <1>5, <1>6, <1>7 DEF IInv

\* The invariant depends on the modelled variables only.
LEMMA IInvStutter == IInv /\ UNCHANGED vars => IInv'
<1> SUFFICES ASSUME IInv, UNCHANGED vars PROVE IInv' OBVIOUS
<1>1. \A g \in Gens : Holders(g)' = Holders(g) BY DEF vars, Holders
<1>2. CountExact' BY <1>1, CountUntouched DEF IInv, vars
<1> QED BY <1>2 DEF IInv, vars, TypeOK, ThreadsPlaced, WorkersReserved, PublishersPlaced, DrainedEmpty

\* Every step of every goroutine keeps the invariant.
LEMMA IInvStep == IInv /\ [Next]_vars => IInv'
<1> SUFFICES ASSUME IInv, [Next]_vars PROVE IInv' OBVIOUS
<1>1. CASE UNCHANGED vars BY <1>1, IInvStutter, SMTT(20)
<1>2. ASSUME NEW t \in Threads, ThreadStep(t) PROVE IInv'
      BY <1>2, IInvStutter, ServeLoadStep, AcquireLoadStep, AcquireCASStep, LeaseBeginStep, LeaseLoadStep,
         LeaseCASStep, HijackStep, RegisterCheckStep, RegisterHijackedStep, ReturnStep,
         UnregisterStep, ReleaseStep, CloseDrainedStep
      DEF ThreadStep, ServeUnavailable
<1>3. CASE ReplaceSwap BY <1>3, ReplaceSwapStep
<1>4. CASE CloseSwap BY <1>4, CloseSwapStep
<1>5. ASSUME NEW p \in Publishers, RetireStep(p) PROVE IInv'
      BY <1>5, RetireLoadStep, RetireCASStep, CloseHijackedStep, CloseConnectionStep,
         RetireDrainedStep, UnlockStep, SyncStoppedStep
      DEF RetireStep
<1>6. ASSUME NEW g \in Gens, StopRouteSet(g) PROVE IInv' BY <1>6, StopRouteSetStep
<1> QED BY <1>1, <1>2, <1>3, <1>4, <1>5, <1>6 DEF Next

\* The strengthened invariant holds in every reachable state of the route
\* publication object.
THEOREM Invariance == Spec => []IInv
BY IInvInit, IInvStep, PTL DEF Spec

\* Every variable keeps its type: in particular the reference count in
\* routeSet.state never borrows into the retired bit.
THEOREM TypeCorrect == Spec => []TypeOK
<1>1. IInv => TypeOK BY DEF IInv
<1> QED BY <1>1, Invariance, PTL

\* The count in routeSet.state equals the number of requests and batch workers
\* inside the generation, however many there are.
THEOREM CountCorrect == Spec => []CountExact
<1>1. IInv => CountExact BY DEF IInv
<1> QED BY <1>1, Invariance, PTL

\* stopRouteSet runs a generation's stop function only when the generation is
\* retired and empty, and nobody enters it afterwards.
THEOREM StopIsSafe == Spec => []NoUseAfterStop
<1>1. IInv => NoUseAfterStop
  <2> SUFFICES ASSUME IInv, NEW g \in stopped PROVE retired[g] /\ Holders(g) = {}
      BY DEF NoUseAfterStop
  <2>1. g \in Gens /\ retired[g] /\ count[g] = 0 BY DEF IInv, TypeOK, DrainedEmpty
  <2>2. Holders(g) = {} BY <2>1, HoldersFinite, FS_EmptySet DEF IInv, CountExact
  <2> QED BY <2>1, <2>2
<1> QED BY <1>1, Invariance, PTL
-----------------------------------------------------------------------------
(* Refinement of the contract.                                             *)

\* A step that changes no holder, no retired bit and stops nothing is a
\* stuttering step of the contract.
LEMMA ContractStutter ==
    ASSUME UNCHANGED <<retired, stopped>>, \A g \in Gens : Holders(g)' = Holders(g)
    PROVE  [Contract!Next]_(Contract!cvars)
<1>1. [g \in Gens |-> Phase(g)]' = [g \in Gens |-> Phase(g)] BY DEF Phase
<1>2. [g \in Gens |-> Holders(g)]' = [g \in Gens |-> Holders(g)] OBVIOUS
<1> QED BY <1>1, <1>2 DEF Contract!cvars

\* A thread step after which every other thread, and the thread itself, is
\* inside the generation it was in before leaves the holders alone.
LEMMA HoldersKept ==
    ASSUME \A u \in Threads : /\ thr'[u].pc \in Owning <=> thr[u].pc \in Owning
                              /\ thr[u].pc \in Owning => thr'[u].gen = thr[u].gen
    PROVE  \A g \in Gens : Holders(g)' = Holders(g)
BY DEF Holders

\* A successful compare-and-swap of acquireRequest or acquireDispatchLease is
\* an Enter step of the contract.
LEMMA ContractEnter ==
    ASSUME IInv, UNCHANGED <<retired, stopped>>, NEW u \in Threads, NEW g \in Gens, ~retired[g],
           thr[u].pc \notin Owning, thr'[u].pc \in Owning, thr'[u].gen = g,
           \A v \in Threads \ {u} : /\ thr'[v].pc \in Owning <=> thr[v].pc \in Owning
                                    /\ thr[v].pc \in Owning => thr'[v].gen = thr[v].gen
    PROVE  Contract!Enter(u, g)
<1>1. [h \in Gens |-> Phase(h)]' = [h \in Gens |-> Phase(h)] BY DEF Phase
<1>2. Phase(g) = "live" BY DEF IInv, DrainedEmpty, Phase
<1>3. \A h \in Gens : u \notin Holders(h) BY DEF Holders
<1>4. \A h \in Gens : Holders(h)' = IF h = g THEN Holders(h) \cup {u} ELSE Holders(h)
      BY DEF Holders
<1> QED BY <1>1, <1>2, <1>3, <1>4, Zenon DEF Contract!Enter

\* Every step of the model is a step of the contract or leaves it alone.
LEMMA ContractStep == IInv /\ [Next]_vars => [Contract!Next]_(Contract!cvars)
<1> SUFFICES ASSUME IInv, [Next]_vars PROVE [Contract!Next]_(Contract!cvars) OBVIOUS
<1> DEFINE Done == [Contract!Next]_(Contract!cvars)
           Same == UNCHANGED <<retired, stopped>> /\ \A g \in Gens : Holders(g)' = Holders(g)
<1>1. Same => Done BY ContractStutter
<1>2. ASSUME NEW u \in Threads, NEW g \in Gens, Contract!Enter(u, g) PROVE Done
      BY <1>2 DEF Contract!Next
<1>0. UNCHANGED <<retired, stopped, thr>> => Done
  <2>1. UNCHANGED thr => \A g \in Gens : Holders(g)' = Holders(g) BY DEF Holders
  <2> QED BY <1>1, <2>1
<1> HIDE DEF Done
<1>3. UNCHANGED vars => Done BY <1>0 DEF vars
<1>4. ASSUME NEW t \in Threads, ThreadStep(t) PROVE Done
  <2>1. CASE ServeUnavailable(t) BY <1>0, <2>1 DEF ServeUnavailable, vars
  <2>2. CASE ServeLoad(t)
    <3>1. Same BY <2>2, HoldersKept DEF IInv, TypeOK, ServeLoad, Owning
    <3> QED BY <1>1, <3>1
  <2>3. CASE AcquireLoad(t)
    <3>1. Idle.pc = "idle" BY DEF Idle
    <3>2. Same BY <2>3, <3>1, HoldersKept DEF IInv, TypeOK, AcquireLoad, Owning
    <3> QED BY <1>1, <3>2
  <2>4. CASE AcquireCAS(t)
    <3>0. PICK g \in Gens : g = thr[t].gen BY <2>4 DEF IInv, TypeOK, ThreadsPlaced, AcquireCAS
    <3>1. CASE WordUnchanged(g, thr[t].seen)
      <4>1. /\ thr[t].pc \notin Owning /\ thr'[t].pc \in Owning /\ thr'[t].gen = g
            /\ \A v \in Threads \ {t} : thr'[v] = thr[v]
            BY <2>4, <3>0, <3>1 DEF IInv, TypeOK, ThreadType, AcquireCAS, Owning
      <4>2. Contract!Enter(t, g) BY <2>4, <3>1, <4>1, ContractEnter DEF AcquireCAS, WordUnchanged
      <4> QED BY <1>2, <4>2
    <3>2. CASE ~WordUnchanged(g, thr[t].seen)
      <4>1. \A u \in Threads : /\ thr'[u].pc \in Owning <=> thr[u].pc \in Owning
                               /\ thr'[u].gen = thr[u].gen
            BY <2>4, <3>0, <3>2 DEF IInv, TypeOK, ThreadType, AcquireCAS, Owning
      <4>2. Same BY <2>4, <3>0, <3>2, <4>1, HoldersKept DEF AcquireCAS
      <4> QED BY <1>1, <4>2
    <3> QED BY <3>1, <3>2
  <2>5. ASSUME NEW w \in Threads, LeaseBegin(t, w) PROVE Done
    <3>1. \A u \in Threads : /\ thr'[u].gen = thr[u].gen
                             /\ thr'[u].pc \in Owning <=> thr[u].pc \in Owning
          BY <2>5 DEF IInv, TypeOK, ThreadType, LeaseBegin, Owning
    <3>2. Same BY <2>5, <3>1, HoldersKept, Zenon DEF LeaseBegin
    <3> QED BY <1>1, <3>2
  <2>6. CASE LeaseLoad(t)
    <3>1. \A u \in Threads : /\ thr'[u].pc \in Owning <=> thr[u].pc \in Owning
                             /\ thr[u].pc \in Owning => thr'[u].gen = thr[u].gen
      <4>1. CASE retired[thr[t].gen]
        <5> SUFFICES ASSUME NEW u \in Threads
                     PROVE  /\ thr'[u].pc \in Owning <=> thr[u].pc \in Owning
                            /\ thr[u].pc \in Owning => thr'[u].gen = thr[u].gen
            OBVIOUS
        <5>1. CASE u = t
          <6>1. thr'[t] = [thr[t] EXCEPT !.pc = "serving", !.worker = {}] BY <2>6, <4>1 DEF LeaseLoad
          <6>2. thr[t] \in ThreadType /\ thr[t].pc = "leaseLoad" BY <2>6 DEF IInv, TypeOK, LeaseLoad
          <6> QED BY <5>1, <6>1, <6>2 DEF ThreadType, Owning
        <5>2. CASE u # t /\ u \in thr[t].worker
          <6>1. thr'[u] = Idle BY <2>6, <4>1, <5>2 DEF LeaseLoad
          <6>2. thr[u].pc = "reserved" BY <2>6, <5>2 DEF IInv, WorkersReserved, LeaseLoad
          <6> QED BY <6>1, <6>2 DEF Idle, Owning
        <5>3. CASE u # t /\ u \notin thr[t].worker BY <2>6, <4>1, <5>3 DEF LeaseLoad
        <5> QED BY <5>1, <5>2, <5>3
      <4>2. CASE ~retired[thr[t].gen] BY <2>6, <4>2 DEF IInv, TypeOK, ThreadType, LeaseLoad, Owning
      <4> QED BY <4>1, <4>2
    <3>2. Same BY <2>6, <3>1, HoldersKept DEF LeaseLoad
    <3> QED BY <1>1, <3>2
  <2>7. CASE LeaseCAS(t)
    <3>0. PICK g \in Gens : g = thr[t].gen BY <2>7 DEF IInv, TypeOK, ThreadsPlaced, LeaseCAS, Owning
    <3>1. CASE WordUnchanged(g, thr[t].seen)
      <4>1. PICK w \in Threads : thr[t].worker = {w} /\ w # t /\ thr[w].pc = "reserved"
            BY <2>7 DEF IInv, WorkersReserved, LeaseCAS, TypeOK, ThreadType
      <4>2. /\ thr'[w] = [Idle EXCEPT !.pc = "serving", !.gen = g, !.lease = TRUE]
            /\ thr'[t] = [thr[t] EXCEPT !.pc = "serving", !.worker = {}, !.seen = 0]
            /\ \A v \in Threads \ {t, w} : thr'[v] = thr[v]
            BY <2>7, <3>0, <3>1, <4>1 DEF LeaseCAS
      <4>3. thr[w].pc \notin Owning /\ thr'[w].pc \in Owning /\ thr'[w].gen = g
            BY <4>1, <4>2 DEF Idle, Owning
      <4>4. thr'[t].pc \in Owning /\ thr[t].pc \in Owning /\ thr'[t].gen = thr[t].gen
            BY <2>7, <4>2 DEF IInv, TypeOK, ThreadType, Owning, LeaseCAS
      <4>5. Contract!Enter(w, g)
            BY <2>7, <3>1, <4>2, <4>3, <4>4, ContractEnter, ZenonT(30) DEF LeaseCAS, WordUnchanged
      <4> QED BY <1>2, <4>5
    <3>2. CASE ~WordUnchanged(g, thr[t].seen)
      <4>1. \A u \in Threads : /\ thr'[u].pc \in Owning <=> thr[u].pc \in Owning
                               /\ thr'[u].gen = thr[u].gen
            BY <2>7, <3>0, <3>2 DEF IInv, TypeOK, ThreadType, LeaseCAS, Owning
      <4>2. Same BY <2>7, <3>0, <3>2, <4>1, HoldersKept DEF LeaseCAS
      <4> QED BY <1>1, <4>2
    <3> QED BY <3>1, <3>2
  <2>8. CASE Hijack(t) \/ RegisterCheck(t) \/ RegisterHijacked(t) \/ Return(t) \/ Unregister(t)
    <3>1. thr[t] \in ThreadType BY DEF IInv, TypeOK
    <3>2. thr[t].pc \in Owning
          BY <2>8 DEF Hijack, RegisterCheck, RegisterHijacked, Return, Unregister, Owning
    <3>3. PICK pc \in Owning, h \in {"none", "registered", "refused"} :
              thr' = [thr EXCEPT ![t] = [thr[t] EXCEPT !.pc = pc, !.hijack = h]]
      <4>1. CASE Hijack(t)
        <5>1. thr' = [thr EXCEPT ![t] = [thr[t] EXCEPT !.pc = "hijack", !.hijack = thr[t].hijack]]
              BY <4>1, <3>1, Zenon DEF IInv, TypeOK, ThreadType, Hijack, Goto
        <5> QED BY <5>1, <3>1, Zenon DEF ThreadType, Owning
      <4>2. CASE RegisterCheck(t)
        <5> DEFINE h == IF retired[thr[t].gen] THEN "refused" ELSE "registered"
        <5>1. thr' = [thr EXCEPT ![t] = [thr[t] EXCEPT !.pc = "register", !.hijack = h]]
              BY <4>2, <3>1, Zenon DEF IInv, TypeOK, ThreadType, RegisterCheck
        <5> QED BY <5>1, Zenon DEF Owning
      <4>3. CASE RegisterHijacked(t)
        <5>1. thr' = [thr EXCEPT ![t] = [thr[t] EXCEPT !.pc = "serving", !.hijack = thr[t].hijack]]
              BY <4>3, <3>1, Zenon DEF IInv, TypeOK, ThreadType, RegisterHijacked, Goto
        <5> QED BY <5>1, <3>1, Zenon DEF ThreadType, Owning
      <4>4. CASE Return(t)
        <5> DEFINE pc == IF thr[t].hijack = "registered" THEN "unregister" ELSE "release"
        <5>1. thr' = [thr EXCEPT ![t] = [thr[t] EXCEPT !.pc = pc, !.hijack = thr[t].hijack]]
              BY <4>4, <3>1, Zenon DEF IInv, TypeOK, ThreadType, Return, Goto
        <5> QED BY <5>1, <3>1, Zenon DEF ThreadType, Owning
      <4>5. CASE Unregister(t)
        <5>1. thr' = [thr EXCEPT ![t] = [thr[t] EXCEPT !.pc = "release", !.hijack = thr[t].hijack]]
              BY <4>5, <3>1, Zenon DEF IInv, TypeOK, ThreadType, Unregister, Goto
        <5> QED BY <5>1, <3>1, Zenon DEF ThreadType, Owning
      <4> QED BY <2>8, <4>1, <4>2, <4>3, <4>4, <4>5, Zenon
    <3>4. \A u \in Threads : /\ thr'[u].pc \in Owning <=> thr[u].pc \in Owning
                             /\ thr'[u].gen = thr[u].gen
          BY <3>1, <3>2, <3>3 DEF IInv, TypeOK, ThreadType
    <3>5. Same
          BY <2>8, <3>4, HoldersKept DEF Hijack, RegisterCheck, RegisterHijacked, Return, Unregister
    <3> QED BY <1>1, <3>5
  <2>9. CASE Release(t)
    <3>0. PICK g \in Gens : g = thr[t].gen BY <2>9 DEF IInv, TypeOK, ThreadsPlaced, Release, Owning
    <3>1. /\ thr[t].pc \in Owning /\ thr'[t].pc \notin Owning
          /\ \A v \in Threads \ {t} : thr'[v] = thr[v]
          BY <2>9 DEF IInv, TypeOK, ThreadType, Release, Goto, Owning, Idle
    <3>2. \A h \in Gens : Holders(h)' = IF h = g THEN Holders(h) \ {t} ELSE Holders(h)
          BY <3>0, <3>1 DEF Holders
    <3>3. [h \in Gens |-> Phase(h)]' = [h \in Gens |-> Phase(h)] BY <2>9 DEF Phase, Release
    <3>4. t \in Holders(g) BY <3>0, <3>1 DEF Holders
    <3>5. Contract!Leave(t, g) BY <3>2, <3>3, <3>4, Zenon DEF Contract!Leave
    <3> QED BY <3>5 DEF Done, Contract!Next
  <2>10. CASE CloseDrained(t)
    <3>1. Idle.pc = "idle" BY DEF Idle
    <3>2. Same BY <2>10, <3>1, HoldersKept DEF IInv, TypeOK, CloseDrained, Owning
    <3> QED BY <1>1, <3>2
  <2> QED BY <1>4, <2>1, <2>2, <2>3, <2>4, <2>5, <2>6, <2>7, <2>8, <2>9, <2>10, SMTT(20) DEF ThreadStep
<1>5. ReplaceSwap \/ CloseSwap => Done BY <1>0, Zenon DEF ReplaceSwap, CloseSwap
<1>6. ASSUME NEW p \in Publishers, RetireStep(p) PROVE Done
  <2>1. CASE RetireCAS(p)
    <3>0. PICK g \in Gens : g = pub[p].gen BY <2>1 DEF IInv, PublishersPlaced, RetireCAS
    <3>1. CASE WordUnchanged(g, pub[p].seen)
      <4>1. \A h \in Gens : Holders(h)' = Holders(h) BY <2>1 DEF Holders, RetireCAS
      <4>2. Phase(g) = "live" BY <3>1 DEF IInv, DrainedEmpty, Phase, WordUnchanged
      <4>3. \A h \in Gens : Phase(h)' = IF h = g THEN "retired" ELSE Phase(h)
            BY <2>1, <3>0, <3>1 DEF IInv, TypeOK, DrainedEmpty, Phase, WordUnchanged, RetireCAS
      <4>4. Contract!Retire(g) BY <4>1, <4>2, <4>3, Zenon DEF Contract!Retire
      <4> QED BY <4>4 DEF Done, Contract!Next
    <3>2. CASE ~WordUnchanged(g, pub[p].seen) BY <1>0, <2>1, <3>0, <3>2 DEF RetireCAS
    <3> QED BY <3>1, <3>2
  <2>2. CASE ~RetireCAS(p)
        BY <1>0, <1>6, <2>2
        DEF RetireStep, RetireLoad, CloseHijacked, CloseConnection, RetireDrained, Unlock, SyncStopped
  <2> QED BY <2>1, <2>2
<1>7. ASSUME NEW g \in Gens, StopRouteSet(g) PROVE Done
  <2>1. \A h \in Gens : Holders(h)' = Holders(h) BY <1>7 DEF Holders, StopRouteSet
  <2>2. CASE g \in stopped BY <1>1, <1>7, <2>1, <2>2 DEF StopRouteSet
  <2>3. CASE g \notin stopped
    <3>1. retired[g] /\ count[g] = 0 BY <1>7 DEF IInv, DrainedEmpty, StopRouteSet
    <3>2. Holders(g) = {} BY <3>1, HoldersFinite, FS_EmptySet DEF IInv, CountExact
    <3>3. Phase(g) = "retired" BY <2>3, <3>1 DEF Phase
    <3>4. \A h \in Gens : Phase(h)' = IF h = g THEN "stopped" ELSE Phase(h)
          BY <1>7 DEF Phase, StopRouteSet
    <3>5. Contract!Stop(g) BY <2>1, <3>2, <3>3, <3>4, Zenon DEF Contract!Stop
    <3> QED BY <3>5 DEF Done, Contract!Next
  <2> QED BY <2>2, <2>3
<1> QED BY <1>3, <1>4, <1>5, <1>6, <1>7 DEF Next, Done

\* The initial generation is live and empty, as the contract starts.
LEMMA ContractInit == Init => Contract!Init
<1> SUFFICES ASSUME Init PROVE Contract!Init OBVIOUS
<1>1. Idle.pc = "idle" BY DEF Idle
<1>2. \A g \in Gens : Phase(g) = "live" /\ Holders(g) = {}
      BY <1>1 DEF Init, Phase, Holders, Owning
<1> QED BY <1>2 DEF Contract!Init

\* The compare-and-swap loops, leases, Replace and Close implement the
\* contract: a retired generation takes no new user and is stopped once, after
\* its last user has left.
THEOREM Refinement == Spec => ImplementsContract
<1>1. IInv /\ [Next]_vars => [Contract!Next]_(Contract!cvars) BY ContractStep
<1>2. Init => Contract!Init BY ContractInit
<1> QED BY <1>1, <1>2, Invariance, PTL DEF Spec, ImplementsContract, Contract!Spec
=============================================================================
