----------------------- MODULE RoutePublicationProofs -----------------------
(***************************************************************************)
(* For every set of goroutines and generations: the current generation can *)
(* always be acquired, and no tunnel of a retired generation stays open.   *)
(*                                                                         *)
(* registerHijacked and closeHijacked meet at hijackMu only, and the       *)
(* retired bit is set outside it.  The invariant says who will close a     *)
(* connection at every point of their race: a registration that saw the    *)
(* bit clear holds hijackMu, so the publisher that sets the bit has still  *)
(* to take the set; a recorded connection is in the set or already with    *)
(* the publisher that closes it.                                           *)
(***************************************************************************)
EXTENDS RouteGenerationProofs

\* mu is held from the swap to the unlock, and what is being retired is not
\* current any more.
MuHeld ==
    \A p \in Publishers :
        /\ pub[p].pc \notin {"idle", "wait"} <=> mu = p
        /\ pub[p].pc \in {"load", "cas"} => pub[p].gen # current

\* The pointer is nil exactly when the handler is closed, and never retired.
CurrentLive ==
    /\ current = NoGen <=> closed
    /\ current # NoGen => ~retired[current]

PInv == MuHeld /\ CurrentLive

\* Where a connection is not yet hijacked, and where a handler goes on.
Fresh == {"idle", "load", "cas", "reserved", "hijack"}
Going == {"serving", "leaseLoad", "leaseCAS"}

Registering(t) == thr[t].pc = "register" /\ thr[t].hijack = "registered"

\* Some publisher has still to take the hijacked connections of g.
Awaited(g) == \E p \in Publishers : pub[p].gen = g /\ pub[p].pc = "closeHijacked"

\* Some publisher is about to close t's connection.
Doomed(t) ==
    \E p \in Publishers :
        pub[p].gen = thr[t].gen /\ pub[p].pc = "closeConns" /\ t \in pub[p].conns

\* A goroutine that has not hijacked its connection is not marked as if.
MarksFresh ==
    \A t \in Threads :
        thr[t].pc \in Fresh => thr[t].hijack = "none"

\* A registration that goes ahead holds hijackMu of its generation alone.
RegistersAlone ==
    /\ \A t \in Threads : Registering(t) => thr[t].gen \in hijackMu
    /\ \A t, u \in Threads :
          Registering(t) /\ Registering(u) /\ thr[t].gen = thr[u].gen => t = u

\* A connection that is recorded, or about to be, in a retired generation has
\* the publisher still before it.
LateIsAwaited ==
    /\ \A t \in Threads : Registering(t) /\ retired[thr[t].gen] => Awaited(thr[t].gen)
    /\ \A g \in Gens : retired[g] /\ hijacked[g] # {} => Awaited(g)

\* An open connection of a handler that goes on is recorded, or about to be
\* closed.
OpenIsKnown ==
    \A t \in Threads :
        thr[t].pc \in Going /\ thr[t].hijack # "none" /\ t \in open =>
            t \in hijacked[thr[t].gen] \/ Doomed(t)

HInv == MarksFresh /\ RegistersAlone /\ LateIsAwaited /\ OpenIsKnown

USE FirstAssumption, NoGenAssumption

-----------------------------------------------------------------------------
(* The current pointer.                                                    *)

\* Nothing is retired and nobody publishes at first.
LEMMA PInvInit == Init => PInv
BY DEF Init, PInv, MuHeld, CurrentLive, PubIdle, Publishers

\* A goroutine that serves requests neither publishes nor retires.
LEMMA PInvThread == ASSUME PInv, NEW t \in Threads, ThreadStep(t) PROVE PInv'
<1>1. UNCHANGED <<current, closed, mu, pub, retired>>
      BY Zenon DEF ThreadStep, ServeLoad, ServeUnavailable, AcquireLoad, AcquireCAS, LeaseBegin, LeaseLoad, LeaseCAS,
             Hijack, RegisterCheck, RegisterHijacked, Return, Unregister, Release, CloseDrained, pubVars, vars
<1> QED BY <1>1 DEF PInv, MuHeld, CurrentLive

\* The swap of Replace takes mu, and makes an unretired generation current.
LEMMA PInvReplace == ASSUME IInv, PInv, ReplaceSwap PROVE PInv'
<1>1. PICK next \in Unused :
        IF closed
        THEN /\ pub' = [pub EXCEPT !["reload"] = [PubIdle EXCEPT !.pc = "load", !.gen = next, !.sync = TRUE]]
             /\ UNCHANGED current
        ELSE /\ pub' = [pub EXCEPT !["reload"] = [PubIdle EXCEPT !.pc = "load", !.gen = current]]
             /\ current' = next
      BY Zenon DEF ReplaceSwap
<1>2. next \in Gens /\ next # current /\ ~retired[next] BY DEF Unused
<1>3. mu = "free" /\ mu' = "reload" /\ UNCHANGED <<closed, retired>> /\ pub["reload"].pc = "idle"
      BY DEF ReplaceSwap
<1>4. pub \in [Publishers -> PubType] BY DEF IInv, TypeOK
<1>5. CASE closed
  <2>1. /\ current' = current /\ current = NoGen
        /\ pub' = [pub EXCEPT !["reload"] = [PubIdle EXCEPT !.pc = "load", !.gen = next, !.sync = TRUE]]
        BY <1>1, <1>5 DEF PInv, CurrentLive
  <2>2. pub'["reload"].pc = "load" /\ pub'["reload"].gen = next /\ pub'["close"] = pub["close"]
        BY <2>1, <1>4 DEF PubIdle, Publishers
  <2> QED BY <2>1, <2>2, <1>2, <1>3 DEF PInv, MuHeld, CurrentLive, Publishers
<1>6. CASE ~closed
  <2>1. /\ current' = next /\ current # NoGen
        /\ pub' = [pub EXCEPT !["reload"] = [PubIdle EXCEPT !.pc = "load", !.gen = current]]
        BY <1>1, <1>6 DEF PInv, CurrentLive
  <2>2. pub'["reload"].pc = "load" /\ pub'["reload"].gen = current /\ pub'["close"] = pub["close"]
        BY <2>1, <1>4 DEF PubIdle, Publishers
  <2>3. MuHeld' BY <2>1, <2>2, <1>2, <1>3 DEF PInv, MuHeld, Publishers
  <2>4. CurrentLive' BY <2>1, <1>2, <1>3, <1>6 DEF CurrentLive
  <2> QED BY <2>3, <2>4 DEF PInv
<1> QED BY <1>5, <1>6

\* The swap of Close takes mu and leaves no current generation.
LEMMA PInvClose == ASSUME IInv, PInv, CloseSwap PROVE PInv'
<1>1. /\ mu = "free" /\ mu' = "close" /\ closed' = TRUE /\ current' = NoGen /\ current \in Gens
      /\ pub'["close"].pc = "load" /\ pub'["reload"] = pub["reload"] /\ pub'["close"].gen = current
      BY DEF CloseSwap, IInv, TypeOK, PubIdle, Publishers, PInv, CurrentLive
<1>2. MuHeld' BY <1>1 DEF PInv, MuHeld, Publishers
<1> QED BY <1>1, <1>2 DEF PInv, CurrentLive

\* A publisher retires only what it has swapped out, and gives mu up last.
LEMMA PInvRetire == ASSUME IInv, PInv, NEW p \in Publishers, RetireStep(p) PROVE PInv'
<1>1. UNCHANGED <<current, closed>>
      BY DEF RetireStep, RetireLoad, RetireCAS, CloseHijacked, CloseConnection, RetireDrained, Unlock, SyncStopped
<1>2. \A q \in Publishers \ {p} : pub'[q] = pub[q]
      BY DEF RetireStep, RetireLoad, RetireCAS, CloseHijacked, CloseConnection, RetireDrained, Unlock, SyncStopped,
             IInv, TypeOK
<1>3. \/ /\ mu' = mu /\ pub[p].pc \notin {"idle", "wait"} /\ pub'[p].pc \notin {"idle", "wait"}
         /\ pub'[p].pc \in {"load", "cas"} => pub[p].pc \in {"load", "cas"} /\ pub'[p].gen = pub[p].gen
      \/ mu' = "free" /\ pub[p].pc = "unlock" /\ pub'[p].pc \in {"idle", "wait"}
      \/ mu' = mu /\ pub[p].pc = "wait" /\ pub'[p].pc = "idle"
      BY DEF RetireStep, RetireLoad, RetireCAS, CloseHijacked, CloseConnection, RetireDrained, Unlock, SyncStopped,
             IInv, TypeOK, PubType, PubIdle
<1>4. MuHeld' BY <1>1, <1>2, <1>3 DEF PInv, MuHeld, Publishers
<1>5. retired' = retired \/ (pub[p].pc = "cas" /\ retired' = [retired EXCEPT ![pub[p].gen] = TRUE])
      BY DEF RetireStep, RetireLoad, RetireCAS, CloseHijacked, CloseConnection, RetireDrained, Unlock, SyncStopped
<1>6. CurrentLive'
      BY <1>1, <1>5 DEF IInv, TypeOK, PInv, MuHeld, CurrentLive
<1> QED BY <1>4, <1>6 DEF PInv

\* Every step keeps the current pointer servable.
LEMMA PInvStep == IInv /\ PInv /\ [Next]_vars => PInv'
<1> SUFFICES ASSUME IInv, PInv, [Next]_vars PROVE PInv' OBVIOUS
<1>1. CASE UNCHANGED vars BY SMTT(20), <1>1 DEF vars, PInv, MuHeld, CurrentLive
<1>2. ASSUME NEW g \in Gens, StopRouteSet(g) PROVE PInv'
      BY <1>2 DEF StopRouteSet, PInv, MuHeld, CurrentLive
<1> QED BY <1>1, <1>2, PInvThread, PInvReplace, PInvClose, PInvRetire DEF Next
-----------------------------------------------------------------------------
(* Tunnels.                                                                *)

\* The step brings u into no registration and does not leave it going on with
\* an open connection that was not known before.
Calm(u) ==
    /\ thr'[u] # thr[u] => ~(thr'[u].pc = "register" /\ thr'[u].hijack = "registered")
    /\ thr'[u].pc \in Fresh => thr'[u].hijack = "none"
    /\ thr'[u].pc \in Going /\ thr'[u].hijack # "none" /\ u \in open' =>
          /\ thr[u].pc \in Going /\ thr[u].hijack # "none" /\ u \in open
          /\ thr'[u].gen = thr[u].gen
          /\ u \in hijacked[thr[u].gen] => u \in hijacked'[thr[u].gen]

\* No connection is hijacked at first.
LEMMA HInvInit == Init => HInv
BY DEF Init, HInv, MarksFresh, RegistersAlone, LateIsAwaited, OpenIsKnown, Registering, Fresh, Going, Idle

\* A step that is calm for every goroutine keeps the tunnels accounted for.
LEMMA HInvCalm ==
    ASSUME HInv, UNCHANGED <<pub, retired, hijackMu>>,
           \A g \in Gens : hijacked'[g] \subseteq hijacked[g],
           \A u \in Threads : Calm(u)
    PROVE  HInv'
<1>1. \A u \in Threads : Registering(u)' => thr'[u] = thr[u] /\ Registering(u)
      BY DEF Calm, Registering
<1>2. MarksFresh' BY DEF MarksFresh, Calm
<1>3. RegistersAlone' BY SMTT(20), <1>1 DEF HInv, RegistersAlone
<1>4. LateIsAwaited' BY SMTT(20), <1>1 DEF HInv, LateIsAwaited, Awaited
<1>5. OpenIsKnown' BY SMTT(20) DEF HInv, OpenIsKnown, Calm, Doomed
<1> QED BY <1>2, <1>3, <1>4, <1>5 DEF HInv

\* A goroutine is calm when the step leaves it alone, when its connection is not
\* hijacked, when its handler has returned, and when its handler goes on.
LEMMA CalmCases ==
    ASSUME HInv, NEW u \in Threads,
           \/ /\ thr'[u] = thr[u] /\ (u \in open' => u \in open)
              /\ u \in hijacked[thr[u].gen] => u \in hijacked'[thr[u].gen]
           \/ thr'[u].hijack = "none"
           \/ thr'[u].pc \in {"unregister", "release", "drain"}
           \/ /\ thr'[u].pc \in Going /\ thr[u].pc \in Going
              /\ thr'[u].gen = thr[u].gen /\ thr'[u].hijack = thr[u].hijack
              /\ UNCHANGED <<open, hijacked>>
    PROVE  Calm(u)
<1>1. thr[u].pc \in Fresh => thr[u].hijack = "none" BY DEF HInv, MarksFresh
<1> QED BY <1>1, Zenon DEF Calm, Fresh, Going

\* Entering, leaving and lending a generation is calm; so is taking the
\* connection over, and closing it when the handler returns.
LEMMA HInvQuiet ==
    ASSUME IInv, HInv, NEW t \in Threads,
           \/ ServeLoad(t) \/ AcquireLoad(t) \/ AcquireCAS(t) \/ LeaseLoad(t) \/ LeaseCAS(t)
           \/ Hijack(t) \/ Return(t) \/ Unregister(t) \/ Release(t) \/ CloseDrained(t)
           \/ \E w \in Threads : LeaseBegin(t, w)
    PROVE  HInv'
<1>1. UNCHANGED <<pub, retired, hijackMu>>
      BY Zenon DEF ServeLoad, AcquireLoad, AcquireCAS, LeaseLoad, LeaseCAS, Hijack, Return, Unregister, Release,
             CloseDrained, LeaseBegin, pubVars
<1>2. \A g \in Gens : hijacked'[g] \subseteq hijacked[g]
  <2>1. CASE Unregister(t) BY <2>1 DEF Unregister, IInv, TypeOK
  <2>2. CASE hijacked' = hijacked BY <2>2
  <2> QED BY <2>1, <2>2, ZenonT(30) DEF ServeLoad, AcquireLoad, AcquireCAS, LeaseLoad, LeaseCAS, Hijack, Return,
                            Release, CloseDrained, LeaseBegin
<1> SUFFICES ASSUME NEW u \in Threads PROVE Calm(u) BY <1>1, <1>2, HInvCalm
<1>3. thr \in [Threads -> ThreadType] /\ thr[t] \in ThreadType BY DEF IInv, TypeOK
<1>4. thr[t].pc \in {"idle", "load", "cas"} => thr[t].hijack = "none" BY DEF HInv, MarksFresh, Fresh
<1>5. CASE thr'[u] = thr[u] /\ UNCHANGED <<open, hijacked>> BY <1>5, CalmCases
<1>6. CASE ServeLoad(t)
  <2>1. thr'[u] = thr[u] \/ thr'[u].hijack = "none" BY <1>6, <1>3, <1>4 DEF ServeLoad, ThreadType
  <2> QED BY <2>1, <1>5, <1>6, CalmCases, Zenon DEF ServeLoad
<1>7. CASE AcquireLoad(t)
  <2>1. thr'[u] = thr[u] \/ thr'[u].hijack = "none" BY <1>7, <1>3, <1>4 DEF AcquireLoad, ThreadType, Idle
  <2> QED BY <2>1, <1>5, <1>7, CalmCases, Zenon DEF AcquireLoad
<1>8. CASE AcquireCAS(t)
  <2>1. thr'[u] = thr[u] \/ thr'[u].hijack = "none" BY <1>8, <1>3, <1>4 DEF AcquireCAS, ThreadType
  <2> QED BY <2>1, <1>5, <1>8, CalmCases, Zenon DEF AcquireCAS
<1>9. CASE LeaseLoad(t)
  <2>1. thr[t].pc = "leaseLoad" /\ UNCHANGED <<hijacked, open>> BY <1>9 DEF LeaseLoad
  <2>2. \/ thr'[u] = thr[u] \/ thr'[u] = Idle
        \/ u = t /\ thr'[u] = [thr[t] EXCEPT !.pc = "serving", !.worker = {}]
        \/ u = t /\ thr'[u] = [thr[t] EXCEPT !.pc = "leaseCAS", !.seen = count[thr[t].gen]]
        BY <1>9, <1>3, Zenon DEF LeaseLoad
  <2>3. \/ thr'[u] = thr[u] \/ thr'[u].hijack = "none"
        \/ /\ u = t /\ thr'[u].pc \in {"serving", "leaseCAS"}
           /\ thr'[u].hijack = thr[u].hijack /\ thr'[u].gen = thr[u].gen
    <3>1. CASE thr'[u] = Idle BY <3>1 DEF Idle
    <3>2. CASE u = t /\ thr'[u] = [thr[t] EXCEPT !.pc = "serving", !.worker = {}] BY <3>2, <1>3 DEF ThreadType
    <3>3. CASE u = t /\ thr'[u] = [thr[t] EXCEPT !.pc = "leaseCAS", !.seen = count[thr[t].gen]]
          BY <3>3, <1>3 DEF ThreadType
    <3> QED BY <2>2, <3>1, <3>2, <3>3, Zenon
  <2> QED BY <2>1, <2>3, <1>5, CalmCases DEF Going
<1>10. CASE LeaseCAS(t)
  <2>1. thr[t].pc = "leaseCAS" /\ UNCHANGED <<hijacked, open>> BY <1>10 DEF LeaseCAS
  <2>2. \/ thr'[u] = thr[u]
        \/ thr'[u] = [Idle EXCEPT !.pc = "serving", !.gen = thr[t].gen, !.lease = TRUE]
        \/ u = t /\ thr'[u] = [thr[t] EXCEPT !.pc = "serving", !.worker = {}, !.seen = 0]
        \/ u = t /\ thr'[u] = [thr[t] EXCEPT !.pc = "leaseLoad", !.seen = 0]
        BY <1>10, <1>3, Zenon DEF LeaseCAS
  <2>3. \/ thr'[u] = thr[u] \/ thr'[u].hijack = "none"
        \/ /\ u = t /\ thr'[u].pc \in {"serving", "leaseLoad"}
           /\ thr'[u].hijack = thr[u].hijack /\ thr'[u].gen = thr[u].gen
    <3>1. CASE thr'[u] = [Idle EXCEPT !.pc = "serving", !.gen = thr[t].gen, !.lease = TRUE]
          BY <3>1 DEF Idle
    <3>2. CASE u = t /\ thr'[u] = [thr[t] EXCEPT !.pc = "serving", !.worker = {}, !.seen = 0]
          BY <3>2, <1>3 DEF ThreadType
    <3>3. CASE u = t /\ thr'[u] = [thr[t] EXCEPT !.pc = "leaseLoad", !.seen = 0] BY <3>3, <1>3 DEF ThreadType
    <3> QED BY <2>2, <3>1, <3>2, <3>3, Zenon
  <2> QED BY <2>1, <2>3, <1>5, CalmCases DEF Going
<1>11. CASE Hijack(t)
  <2>1. (thr'[u] = thr[u] /\ u # t) \/ thr'[u].hijack = "none"
        BY <1>11, <1>3 DEF Hijack, Goto, ThreadType
  <2> QED BY <2>1, <1>11, CalmCases DEF Hijack
<1>12. CASE Return(t)
  <2>1. thr'[u] = thr[u] \/ thr'[u].pc \in {"unregister", "release"}
        BY <1>12, <1>3 DEF Return, Goto, ThreadType
  <2> QED BY <2>1, <1>12, CalmCases DEF Return
<1>13. CASE Unregister(t)
  <2>1. (thr'[u] = thr[u] /\ u # t) \/ thr'[u].pc = "release"
        BY <1>13, <1>3 DEF Unregister, Goto, ThreadType
  <2>2. open' = open /\ \A g : u # t /\ u \in hijacked[g] /\ g \in Gens => u \in hijacked'[g]
        BY <1>13 DEF Unregister, IInv, TypeOK
  <2>3. \A v \in Threads : thr[v].pc \in Going => thr[v].gen \in Gens
        BY DEF IInv, ThreadsPlaced, Owning, Going
  <2>4. CASE thr'[u].pc = "release" BY <2>4, CalmCases
  <2>5. CASE thr'[u] = thr[u] /\ u # t
    <3>1. thr[u].pc \in Fresh => thr[u].hijack = "none" BY DEF HInv, MarksFresh
    <3> QED BY <2>2, <2>3, <2>5, <3>1, Zenon DEF Calm
  <2> QED BY <2>1, <2>4, <2>5
<1>14. CASE Release(t)
  <2>1. thr'[u] = thr[u] \/ thr'[u].pc = "drain" \/ thr'[u].hijack = "none"
        BY <1>14, <1>3 DEF Release, Goto, ThreadType, Idle
  <2> QED BY <2>1, <1>5, <1>14, CalmCases DEF Release
<1>15. CASE CloseDrained(t)
  <2>1. thr'[u] = thr[u] \/ thr'[u].hijack = "none" BY <1>15, <1>3 DEF CloseDrained, ThreadType, Idle
  <2> QED BY <2>1, <1>5, <1>15, CalmCases DEF CloseDrained
<1>16. ASSUME NEW w \in Threads, LeaseBegin(t, w) PROVE Calm(u)
  <2>1. thr[t].pc = "serving" /\ thr[w].pc = "idle" /\ t # w /\ UNCHANGED <<hijacked, open>>
        BY <1>16, Zenon DEF LeaseBegin
  <2>2. thr[w] \in ThreadType /\ thr[w].hijack = "none" BY <2>1, <1>3 DEF HInv, MarksFresh, Fresh
  <2>3. /\ thr'[t].pc = "leaseLoad" /\ thr'[t].hijack = thr[t].hijack /\ thr'[t].gen = thr[t].gen
        /\ thr'[w].hijack = thr[w].hijack
        /\ u # t /\ u # w => thr'[u] = thr[u]
        BY <1>16, <1>3, <2>1, <2>2, ZenonT(30) DEF LeaseBegin, ThreadType
  <2>4. CASE u = t BY <2>4, <2>1, <2>3, CalmCases DEF Going
  <2>5. CASE u = w BY <2>5, <2>2, <2>3, CalmCases
  <2> QED BY <2>1, <2>3, <2>4, <2>5, <1>5
<1> QED BY <1>6, <1>7, <1>8, <1>9, <1>10, <1>11, <1>12, <1>13, <1>14, <1>15, <1>16, Zenon

\* registerHijacked before it records the connection: it holds hijackMu of a
\* generation that is not retired, or it will close the connection.
LEMMA HInvRegisterCheck == ASSUME IInv, HInv, NEW t \in Threads, RegisterCheck(t) PROVE HInv'
<1>1. /\ thr[t] \in ThreadType /\ thr \in [Threads -> ThreadType]
      /\ thr[t].pc = "hijack" /\ thr[t].gen \in Gens /\ thr[t].gen \notin hijackMu
      /\ UNCHANGED <<pub, retired, hijacked, open>>
      BY DEF IInv, TypeOK, ThreadsPlaced, Owning, RegisterCheck, pubVars
<1>2. /\ thr'[t].pc = "register" /\ thr'[t].gen = thr[t].gen
      /\ \A u \in Threads \ {t} : thr'[u] = thr[u]
      BY <1>1 DEF RegisterCheck, ThreadType
<1>3. MarksFresh' BY SMTT(20), <1>2 DEF HInv, MarksFresh, Fresh
<1>4. OpenIsKnown' BY <1>1, <1>2 DEF HInv, OpenIsKnown, Going, Doomed
<1>5. \A u \in Threads \ {t} : Registering(u)' <=> Registering(u) BY <1>2 DEF Registering
<1>6. CASE retired[thr[t].gen]
  <2>1. hijackMu' = hijackMu /\ thr'[t].hijack = "refused" BY SMTT(20), <1>1, <1>6 DEF RegisterCheck, ThreadType
  <2>2. RegistersAlone' BY SMTT(20), <2>1, <1>2, <1>5 DEF HInv, RegistersAlone, Registering
  <2>3. LateIsAwaited' BY <2>1, <1>1, <1>2, <1>5 DEF HInv, LateIsAwaited, Awaited, Registering
  <2> QED BY <2>2, <2>3, <1>3, <1>4 DEF HInv
<1>7. CASE ~retired[thr[t].gen]
  <2>1. hijackMu' = hijackMu \cup {thr[t].gen} BY SMTT(20), <1>1, <1>7 DEF RegisterCheck
  <2>2. RegistersAlone' BY SMTT(20), <2>1, <1>1, <1>2, <1>5 DEF HInv, RegistersAlone
  <2>3. LateIsAwaited' BY <1>1, <1>2, <1>5, <1>7 DEF HInv, LateIsAwaited, Awaited
  <2> QED BY <2>2, <2>3, <1>3, <1>4 DEF HInv
<1> QED BY <1>6, <1>7

\* registerHijacked records the connection, and the publisher that has retired
\* the generation meanwhile has still to take the set; or it closes it.
LEMMA HInvRegisterHijacked == ASSUME IInv, HInv, NEW t \in Threads, RegisterHijacked(t) PROVE HInv'
<1>1. /\ thr[t] \in ThreadType /\ thr \in [Threads -> ThreadType] /\ hijacked \in [Gens -> SUBSET Threads]
      /\ thr[t].pc = "register" /\ thr[t].gen \in Gens
      /\ UNCHANGED <<pub, retired>>
      BY DEF IInv, TypeOK, ThreadsPlaced, Owning, RegisterHijacked, pubVars
<1>2. /\ thr'[t].pc = "serving" /\ thr'[t].gen = thr[t].gen /\ thr'[t].hijack = thr[t].hijack
      /\ \A u \in Threads \ {t} : thr'[u] = thr[u]
      BY <1>1 DEF RegisterHijacked, Goto, ThreadType
<1>3. MarksFresh' BY <1>2 DEF HInv, MarksFresh, Fresh
<1>4. CASE thr[t].hijack = "registered"
  <2>1. /\ hijacked' = [hijacked EXCEPT ![thr[t].gen] = @ \cup {t}]
        /\ hijackMu' = hijackMu \ {thr[t].gen} /\ open' = open
        BY SMTT(20), <1>4 DEF RegisterHijacked
  <2>2. ~Registering(t)' /\ Registering(t) /\ \A u \in Threads \ {t} : Registering(u)' <=> Registering(u)
        BY SMTT(20), <1>1, <1>2, <1>4 DEF Registering
  <2>3. RegistersAlone' BY SMTT(20), <2>1, <2>2, <1>2 DEF HInv, RegistersAlone
  <2>4. LateIsAwaited'
    <3>1. retired[thr[t].gen] => Awaited(thr[t].gen) BY <2>2 DEF HInv, LateIsAwaited
    <3> QED BY SMTT(20), <3>1, <2>1, <2>2, <1>1, <1>2 DEF HInv, LateIsAwaited, Awaited
  <2>5. OpenIsKnown'
    <3> SUFFICES ASSUME NEW u \in Threads, thr'[u].pc \in Going, thr'[u].hijack # "none", u \in open'
                 PROVE  u \in hijacked'[thr'[u].gen] \/ Doomed(u)'
        BY DEF OpenIsKnown
    <3>1. CASE u = t BY SMTT(20), <3>1, <2>1, <1>1, <1>2
    <3>2. CASE u # t
      <4>1. thr'[u] = thr[u] BY <3>2, <1>2
      <4>2. u \in hijacked[thr[u].gen] \/ Doomed(u) BY <4>1, <2>1 DEF HInv, OpenIsKnown
      <4>3. Doomed(u) => Doomed(u)' BY <4>1, <1>1 DEF Doomed
      <4>4. thr[u].gen \in Gens BY <4>1 DEF IInv, ThreadsPlaced, Owning, Going
      <4> QED BY <4>1, <4>2, <4>3, <4>4, <2>1, <1>1
    <3> QED BY <3>1, <3>2
  <2> QED BY <1>3, <2>3, <2>4, <2>5 DEF HInv
<1>5. CASE thr[t].hijack # "registered"
  <2>1. open' = open \ {t} /\ UNCHANGED <<hijacked, hijackMu>> BY SMTT(20), <1>5 DEF RegisterHijacked
  <2>2. \A u \in Threads : Calm(u)
        BY SMTT(20), <2>1, <1>1, <1>2 DEF Calm, Fresh, Going, HInv, MarksFresh
  <2> QED BY SMTT(20), <2>1, <2>2, <1>1, HInvCalm
<1> QED BY SMTT(20), <1>4, <1>5

\* A publisher that neither retires a generation nor takes or closes its
\* connections leaves the tunnels as they are.
LEMMA HInvQuietPublisher ==
    ASSUME IInv, HInv, UNCHANGED <<thr, retired, hijacked, open, hijackMu>>,
           \A p \in Publishers :
              \/ pub'[p] = pub[p]
              \/ /\ pub[p].pc # "closeHijacked"
                 /\ pub[p].pc = "closeConns" => pub[p].conns = {}
    PROVE  HInv'
<1>1. \A g : Awaited(g) => Awaited(g)' BY DEF Awaited
<1>2. \A t \in Threads : Doomed(t) => Doomed(t)' BY DEF Doomed
<1>3. \A t \in Threads : Registering(t)' <=> Registering(t) BY DEF Registering
<1>4. MarksFresh' BY SMTT(20) DEF HInv, MarksFresh
<1>5. RegistersAlone' BY SMTT(20), <1>3 DEF HInv, RegistersAlone
<1>6. LateIsAwaited' BY SMTT(20), <1>1, <1>3 DEF HInv, LateIsAwaited
<1>7. OpenIsKnown' BY <1>2 DEF HInv, OpenIsKnown
<1> QED BY SMTT(20), <1>4, <1>5, <1>6, <1>7 DEF HInv

\* The publisher that sets the retired bit has still to take the connections.
LEMMA HInvRetireCAS == ASSUME IInv, HInv, NEW p \in Publishers, RetireCAS(p) PROVE HInv'
<1>1. /\ pub \in [Publishers -> PubType] /\ pub[p] \in PubType /\ pub[p].gen \in Gens /\ pub[p].pc = "cas"
      /\ retired \in [Gens -> BOOLEAN] /\ UNCHANGED <<thr, hijacked, open, hijackMu>>
      BY DEF IInv, TypeOK, PublishersPlaced, RetireCAS
<1>2. CASE ~WordUnchanged(pub[p].gen, pub[p].seen)
  <2>1. retired' = retired /\ \A q \in Publishers : pub'[q] = pub[q] \/ q = p
        BY SMTT(20), <1>1, <1>2 DEF RetireCAS
  <2> QED BY <1>1, <2>1, HInvQuietPublisher
<1>3. CASE WordUnchanged(pub[p].gen, pub[p].seen)
  <2>1. /\ retired' = [retired EXCEPT ![pub[p].gen] = TRUE]
        /\ pub'[p].pc = "closeHijacked" /\ pub'[p].gen = pub[p].gen
        /\ \A q \in Publishers \ {p} : pub'[q] = pub[q]
        BY SMTT(20), <1>1, <1>3 DEF RetireCAS, PubType
  <2>2. \A g : Awaited(g) => Awaited(g)' BY <1>1, <2>1 DEF Awaited
  <2>3. Awaited(pub[p].gen)' BY SMTT(20), <2>1 DEF Awaited
  <2>4. \A t \in Threads : Doomed(t) => Doomed(t)' BY <1>1, <2>1 DEF Doomed
  <2>5. \A t \in Threads : Registering(t)' <=> Registering(t) BY <1>1 DEF Registering
  <2>6. \A g : retired'[g] => retired[g] \/ g = pub[p].gen \/ g \notin Gens BY <1>1, <2>1
  <2>7. \A t \in Threads : Registering(t) => thr[t].gen \in Gens
        BY SMTT(20) DEF Registering, IInv, ThreadsPlaced, Owning
  <2>8. LateIsAwaited'
    <3>1. ASSUME NEW t \in Threads, Registering(t), retired'[thr[t].gen]
          PROVE  \E q \in Publishers : pub'[q].gen = thr[t].gen /\ pub'[q].pc = "closeHijacked"
      <4>1. CASE retired[thr[t].gen]
        <5>1. PICK q \in Publishers : pub[q].gen = thr[t].gen /\ pub[q].pc = "closeHijacked"
              BY <4>1, <3>1 DEF HInv, LateIsAwaited, Awaited
        <5>2. q # p BY SMTT(20), <5>1, <1>1
        <5> QED BY SMTT(20), <5>1, <5>2, <2>1
      <4>2. CASE thr[t].gen = pub[p].gen BY <4>2, <2>1
      <4> QED BY <4>1, <4>2, <3>1, <2>6, <2>7
    <3>2. ASSUME NEW g \in Gens, retired'[g], hijacked[g] # {} PROVE Awaited(g)'
      <4>1. CASE retired[g] BY SMTT(20), <4>1, <3>2, <2>2 DEF HInv, LateIsAwaited
      <4>2. CASE g = pub[p].gen BY SMTT(20), <4>2, <2>1 DEF Awaited
      <4> QED BY SMTT(20), <4>1, <4>2, <3>2, <2>6
    <3> QED BY SMTT(20), <3>1, <3>2, <1>1, <2>5 DEF LateIsAwaited, Awaited
  <2> QED BY <1>1, <2>4, <2>5, <2>8 DEF HInv, MarksFresh, RegistersAlone, OpenIsKnown
<1> QED BY <1>2, <1>3

\* closeHijacked takes the whole set, and no registration is under way: every
\* recorded connection is now the publisher's to close.
LEMMA HInvCloseHijacked == ASSUME IInv, HInv, NEW p \in Publishers, CloseHijacked(p) PROVE HInv'
<1> DEFINE g == pub[p].gen
<1>1. /\ pub \in [Publishers -> PubType] /\ pub[p] \in PubType /\ g \in Gens /\ pub[p].pc = "closeHijacked"
      /\ hijacked \in [Gens -> SUBSET Threads] /\ g \notin hijackMu
      /\ UNCHANGED <<thr, retired, open, hijackMu>>
      BY DEF IInv, TypeOK, PublishersPlaced, CloseHijacked
<1>2. /\ pub'[p].pc = "closeConns" /\ pub'[p].gen = g /\ pub'[p].conns = hijacked[g]
      /\ \A q \in Publishers \ {p} : pub'[q] = pub[q]
      /\ hijacked' = [hijacked EXCEPT ![g] = {}]
      BY <1>1 DEF CloseHijacked, PubType
<1> HIDE DEF g
<1>3. \A t \in Threads : Registering(t)' <=> Registering(t) BY <1>1 DEF Registering
<1>4. \A t \in Threads : Registering(t) => thr[t].gen # g BY SMTT(20), <1>1 DEF HInv, RegistersAlone
<1>5. \A h : h # g /\ Awaited(h) => Awaited(h)' BY SMTT(20), <1>2 DEF Awaited, g
<1>6. LateIsAwaited'
  <2>1. ASSUME NEW t \in Threads, Registering(t), retired[thr[t].gen]
        PROVE  \E q \in Publishers : pub'[q].gen = thr[t].gen /\ pub'[q].pc = "closeHijacked"
        BY SMTT(20), <2>1, <1>4, <1>5 DEF HInv, LateIsAwaited, Awaited
  <2>2. \A h \in Gens : retired'[h] /\ hijacked'[h] # {} => Awaited(h)'
        BY SMTT(20), <1>1, <1>2, <1>5 DEF HInv, LateIsAwaited
  <2> QED BY SMTT(20), <2>1, <2>2, <1>1, <1>3 DEF LateIsAwaited, Awaited
<1>7. OpenIsKnown'
  <2> SUFFICES ASSUME NEW t \in Threads, thr[t].pc \in Going, thr[t].hijack # "none", t \in open
               PROVE  t \in hijacked'[thr[t].gen] \/ Doomed(t)'
      BY <1>1 DEF OpenIsKnown
  <2>1. t \in hijacked[thr[t].gen] \/ Doomed(t) BY DEF HInv, OpenIsKnown
  <2>2. thr[t].gen \in Gens BY SMTT(20) DEF IInv, ThreadsPlaced, Owning, Going
  <2>3. Doomed(t) => Doomed(t)' BY SMTT(20), <1>1, <1>2 DEF Doomed
  <2>4. CASE t \in hijacked[thr[t].gen] /\ thr[t].gen = g BY SMTT(20), <2>4, <1>1, <1>2 DEF Doomed
  <2>5. CASE t \in hijacked[thr[t].gen] /\ thr[t].gen # g BY SMTT(20), <2>5, <2>2, <1>1, <1>2
  <2> QED BY SMTT(20), <2>1, <2>3, <2>4, <2>5
<1> QED BY <1>1, <1>3, <1>6, <1>7 DEF HInv, MarksFresh, RegistersAlone

\* A connection leaves the publisher's list when it is closed.
LEMMA HInvCloseConnection == ASSUME IInv, HInv, NEW p \in Publishers, CloseConnection(p) PROVE HInv'
<1>1. /\ pub \in [Publishers -> PubType] /\ pub[p] \in PubType /\ pub[p].pc = "closeConns"
      /\ UNCHANGED <<thr, retired, hijacked, hijackMu>>
      BY DEF IInv, TypeOK, CloseConnection
<1>2. PICK c \in pub[p].conns : open' = open \ {c} /\ pub' = [pub EXCEPT ![p].conns = @ \ {c}]
      BY Zenon DEF CloseConnection
<1>3. /\ pub'[p].pc = pub[p].pc /\ pub'[p].gen = pub[p].gen /\ pub'[p].conns = pub[p].conns \ {c}
      /\ \A q \in Publishers \ {p} : pub'[q] = pub[q]
      BY SMTT(20), <1>1, <1>2 DEF PubType
<1>4. \A g : Awaited(g) => Awaited(g)' BY SMTT(20), <1>1, <1>3 DEF Awaited
<1>5. \A t \in Threads : t # c /\ Doomed(t) => Doomed(t)' BY <1>1, <1>3 DEF Doomed
<1>6. \A t \in Threads : Registering(t)' <=> Registering(t) BY SMTT(20), <1>1 DEF Registering
<1>7. LateIsAwaited' BY <1>1, <1>4, <1>6 DEF HInv, LateIsAwaited
<1>8. OpenIsKnown' BY SMTT(20), <1>1, <1>2, <1>5 DEF HInv, OpenIsKnown
<1> QED BY <1>1, <1>6, <1>7, <1>8 DEF HInv, MarksFresh, RegistersAlone

\* Every step keeps the tunnels accounted for.
LEMMA HInvStep == IInv /\ HInv /\ [Next]_vars => HInv'
<1> SUFFICES ASSUME IInv, HInv, [Next]_vars PROVE HInv' OBVIOUS
<1>1. CASE UNCHANGED vars BY SMTT(20), <1>1, HInvQuietPublisher DEF vars
<1>2. ASSUME NEW t \in Threads, ThreadStep(t) PROVE HInv'
      BY <1>2, <1>1, HInvQuiet, HInvRegisterCheck, HInvRegisterHijacked DEF ThreadStep, ServeUnavailable
<1>3. CASE ReplaceSwap
  <2>1. \A p \in Publishers : pub'[p] = pub[p] \/ (p = "reload" /\ pub[p].pc = "idle")
        BY <1>3 DEF ReplaceSwap, IInv, TypeOK
  <2> QED BY <2>1, <1>3, HInvQuietPublisher DEF ReplaceSwap
<1>4. CASE CloseSwap
  <2>1. \A p \in Publishers : pub'[p] = pub[p] \/ (p = "close" /\ pub[p].pc = "idle")
        BY SMTT(20), <1>4 DEF CloseSwap, IInv, TypeOK
  <2> QED BY <2>1, <1>4, HInvQuietPublisher DEF CloseSwap
<1>5. ASSUME NEW p \in Publishers, RetireLoad(p) \/ RetireDrained(p) \/ Unlock(p) \/ SyncStopped(p) PROVE HInv'
  <2>1. /\ UNCHANGED <<thr, retired, hijacked, open, hijackMu>>
        /\ pub[p].pc # "closeHijacked" /\ (pub[p].pc = "closeConns" => pub[p].conns = {})
        /\ \A q \in Publishers \ {p} : pub'[q] = pub[q]
        BY <1>5 DEF RetireLoad, RetireDrained, Unlock, SyncStopped, IInv, TypeOK
  <2> QED BY <2>1, HInvQuietPublisher
<1>6. ASSUME NEW g \in Gens, StopRouteSet(g) PROVE HInv' BY <1>6, HInvQuietPublisher DEF StopRouteSet
<1> QED BY SMTT(20), <1>1, <1>2, <1>3, <1>4, <1>5, <1>6, HInvRetireCAS, HInvCloseHijacked, HInvCloseConnection
        DEF Next, RetireStep

-----------------------------------------------------------------------------
\* However requests, hijacks, Replace and Close interleave, the pointer a request
\* loads is nil only when the handler is closed and never stays on a retired
\* generation, and once retireRouteSet has returned no handler of the retired
\* generation goes on with an open tunnel.
THEOREM Publication == Spec => []PublicationRight
<1>1. IInv /\ PInv /\ HInv => PublicationRight
  <2> SUFFICES ASSUME IInv, PInv, HInv PROVE PublicationRight OBVIOUS
  <2>1. CurrentServable BY DEF PInv, CurrentLive, CurrentServable
  <2>2. TunnelsClosed
    <3> SUFFICES ASSUME NEW t \in Threads, thr[t].pc = "serving", thr[t].hijack # "none",
                        retired[thr[t].gen], t \in open
                 PROVE  Retiring(thr[t].gen)
        BY DEF TunnelsClosed
    <3>1. thr[t].gen \in Gens BY SMTT(20) DEF IInv, ThreadsPlaced, Owning
    <3>2. t \in hijacked[thr[t].gen] \/ Doomed(t) BY SMTT(20) DEF HInv, OpenIsKnown, Going
    <3>3. CASE t \in hijacked[thr[t].gen] BY <3>1, <3>3 DEF HInv, LateIsAwaited, Awaited, Retiring
    <3>4. CASE Doomed(t) BY <3>4 DEF Doomed, Retiring
    <3> QED BY SMTT(20), <3>2, <3>3, <3>4
  <2> QED BY <2>1, <2>2 DEF PublicationRight, IInv
<1> QED BY <1>1, Invariance, PInvInit, PInvStep, HInvInit, HInvStep, PTL DEF Spec

=============================================================================
