----------------------------- MODULE ConfigStore -----------------------------
(***************************************************************************)
(* The store's event loop (pkg/store store.go, event.go): producers hand   *)
(* acknowledged batches, plain events and Sync barriers to one processor   *)
(* over an unbuffered channel; the processor validates, writes one bbolt   *)
(* transaction, rebuilds the consumer index and runs the publication       *)
(* hooks, then hands the result back and recycles the pooled event.  A     *)
(* waiter may give up at any time, the process may crash between any two   *)
(* steps, and Stop may arrive while producers are blocked.                 *)
(***************************************************************************)
EXTENDS StoreBatch

CONSTANT Producers

VARIABLES
  db,       \* the bbolt file: one row per resource, survives a crash
  index,    \* consumerToKeys
  pub,      \* rows of Others that the update hooks last published
  proc,     \* the processEvents goroutine and the event it holds
  prod,     \* per producer: where it is, its event, and what it was told
  pending,  \* pendingUnacknowledged # nil
  life      \* started, stopped and the progress of Stop

vars == <<db, index, pub, proc, prod, pending, life>>
storeVars == <<db, index, pub, pending, life>>

EmptyTable == [r \in Resources |-> None]
NoBatch == Batch(<<>>, FALSE, {})
NoEvent == [kind |-> "none", batch |-> NoBatch]

\* Results a producer may be given.
Results == {"none", "ok", "rejected", "error", "cancelled", "stopped", "unstarted", "unacknowledged"}

IdleProc == [pc |-> "receive", from |-> "none", event |-> NoEvent,
             result |-> "ok", rejected |-> {}, waitDone |-> FALSE]
IdleProd == [pc |-> "idle", event |-> NoEvent, out |-> "none", rejected |-> {}]

OthersOf(table) == [r \in Others |-> table[r]]

\* Open on a new file.
Init ==
  /\ db = EmptyTable
  /\ index = ConsumerToKeys(EmptyTable)
  /\ pub = OthersOf(EmptyTable)
  /\ proc = IdleProc
  /\ prod = [p \in Producers |-> IdleProd]
  /\ pending = FALSE
  /\ life = [started |-> FALSE, stopped |-> FALSE, stop |-> "none"]

----------------------------------------------------------------------------
(* Producers *)

\* The lifecycle read lock that Sync holds until its barrier is answered.
HoldsReadLock(p) ==
  prod[p].event.kind = "barrier" /\ prod[p].pc \in {"sending", "sent", "waiting"}

\* A producer offers an acknowledged batch or a plain event on the channel.
Send(p, kind, batch) ==
  /\ prod[p].pc = "idle"
  /\ kind \in {"batch", "event"}
  /\ prod' = [prod EXCEPT ![p] =
       [IdleProd EXCEPT !.pc = "sending", !.event = [kind |-> kind, batch |-> batch]]]
  /\ UNCHANGED <<db, index, pub, proc, pending, life>>

\* sendBatch, enqueueAndWait: the context ends before the channel accepts.
CancelSend(p) ==
  /\ prod[p].pc = "sending" /\ prod[p].event.kind = "batch"
  /\ prod' = [prod EXCEPT ![p] = [IdleProd EXCEPT !.out = "cancelled"]]
  /\ UNCHANGED <<db, index, pub, proc, pending, life>>

\* Sync takes the read lock (a pending Stop bars new readers), looks at
\* stopped and started, and offers its barrier.
Sync(p) ==
  /\ prod[p].pc = "idle"
  /\ life.stop # "locking"
  /\ prod' = [prod EXCEPT ![p] =
       IF life.stopped THEN [IdleProd EXCEPT !.out = "stopped"]
       ELSE IF ~life.started THEN [IdleProd EXCEPT !.out = "unstarted"]
       ELSE [IdleProd EXCEPT !.pc = "sending",
                             !.event = [kind |-> "barrier", batch |-> NoBatch]]]
  /\ UNCHANGED <<db, index, pub, proc, pending, life>>

\* Event.Wait copies the channels of its event and starts to wait.  An event
\* already recycled by the processor has none.
BeginWait(p) ==
  /\ prod[p].pc = "sent"
  /\ prod' = [prod EXCEPT ![p] =
       IF proc.from = p THEN [@ EXCEPT !.pc = "waiting"]
       ELSE [IdleProd EXCEPT !.out = "unacknowledged"]]
  /\ UNCHANGED <<db, index, pub, proc, pending, life>>

\* Wait receives the result and closes waitDone.
WaitResult(p) ==
  /\ prod[p].pc = "waiting"
  /\ proc.from = p /\ proc.pc = "replied"
  /\ prod' = [prod EXCEPT ![p] = [IdleProd EXCEPT !.out = proc.result,
                                                  !.rejected = proc.rejected]]
  /\ proc' = [proc EXCEPT !.waitDone = TRUE]
  /\ UNCHANGED storeVars

\* The waiter's context ends first; waitDone is closed all the same.
WaitCancelled_KeepsOpen(p) ==
  /\ prod[p].pc = "waiting" /\ prod[p].event.kind = "batch"
  /\ prod' = [prod EXCEPT ![p] = [IdleProd EXCEPT !.out = "cancelled"]]
  /\ UNCHANGED <<proc, storeVars>>

WaitCancelled(p) ==
  /\ prod[p].pc = "waiting" /\ prod[p].event.kind = "batch"
  /\ prod' = [prod EXCEPT ![p] = [IdleProd EXCEPT !.out = "cancelled"]]
  /\ proc' = [proc EXCEPT !.waitDone = TRUE]
  /\ UNCHANGED storeVars

----------------------------------------------------------------------------
(* The processor *)

Start ==
  /\ ~life.started /\ ~life.stopped
  /\ life' = [life EXCEPT !.started = TRUE]
  /\ UNCHANGED <<db, index, pub, proc, prod, pending>>

\* The channel hands over an event.
Receive(p) ==
  /\ life.started /\ proc.pc = "receive"
  /\ prod[p].pc = "sending"
  /\ prod' = [prod EXCEPT ![p] = IF prod[p].event.kind = "event" THEN IdleProd
                                 ELSE [prod[p] EXCEPT !.pc = "sent"]]
  /\ proc' = [IdleProc EXCEPT !.pc = IF prod[p].event.kind = "barrier" THEN "barrier" ELSE "process",
                              !.from = p,
                              !.event = prod[p].event]
  /\ UNCHANGED storeVars

\* A barrier is answered with the errors of the plain events before it.
Barrier ==
  /\ proc.pc = "barrier"
  /\ proc' = [proc EXCEPT !.pc = "replied", !.result = IF pending THEN "error" ELSE "ok"]
  /\ pending' = FALSE
  /\ UNCHANGED <<db, index, pub, prod, life>>

Reply(result, rejected) ==
  proc' = [proc EXCEPT !.pc = "replied", !.result = result, !.rejected = rejected]

\* processMutations refuses the whole batch when a mutation is invalid.
Reject ==
  /\ proc.pc = "process"
  /\ Rejected(index, proc.event.batch) # {}
  /\ Reply("rejected", Rejected(index, proc.event.batch))
  /\ UNCHANGED <<prod, storeVars>>

\* The bbolt transaction fails and is rolled back.
TransactionFails ==
  /\ proc.pc = "process"
  /\ Rejected(index, proc.event.batch) = {}
  /\ Reply("error", {})
  /\ UNCHANGED <<prod, storeVars>>

Write_Unchecked ==
  /\ proc.pc = "process"
  /\ Malformed(proc.event.batch.muts) = {}
  /\ db' = Commit(db, proc.event.batch)
  /\ proc' = [proc EXCEPT !.pc = "derive"]
  /\ UNCHANGED <<index, pub, prod, pending, life>>

Write ==
  /\ proc.pc = "process"
  /\ Rejected(index, proc.event.batch) = {}
  /\ db' = Commit(db, proc.event.batch)
  /\ proc' = [proc EXCEPT !.pc = "derive"]
  /\ UNCHANGED <<index, pub, prod, pending, life>>

Touches(batch, set) == batch.replace \/ \E i \in DOMAIN batch.muts : batch.muts[i].res \in set

\* Derived indexes follow the durable write; a failing rebuild skips the hooks.
Derive_OnReplaceOnly ==
  /\ proc.pc = "derive"
  /\ index' = IF proc.event.batch.replace THEN ConsumerToKeys(db) ELSE index
  /\ proc' = [proc EXCEPT !.pc = "hooks"]
  /\ UNCHANGED <<db, pub, prod, pending, life>>

Derive ==
  /\ proc.pc = "derive"
  /\ IF ~Touches(proc.event.batch, Consumers)
       THEN proc' = [proc EXCEPT !.pc = "hooks"] /\ index' = index
     ELSE IF RebuildFails(db)
       THEN Reply("error", {}) /\ index' = index
     ELSE index' = ConsumerToKeys(db) /\ proc' = [proc EXCEPT !.pc = "hooks"]
  /\ UNCHANGED <<db, pub, prod, pending, life>>

\* triggerBatchUpdateHooks publishes what the file holds now, or fails and
\* leaves the published generation.
Hooks_IgnoresFailure ==
  /\ proc.pc = "hooks"
  /\ \/ pub' = OthersOf(db)
     \/ pub' = pub
  /\ Reply("ok", {})
  /\ UNCHANGED <<db, index, prod, pending, life>>

Hooks ==
  /\ proc.pc = "hooks"
  /\ \/ ~Touches(proc.event.batch, Others) /\ pub' = pub /\ Reply("ok", {})
     \/ Touches(proc.event.batch, Others) /\ pub' = OthersOf(db) /\ Reply("ok", {})
     \/ Touches(proc.event.batch, Others) /\ pub' = pub /\ Reply("error", {})
  /\ UNCHANGED <<db, index, prod, pending, life>>

Complete ==
  /\ proc.pc = "replied"
  /\ proc.event.kind = "event" \/ proc.waitDone
  /\ proc' = IdleProc
  /\ pending' = (pending \/ (proc.event.kind = "event" /\ proc.result # "ok"))
  /\ UNCHANGED <<db, index, pub, prod, life>>

----------------------------------------------------------------------------
(* Stop and restart *)

StopLock ==
  /\ life.stop = "none"
  /\ life' = [life EXCEPT !.stop = "locking"]
  /\ UNCHANGED <<db, index, pub, proc, prod, pending>>

\* The write lock is granted: stopped is set and stopProducers closed.
StopSignal ==
  /\ life.stop = "locking"
  /\ \A p \in Producers : ~HoldsReadLock(p)
  /\ life' = [life EXCEPT !.stop = "signalled", !.stopped = TRUE]
  /\ UNCHANGED <<db, index, pub, proc, prod, pending>>

\* The processor sees stopProducers between two events.
Exit ==
  /\ life.started /\ life.stopped
  /\ proc.pc = "receive"
  /\ proc' = [proc EXCEPT !.pc = "exited"]
  /\ UNCHANGED <<prod, storeVars>>

StopClose ==
  /\ life.stop = "signalled"
  /\ life.started => proc.pc = "exited"
  /\ life' = [life EXCEPT !.stop = "closed"]
  /\ UNCHANGED <<db, index, pub, proc, prod, pending>>

\* The process dies, or ends after Stop, and Open reads the file again.
Restart ==
  /\ ~RebuildFails(db)
  /\ index' = ConsumerToKeys(db)
  /\ pub' = OthersOf(EmptyTable)
  /\ proc' = IdleProc
  /\ prod' = [p \in Producers |-> IdleProd]
  /\ pending' = FALSE
  /\ life' = [started |-> FALSE, stopped |-> FALSE, stop |-> "none"]
  /\ db' = db

StoreNext ==
  \/ Start \/ Barrier \/ Reject \/ TransactionFails \/ Write \/ Derive \/ Hooks
  \/ Complete \/ StopLock \/ StopSignal \/ Exit \/ StopClose
  \/ \E p \in Producers : Receive(p)

----------------------------------------------------------------------------
(* Properties *)

\* The variables of the store, the processor and the producers keep their types.
TypeOK ==
  /\ IsTable(db)
  /\ index \in [Consumers -> SUBSET Keys]
  /\ DOMAIN pub = Others /\ \A r \in Others : IsRow(pub[r])
  /\ proc.pc \in {"receive", "barrier", "process", "derive", "hooks", "replied", "exited"}
  /\ proc.result \in Results /\ proc.waitDone \in BOOLEAN
  /\ IsBatch(proc.event.batch)
  /\ \A p \in Producers :
       /\ prod[p].pc \in {"idle", "sending", "sent", "waiting"}
       /\ prod[p].out \in Results
       /\ IsBatch(prod[p].event.batch)
  /\ pending \in BOOLEAN
  /\ life.stop \in {"none", "locking", "signalled", "closed"}

\* No sequence of batches, cancelled waits or crashes leaves two persisted
\* consumers with the same key: the index can always be rebuilt, so neither
\* the rebuild after a commit nor Open after a crash fails.
KeysUnique == ~RebuildFails(db)

\* Except between the commit and the rebuild, the lookup index is the one the
\* persisted consumers define.
IndexFresh == proc.pc # "derive" => index = ConsumerToKeys(db)

\* A waiter always finds the channels of its event: the processor never
\* recycles an acknowledged event that its producer has still to wait on.
WaiterKeepsEvent == \A p \in Producers : prod[p].out # "unacknowledged"

\* The file is open for as long as a processor runs, also when Start and Stop
\* race.
OpenWhileProcessing == life.stop = "closed" => (life.started => proc.pc = "exited")

\* What the batch asks for is what the table holds.
Applied(table, b) == table = Commit(table, b)

\* An acknowledged success means the batch is durable, indexed and published
\* at the moment the producer learns of it.
AckedIsApplied ==
  [][\A p \in Producers :
       (prod[p].pc = "waiting" /\ prod[p].event.kind = "batch"
          /\ prod'[p].pc = "idle" /\ prod'[p].out = "ok")
         => /\ Applied(db, prod[p].event.batch)
            /\ index = ConsumerToKeys(db)
            /\ Touches(prod[p].event.batch, Others) => pub = OthersOf(db)]_vars

\* The store refines its contract: the file only ever moves from one valid
\* table to the next by one whole batch.
Contract == INSTANCE StoreContract WITH
  table <- db,
  offered <- IF proc.pc = "process" THEN <<proc.event.batch>> ELSE <<>>

ImplementsContract == Contract!Spec

\* Every batch sender and every Sync on a started store returns, also when
\* Stop arrives while it is blocked.
EveryCallReturns ==
  \A p \in Producers :
    (prod[p].pc # "idle" /\ prod[p].event.kind # "event" /\ life.started) ~> (prod[p].pc = "idle")

\* Stop, once called, closes the file.
StopReturns == (life.stop = "locking") ~> (life.stop \in {"closed", "none"})

\* The persisted consumers and the index of their keys are consistent, and no
\* waiter or processor loses what it works on.
StoreConsistent == TypeOK /\ KeysUnique /\ IndexFresh /\ WaiterKeepsEvent /\ OpenWhileProcessing

\* Producers and Stop return.
CallsReturn == EveryCallReturns /\ StopReturns

=============================================================================
