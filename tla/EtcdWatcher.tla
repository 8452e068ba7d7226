----------------------------- MODULE EtcdWatcher -----------------------------
(***************************************************************************)
(* The etcd configuration client (pkg/etcd watcher.go) in front of the     *)
(* store: the initial FetchAll, the watch loop, snapshot recovery, the     *)
(* pruned retry and the quarantine of rejected resources.  The watcher is  *)
(* the one producer of the store.  etcd is a log of puts and deletes whose *)
(* n-th entry has revision n; a watch response carries a run of entries    *)
(* that starts after the watched revision, and its header does not run     *)
(* ahead of what it carries.                                               *)
(***************************************************************************)
EXTENDS ConfigStore, SequencesExt

CONSTANTS
  Writes,        \* the mutations an administrator may make, versions aside
  MaxRevision,   \* bound on the revisions of etcd
  MaxFaults,     \* bound on failures, timeouts and restarts
  W              \* the watcher, the only producer that sends here

ASSUME WatcherProduces == W \in Producers

VARIABLES
  log,      \* etcd: the mutations, by revision
  cl,       \* the ConfigClient and the goroutine that runs it
  top,      \* history: the newest version of each resource the file has held
  faults    \* failures so far

watchVars == <<log, cl, top, faults>>
allVars == <<vars, watchVars>>

\* What etcd holds at a revision.
EtcdAt(n) == Commit(EmptyTable, Batch(SubSeq(log, 1, n), FALSE, {}))

NoResponse == [kind |-> "none", header |-> 0, cands |-> <<>>]

NewClient == [pc |-> "fetch", lastRevision |-> 0,
              quarantine |-> [r \in Resources |-> 0],
              response |-> NoResponse, batch |-> NoBatch, rejected |-> {}]

WatchInit ==
  /\ db = EmptyTable /\ index = ConsumerToKeys(EmptyTable) /\ pub = OthersOf(EmptyTable)
  /\ proc = IdleProc /\ prod = [p \in Producers |-> IdleProd] /\ pending = FALSE
  /\ life = [started |-> TRUE, stopped |-> FALSE, stop |-> "none"]
  /\ log = <<>>
  /\ cl = NewClient
  /\ top = [r \in Resources |-> 0]
  /\ faults = 0

Fault == faults < MaxFaults /\ faults' = faults + 1

----------------------------------------------------------------------------
(* etcd *)

\* A put, or a delete of a key that is there.
EtcdWrite ==
  /\ Len(log) < MaxRevision
  /\ \E m \in Writes :
       /\ m.row = None => EtcdAt(Len(log))[m.res] # None
       /\ log' = Append(log, IF m.row = None THEN m
                             ELSE [m EXCEPT !.row.ver = Len(log) + 1])
  /\ UNCHANGED <<vars, cl, top, faults>>

----------------------------------------------------------------------------
(* The client *)

\* The puts of a snapshot, in key order.
SnapshotCandidates(n) ==
  LET present == {r \in Resources : EtcdAt(n)[r] # None} IN
    LET keys == SetToSeq(present) IN
      [i \in DOMAIN keys |-> Mutation(keys[i], EtcdAt(n)[keys[i]])]

LoadSnapshot_Stale ==
  /\ cl.pc \in {"fetch", "recover"}
  /\ \E n \in 0..Len(log) :
       LET cands == SnapshotCandidates(n) IN
         cl' = [cl EXCEPT !.pc = "send",
                          !.response = [kind |-> IF cl.pc = "fetch" THEN "fetch" ELSE "recover",
                                        header |-> n, cands |-> cands],
                          !.batch = Batch(cands, TRUE, {}),
                          !.rejected = {}]
  /\ UNCHANGED <<vars, log, top, faults>>

\* FetchAllContext and recoverSnapshot load everything under the prefix.
LoadSnapshot ==
  /\ cl.pc \in {"fetch", "recover"}
  /\ LET cands == SnapshotCandidates(Len(log)) IN
       cl' = [cl EXCEPT !.pc = "send",
                        !.response = [kind |-> IF cl.pc = "fetch" THEN "fetch" ELSE "recover",
                                      header |-> Len(log), cands |-> cands],
                        !.batch = Batch(cands, TRUE, {}),
                        !.rejected = {}]
  /\ UNCHANGED <<vars, log, top, faults>>

\* A watch response from lastRevision + 1 on.
WatchResponse ==
  /\ cl.pc = "watch"
  /\ \E n \in cl.lastRevision + 1 .. Len(log) :
       LET cands == SubSeq(log, cl.lastRevision + 1, n) IN
         cl' = [cl EXCEPT !.pc = "send",
                          !.response = [kind |-> "watch", header |-> n, cands |-> cands],
                          !.batch = Batch(cands, FALSE, {}),
                          !.rejected = {}]
  /\ UNCHANGED <<vars, log, top, faults>>

\* The stream ends or reports an error, compaction included.
StreamFails ==
  /\ cl.pc = "watch"
  /\ Fault
  /\ cl' = [cl EXCEPT !.pc = "recover"]
  /\ UNCHANGED <<vars, log, top>>

SendBatch ==
  /\ cl.pc = "send"
  /\ Send(W, "batch", cl.batch)
  /\ cl' = [cl EXCEPT !.pc = "await"]
  /\ UNCHANGED <<log, top, faults>>

\* recoverSnapshot and FetchAllContext bound the local phase; the watch loop
\* waits for as long as the store takes.
ApplyTimeout ==
  /\ cl.response.kind # "watch"
  /\ Fault
  /\ CancelSend(W) \/ WaitCancelled(W)
  /\ UNCHANGED <<log, cl, top>>

Answered(out) == cl.pc = "await" /\ prod[W].pc = "idle" /\ prod[W].out = out

TakeAnswer == prod' = [prod EXCEPT ![W] = IdleProd] /\ UNCHANGED <<db, index, pub, proc, pending, life>>

\* applyMutationBatch excludes what the store rejected and sends the rest.
RetryPruned ==
  /\ Answered("rejected") /\ cl.rejected = {}
  /\ cl' = [cl EXCEPT !.pc = "send", !.rejected = prod[W].rejected,
                      !.batch = Prune(cl.batch, prod[W].rejected)]
  /\ TakeAnswer
  /\ UNCHANGED <<log, top, faults>>

ApplyFails_Returns ==
  /\ Answered("error") \/ Answered("cancelled")
       \/ (Answered("rejected") /\ cl.rejected # {})
  /\ cl' = [cl EXCEPT !.pc = "returned"]
  /\ TakeAnswer
  /\ UNCHANGED <<log, top, faults>>

ApplyFails ==
  /\ Answered("error") \/ Answered("cancelled")
       \/ (Answered("rejected") /\ cl.rejected # {})
  /\ cl' = IF cl.response.kind = "fetch" THEN NewClient
           ELSE [cl EXCEPT !.pc = "recover", !.response = NoResponse,
                           !.batch = NoBatch, !.rejected = {}]
  /\ TakeAnswer
  /\ UNCHANGED <<log, top, faults>>

Revision(response, i) ==
  IF response.cands[i].row = None
    THEN response.header - Len(response.cands) + i
    ELSE response.cands[i].row.ver

\* recordQuarantine for a rejected candidate, clearQuarantine for the others,
\* in candidate order; a snapshot first clears the keys that are gone.
QuarantineStep(q, i) ==
  LET r   == cl.response.cands[i].res
      rev == Revision(cl.response, i) IN
    IF i \in cl.rejected
      THEN [q EXCEPT ![r] = IF rev >= @ THEN rev ELSE @]
      ELSE [q EXCEPT ![r] = IF rev >= @ THEN 0 ELSE @]

ClearGone_Never(q) == q

ClearGone(q) ==
  [r \in Resources |->
     IF /\ cl.response.kind # "watch"
        /\ \A i \in DOMAIN cl.response.cands : cl.response.cands[i].res # r
        /\ cl.response.header >= q[r]
       THEN 0 ELSE q[r]]

NextQuarantine ==
  FoldLeft(QuarantineStep, ClearGone(cl.quarantine), [i \in DOMAIN cl.response.cands |-> i])

\* applySnapshot and applyWatchResponse commit their state after the store has
\* acknowledged the batch.
ApplySucceeds ==
  /\ Answered("ok")
  /\ cl' = [NewClient EXCEPT !.pc = "watch",
                             !.lastRevision = Max({cl.lastRevision, cl.response.header}),
                             !.quarantine = NextQuarantine]
  /\ TakeAnswer
  /\ UNCHANGED <<log, top, faults>>

----------------------------------------------------------------------------
(* The store, and a crash of the whole process *)

StoreStep ==
  /\ \/ Reject \/ Derive \/ Complete \/ Receive(W) \/ BeginWait(W) \/ WaitResult(W)
     \/ Hooks /\ proc'.result = "ok"
  /\ UNCHANGED watchVars

StoreFails ==
  /\ \/ TransactionFails
     \/ Hooks /\ proc'.result = "error"
  /\ Fault
  /\ UNCHANGED <<log, cl, top>>

StoreWrite ==
  /\ Write
  /\ top' = [r \in Resources |-> Max({top[r], db'[r].ver})]
  /\ UNCHANGED <<log, cl, faults>>

Crash ==
  /\ Fault
  /\ ~RebuildFails(db)
  /\ index' = ConsumerToKeys(db) /\ pub' = OthersOf(EmptyTable)
  /\ proc' = IdleProc /\ prod' = [p \in Producers |-> IdleProd] /\ pending' = FALSE
  /\ cl' = NewClient
  /\ UNCHANGED <<db, life, log, top>>

ClientStep ==
  LoadSnapshot \/ WatchResponse \/ SendBatch \/ RetryPruned \/ ApplyFails \/ ApplySucceeds

WatchNext ==
  EtcdWrite \/ ClientStep \/ StreamFails \/ ApplyTimeout \/ StoreStep \/ StoreFails
    \/ StoreWrite \/ Crash

WatchSpec == WatchInit /\ [][WatchNext]_allVars

\* The client goroutine, the processor and the waiter run whenever they can.
FairWatchSpec ==
  /\ WatchSpec
  /\ WF_allVars(ClientStep)
  /\ WF_allVars(StoreStep) /\ WF_allVars(StoreWrite)

----------------------------------------------------------------------------
(* Properties *)

\* The client's revision, quarantine and phase keep their types.
WatchTypeOK ==
  /\ TypeOK
  /\ cl.pc \in {"fetch", "watch", "recover", "send", "await"}
  /\ cl.lastRevision \in 0..Len(log)
  /\ cl.quarantine \in [Resources -> 0..Len(log)]
  /\ IsBatch(cl.batch)
  /\ faults \in 0..MaxFaults

\* Between responses the client's claim about itself is true: a resource that
\* is not quarantined has exactly the row etcd had at lastRevision, and a
\* quarantined one is one whose current version was rejected.
RevisionIsApplied ==
  cl.pc = "watch" =>
    \A r \in Resources :
      IF cl.quarantine[r] = 0 THEN db[r] = EtcdAt(cl.lastRevision)[r]
      ELSE /\ db[r] # EtcdAt(cl.lastRevision)[r]
           /\ EtcdAt(cl.lastRevision)[r].ver = cl.quarantine[r]

\* Everything the client has acknowledged is published as well.
RevisionIsPublished == cl.pc = "watch" => pub = OthersOf(db)

\* A resource never returns to a version that the file has already replaced,
\* whatever times out, fails or crashes in between.
NoRegress ==
  [][\A r \in Resources :
       (db'[r] # db[r] /\ db'[r] # None) => db'[r].ver > top[r]]_allVars

\* The client watches at etcd's last revision, with everything published.
CaughtUp == cl.pc = "watch" /\ cl.lastRevision = Len(log) /\ pub = OthersOf(db)

\* Once etcd is quiet and the faults are over, the client is watching at the
\* last revision with everything valid applied and published.
Converges == <>[]CaughtUp

\* What the client believes applied and published is.
RevisionRight == WatchTypeOK /\ RevisionIsApplied /\ RevisionIsPublished

=============================================================================
