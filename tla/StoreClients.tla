---------------------------- MODULE StoreClients ----------------------------
(***************************************************************************)
(* The store with producers that send any batch of a given set, call Sync, *)
(* lose patience, and with a process that may be restarted.                *)
(***************************************************************************)
EXTENDS ConfigStore

CONSTANTS
  Batches,      \* batches a producer may send
  PlainEvents   \* mutations sent as plain, unacknowledged events

ASSUME ClientsConfig ==
  /\ \A b \in Batches : IsBatch(b)
  /\ \A m \in PlainEvents : m \in [res : Resources, row : Rows] /\ IsRow(m.row)

ClientNext ==
  \E p \in Producers :
    \/ \E b \in Batches : Send(p, "batch", b)
    \/ \E m \in PlainEvents : Send(p, "event", Batch(<<m>>, FALSE, {}))
    \/ Sync(p) \/ CancelSend(p) \/ BeginWait(p) \/ WaitResult(p) \/ WaitCancelled(p)

Next == ClientNext \/ StoreNext \/ Restart

Spec == Init /\ [][Next]_vars

\* The processor and the goroutines inside Wait and Stop are runnable Go code,
\* and the channel select is fair between two ready cases; a plain sender or a
\* batch sender without a receiver is released by its context.
Fairness ==
  /\ WF_vars(Barrier \/ Reject \/ Write \/ Derive \/ Hooks \/ Complete)
  /\ WF_vars(StopSignal) /\ WF_vars(StopClose) /\ SF_vars(Exit)
  /\ \A p \in Producers :
       SF_vars(Receive(p)) /\ WF_vars(BeginWait(p)) /\ WF_vars(WaitResult(p))
         /\ WF_vars(life.stopped /\ CancelSend(p))

FairSpec == Init /\ [][Next]_vars /\ Fairness

=============================================================================
