----------------------------- MODULE BatchRetry -----------------------------
(***************************************************************************)
(* How a configuration provider applies one set of candidate mutations:    *)
(* it sends them all, removes the ones the store rejects, asks the store   *)
(* to preserve the rows behind them, and sends the rest exactly once more  *)
(* (pkg/etcd applyMutationBatch).                                          *)
(***************************************************************************)
EXTENDS StoreBatch, SequencesExt

CONSTANT Batches

VARIABLES
  table,     \* persisted rows
  before,    \* rows when the batch was first sent
  sent,      \* <<>> or the batches sent so far for these candidates
  verdict    \* "none", "accepted" or "aborted"

vars == <<table, before, sent, verdict>>

Init ==
  /\ table = [r \in Resources |-> None]
  /\ before = table
  /\ sent = <<>>
  /\ verdict = "none"

FirstSend ==
  /\ sent = <<>>
  /\ \E b \in Batches : sent' = <<b>>
  /\ before' = table
  /\ UNCHANGED <<table, verdict>>

Accepted ==
  /\ sent # <<>> /\ verdict = "none"
  /\ Rejected(ConsumerToKeys(table), Last(sent)) = {}
  /\ table' = Commit(table, Last(sent))
  /\ verdict' = "accepted"
  /\ UNCHANGED <<before, sent>>

RetryPruned ==
  /\ Len(sent) = 1 /\ verdict = "none"
  /\ LET rejected == Rejected(ConsumerToKeys(table), sent[1]) IN
       /\ rejected # {}
       /\ sent' = Append(sent, Prune(sent[1], rejected))
  /\ UNCHANGED <<table, before, verdict>>

AbortRetry ==
  /\ Len(sent) = 2 /\ verdict = "none"
  /\ Rejected(ConsumerToKeys(table), sent[2]) # {}
  /\ verdict' = "aborted"
  /\ UNCHANGED <<table, before, sent>>

NextBatch ==
  /\ verdict # "none"
  /\ sent' = <<>> /\ verdict' = "none" /\ before' = table
  /\ UNCHANGED table

Next == FirstSend \/ Accepted \/ RetryPruned \/ AbortRetry \/ NextBatch

Spec == Init /\ [][Next]_vars

----------------------------------------------------------------------------
(* Properties *)

Deciding == sent # <<>> /\ verdict = "none"

\* Tables, batches and verdicts keep their types.
TypeOK ==
  /\ IsTable(table) /\ IsTable(before)
  /\ \A i \in DOMAIN sent : IsBatch(sent[i])
  /\ Len(sent) <= 2
  /\ verdict \in {"none", "accepted", "aborted"}

\* The incremental collision check is exact: a batch is accepted exactly when
\* its values are valid and the table it would leave has unique keys.
AcceptanceExact ==
  Deciding =>
    LET b == Last(sent) IN
      (Rejected(ConsumerToKeys(table), b) = {})
        <=> (Malformed(b.muts) = {} /\ ~RebuildFails(Commit(table, b)))

\* A key stays with the consumer that holds it and still claims it: whatever
\* the order of the batch, every other claim to that key is rejected.
IncumbentWins ==
  Deciding =>
    LET b == Last(sent) IN
      \A i \in DOMAIN b.muts, c \in Consumers :
        LET last == LastMutation(b.muts, c) IN
          ( /\ ClaimsKeys(b, i) /\ c # b.muts[i].res
            /\ last > 0 /\ b.muts[last].row.st = "ok"
            /\ table[c].st = "ok"
            /\ table[c].keys \cap b.muts[last].row.keys \cap b.muts[i].row.keys # {} )
          => i \in Rejected(ConsumerToKeys(table), b)

\* After an accepted retry every resource holds either its row from before or
\* a row that the candidates put there: quarantine of one resource never
\* deletes its last good row.
LastGoodPreserved ==
  (verdict = "accepted" /\ Len(sent) = 2) =>
    \A i \in Rejected(ConsumerToKeys(before), sent[1]) :
      LET r == sent[1].muts[i].res IN
        table[r] = IF LastMutation(sent[2].muts, r) = 0 THEN before[r]
                   ELSE sent[2].muts[LastMutation(sent[2].muts, r)].row

\* The retry of pkg/etcd is documented as sufficient: once the deterministically
\* invalid resources are excluded, the remaining candidates validate.
RetryValidates == verdict # "aborted"

\* The verdict of a batch and of its retry, and what they keep.
VerdictRight == TypeOK /\ AcceptanceExact /\ IncumbentWins /\ LastGoodPreserved

=============================================================================
