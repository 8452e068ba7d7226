--------------------------- MODULE StoreContract ---------------------------
(***************************************************************************)
(* What the store promises its producers: a batch that is offered is taken *)
(* as one step or not at all, and only a batch that leaves a valid table   *)
(* may be taken.                                                           *)
(***************************************************************************)
EXTENDS StoreBatch

VARIABLES
  table,    \* the durable rows
  offered   \* the batch under decision: <<>> or <<batch>>

ContractVars == <<table, offered>>

\* No two consumers share a key, and nothing malformed was written by b.
Valid(b) == Malformed(b.muts) = {} /\ ~RebuildFails(Commit(table, b))

ContractInit == table = [r \in Resources |-> None] /\ offered = <<>>

Offer ==
  /\ offered = <<>>
  /\ offered' # <<>>
  /\ table' = table

Take ==
  /\ offered # <<>>
  /\ Valid(offered[1])
  /\ table' = Commit(table, offered[1])
  /\ offered' = <<>>

Drop ==
  /\ offered # <<>>
  /\ offered' = <<>>
  /\ table' = table

Spec == ContractInit /\ [][Offer \/ Take \/ Drop]_ContractVars

=============================================================================
