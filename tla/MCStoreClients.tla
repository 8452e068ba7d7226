--------------------------- MODULE MCStoreClients ---------------------------
(***************************************************************************)
(* Two producers with one-mutation batches and one snapshot: two consumers *)
(* that compete for a key, and one resource the hooks publish.             *)
(***************************************************************************)
EXTENDS StoreClients

CONSTANTS alice, bob, r1, k1

MCBatches ==
  {Batch(<<Mutation(alice, Row("ok", {k1}, 1))>>, FALSE, {}),
   Batch(<<Mutation(bob, Row("ok", {k1}, 1))>>, FALSE, {}),
   Batch(<<Mutation(bob, Row("ok", {k1}, 1)), Mutation(r1, Row("ok", {}, 1))>>, TRUE, {})}

MCPlainEvents == {Mutation(bob, Row("bad", {}, 1))}

=============================================================================
