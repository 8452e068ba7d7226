---------------------------- MODULE MCEtcdWatcher ----------------------------
(***************************************************************************)
(* The etcd client in front of the store, and the lookup of consumers      *)
(* behind it, each explored by itself: `part' names the one that runs, and *)
(* the other stays in an initial state.                                    *)
(***************************************************************************)
EXTENDS EtcdWatcher

CONSTANTS alice, bob, r1, k1, k2, q1, q2, NoKey

VARIABLES
  part,
  values, cgen, secret, epoch, vcache, sgen, wpc, lcache, flight, tmpls, req

lookup == <<values, cgen, secret, epoch, vcache, sgen, wpc, lcache, flight, tmpls, req>>

\* Two consumers that compete for one key and one published resource.
MCWrites ==
  {Mutation(alice, Row("ok", {k1}, 1)), Mutation(alice, None),
   Mutation(bob, Row("ok", {k1}, 1)), Mutation(bob, None),
   Mutation(r1, Row("ok", {}, 1)), Mutation(r1, Row("bad", {}, 1)), Mutation(r1, None)}

\* A consumer with a literal key or a reference that does not resolve, and one
\* whose key is a secret that changes from the first key to the second.
MCRecords ==
  <<{[lookup |-> k1, digest |-> 0], [lookup |-> "env", digest |-> 0]},
    {[lookup |-> "vault", digest |-> 0]}>>

Lookup == INSTANCE ConsumerLookup WITH
  Requests <- {q1, q2}, Consumers <- {1, 2}, Keys <- {k1, k2}, Content <- <<k1, k2>>,
  Records <- MCRecords, MaxWrites <- 1

ASSUME Lookup!LookupConfig

----------------------------------------------------------------------------
\* Lookups begin with both consumers registered.
MCInit ==
  /\ part \in {"watch", "lookup"}
  /\ WatchInit /\ Lookup!Init
  /\ {values[i].lookup : i \in DOMAIN values} = {k1, "vault"}

MCNext ==
  /\ UNCHANGED part
  /\ \/ part = "watch" /\ WatchNext /\ UNCHANGED lookup
     \/ part = "lookup" /\ Lookup!Next /\ UNCHANGED allVars

\* The client goroutine, the processor and the waiter run whenever they can, and
\* so do requests; a call to Vault has a timeout.
MCSpec ==
  /\ MCInit /\ [][MCNext]_<<part, allVars, lookup>>
  /\ WF_allVars(part = "watch" /\ ClientStep)
  /\ WF_allVars(part = "watch" /\ StoreStep) /\ WF_allVars(part = "watch" /\ StoreWrite)
  /\ \A r \in {q1, q2} : WF_lookup(part = "lookup" /\ Lookup!RequestStep(r))

----------------------------------------------------------------------------
\* A lookup that answers with a consumer names one that is registered, by the
\* key it is registered with, at that moment (getConsumerByPluginKey).
LookupRight == [][part = "lookup" => Lookup!LookupRight]_lookup

\* Once etcd is quiet and the faults are over, the client is watching at the
\* last revision with everything valid applied and published; and every lookup
\* of a consumer is answered, whatever is replaced meanwhile.
Settles ==
  <>[](/\ part = "watch" => CaughtUp
       /\ part = "lookup" => Lookup!AllAnswered)

\* Once a secret event is over, the cache that replaced the old one holds no
\* value fetched with an earlier version of the secret resource.
SecretsReplaced == part = "lookup" => Lookup!ReplacementNotRepopulated

=============================================================================
