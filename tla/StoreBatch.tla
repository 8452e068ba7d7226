----------------------------- MODULE StoreBatch -----------------------------
(***************************************************************************)
(* What one batch of mutations does to the configuration store: the        *)
(* validation of pkg/store processMutations, the consumer key check of     *)
(* validateConsumerLookupKeyMutations, the single bbolt transaction and    *)
(* the consumer index rebuilt from its result.                             *)
(*                                                                         *)
(* A row abstracts a stored value: whether it decodes and validates, which *)
(* authentication keys it claims (consumers only) and which version of the *)
(* resource it is.  A mutation to the row None is a delete.                *)
(***************************************************************************)
EXTENDS Integers, Sequences, FiniteSetsExt

CONSTANTS
  Consumers,   \* IDs of the consumers bucket
  Others,      \* resources of the buckets without lookup keys
  Keys         \* authentication keys (plugin name and key)

ASSUME DisjointResources == Consumers \cap Others = {}

Resources == Consumers \cup Others

None == [st |-> "none", keys |-> {}, ver |-> 0]

Row(st, keys, ver) == [st |-> st, keys |-> keys, ver |-> ver]

Rows == [st : {"none", "ok", "bad"}, keys : SUBSET Keys, ver : Nat]

IsRow(row) ==
  /\ row \in Rows
  /\ row.st = "none" => row = None
  /\ row.st = "bad" => row.keys = {}

IsTable(t) == t \in [Resources -> Rows] /\ \A r \in Resources : IsRow(t[r])

Mutation(r, row) == [res |-> r, row |-> row]

IsBatch(b) ==
  /\ b \in [muts : Seq([res : Resources, row : Rows]), replace : BOOLEAN,
            preserve : SUBSET Resources]
  /\ \A i \in DOMAIN b.muts : IsRow(b.muts[i].row)

Batch(muts, replace, preserve) ==
  [muts |-> muts, replace |-> replace, preserve |-> preserve]

----------------------------------------------------------------------------
(* Derived consumer index *)

\* rebuildPersistedConsumerIndexes: the keys of every row that decodes; an
\* invalid persisted row is skipped.
ConsumerToKeys(table) ==
  [c \in Consumers |-> IF table[c].st = "ok" THEN table[c].keys ELSE {}]

\* The rebuild fails when two consumers carry the same key.
RebuildFails(table) ==
  \E c, d \in Consumers :
    c # d /\ ConsumerToKeys(table)[c] \cap ConsumerToKeys(table)[d] # {}

----------------------------------------------------------------------------
(* Validation *)

\* Last position in the batch that mutates r; 0 when none does.
LastMutation(muts, r) ==
  LET at == {i \in DOMAIN muts : muts[i].res = r} IN
    IF at = {} THEN 0 ELSE Max(at)

\* Positions whose value does not decode or validate.
Malformed(muts) == {i \in DOMAIN muts : muts[i].row.st = "bad"}

KeepsKey_PreservedForgotten(b, c, k) ==
  LET last == LastMutation(b.muts, c) IN
    IF last > 0
      THEN /\ b.muts[last].row.st # "none"
           /\ b.muts[last].row.st = "bad" \/ k \in b.muts[last].row.keys
      ELSE ~b.replace

\* Does consumer c keep its indexed key k while the batch is validated?
KeepsKey(b, c, k) ==
  LET last == LastMutation(b.muts, c) IN
    IF last > 0
      THEN /\ b.muts[last].row.st # "none"
           /\ b.muts[last].row.st = "bad" \/ k \in b.muts[last].row.keys
      ELSE b.replace => c \in b.preserve

\* The owners map before the puts of the batch: set of <<key, consumer>>.
Owners(index, b) ==
  {o \in Keys \X Consumers : o[1] \in index[o[2]] /\ KeepsKey(b, o[2], o[1])}

\* Only the final well-formed put of a consumer claims keys.
ClaimsKeys(b, i) ==
  /\ b.muts[i].res \in Consumers
  /\ b.muts[i].row.st = "ok"
  /\ i = LastMutation(b.muts, b.muts[i].res)

\* The check of one put when the positions of set were rejected before it:
\* another consumer owns one of its keys, or claimed it earlier in the batch.
Collides(index, b, set, i) ==
  LET c    == b.muts[i].res
      keys == b.muts[i].row.keys IN
    /\ ClaimsKeys(b, i)
    /\ \/ \E o \in Owners(index, b) : o[1] \in keys /\ o[2] # c
       \/ \E j \in 1..(i - 1) :
            /\ ClaimsKeys(b, j) /\ j \notin set
            /\ b.muts[j].res # c /\ b.muts[j].row.keys \cap keys # {}

\* validateConsumerLookupKeyMutations walks the batch once: the rejected
\* positions are the one set that agrees with the check at every position.
Collisions(index, b) ==
  CHOOSE set \in SUBSET DOMAIN b.muts :
    \A i \in DOMAIN b.muts : i \in set <=> Collides(index, b, set, i)

Rejected(index, b) == Malformed(b.muts) \cup Collisions(index, b)

----------------------------------------------------------------------------
(* The transaction *)

\* clearManagedBuckets of a replacing batch, then every put and delete in
\* order: the last mutation of a resource decides its row.
Commit(table, b) ==
  [r \in Resources |->
     LET last == LastMutation(b.muts, r) IN
       IF last > 0 THEN b.muts[last].row
       ELSE IF b.replace /\ r \notin b.preserve THEN None
       ELSE table[r]]

----------------------------------------------------------------------------
(* A provider's retry (pkg/etcd applyMutationBatch) *)

\* The candidates that were not rejected, in order.
Without(muts, rejected) ==
  LET kept  == DOMAIN muts \ rejected
      At(n) == CHOOSE i \in kept : Cardinality({j \in kept : j < i}) = n - 1 IN
    [n \in 1..Cardinality(kept) |-> muts[At(n)]]

Prune(b, rejected) ==
  Batch(Without(b.muts, rejected), b.replace,
        b.preserve \cup {b.muts[i].res : i \in rejected})

=============================================================================
