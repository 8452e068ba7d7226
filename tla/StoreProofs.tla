----------------------------- MODULE StoreProofs -----------------------------
(***************************************************************************)
(* The store: the validation of a batch, and the event loop that applies it. *)
(***************************************************************************)
EXTENDS StoreClients, WellFoundedInduction, TLAPS

-----------------------------------------------------------------------------
(***************************************************************************)
(* What the validation of a batch guarantees, for every batch and every    *)
(* table: the one pass of validateConsumerLookupKeyMutations over the      *)
(* mutations, which only ever looks at the owners it has collected so far, *)
(* accepts exactly the batches that leave a table with unique keys.        *)
(***************************************************************************)

----------------------------------------------------------------------------
(* Induction over positions *)

Below == {p \in Nat \X Nat : p[1] < p[2]}

LEMMA BelowWellFounded == IsWellFoundedOn(Below, Nat)
  BY NatLessThanWellFounded, Zenon DEF OpToRel, Below

\* A set of positions that is not empty has a first one.
LEMMA Least ==
  ASSUME NEW T \in SUBSET Nat, T # {}
  PROVE  \E n \in T : \A m \in T : n <= m
<1>1. \E x \in T : \A y \in T : ~(<<y, x>> \in Below)
  BY BelowWellFounded, WFMin, Zenon
<1>2. PICK x \in T : \A y \in T : ~(<<y, x>> \in Below) BY <1>1
<1>3. ASSUME NEW y \in T PROVE x <= y
  <2>1. <<y, x>> \in Nat \X Nat OBVIOUS
  <2>2. ~(<<y, x>>[1] < <<y, x>>[2]) BY <1>2, <2>1, Zenon DEF Below
  <2> QED BY <2>2
<1> QED BY <1>3

\* Induction: what holds at 0 and passes from n to n + 1 holds everywhere.
LEMMA Induct ==
  ASSUME NEW T \in SUBSET Nat, 0 \in T, \A n \in T : n + 1 \in T
  PROVE  T = Nat
<1>1. SUFFICES ASSUME Nat \ T # {} PROVE FALSE BY Zenon
<1>2. PICK n \in Nat \ T : \A m \in Nat \ T : n <= m BY <1>1, Least, Zenon
<1>3. n - 1 \in Nat /\ n - 1 \in T BY <1>2
<1> QED BY <1>2, <1>3

\* A set of positions of a sequence has a last one.
LEMMA Greatest ==
  ASSUME NEW n \in Nat, NEW S \in SUBSET (1..n), S # {}
  PROVE  Max(S) \in S /\ \A i \in S : i <= Max(S)
<1> DEFINE U == {m \in Nat : \A i \in S : i <= m}
<1>1. n \in U OBVIOUS
<1>2. PICK m \in U : \A k \in U : m <= k BY <1>1, Least, Zenon
<1>3. m \in S
  <2>1. SUFFICES ASSUME m \notin S PROVE FALSE OBVIOUS
  <2>2. \A i \in S : i <= m - 1 BY <1>2, <2>1
  <2>3. PICK i \in S : TRUE BY Zenon
  <2>4. m - 1 \in Nat BY <2>2, <2>3
  <2> QED BY <1>2, <2>2, <2>4
<1>4. \E x \in S : \A y \in S : x >= y BY <1>2, <1>3
<1> QED BY <1>4, Zenon DEF Max

\* LastMutation is the position of the final mutation of a resource, 0 when
\* the batch has none.
LEMMA LastIs ==
  ASSUME NEW b, IsBatch(b), NEW r
  PROVE  LET last == LastMutation(b.muts, r) IN
           /\ last \in Nat
           /\ last = 0 => \A i \in DOMAIN b.muts : b.muts[i].res # r
           /\ last > 0 => /\ last \in DOMAIN b.muts
                          /\ b.muts[last].res = r
                          /\ \A i \in DOMAIN b.muts : b.muts[i].res = r => i <= last
<1> DEFINE at == {i \in DOMAIN b.muts : b.muts[i].res = r}
<1>1. Len(b.muts) \in Nat /\ DOMAIN b.muts = 1..Len(b.muts)
  BY DEF IsBatch
<1>2. CASE at = {}
  BY <1>2 DEF LastMutation
<1>3. CASE at # {}
  <2>1. Max(at) \in at /\ \A i \in at : i <= Max(at) BY <1>1, <1>3, Greatest, Zenon
  <2>2. LastMutation(b.muts, r) = Max(at) BY <1>3 DEF LastMutation
  <2>3. Max(at) \in Nat /\ Max(at) > 0 BY <1>1, <2>1
  <2> HIDE DEF at
  <2>4. \A i : i \in at <=> (i \in DOMAIN b.muts /\ b.muts[i].res = r) BY DEF at
  <2> QED BY <2>1, <2>2, <2>3, <2>4
<1> QED BY <1>2, <1>3

----------------------------------------------------------------------------
(* The one pass over the batch *)

\* The check at a position only depends on what was rejected before it.
LEMMA CollidesBefore ==
  ASSUME NEW ix, NEW b, NEW S, NEW T, NEW i \in Nat,
         \A j \in 1..(i - 1) : j \in S <=> j \in T
  PROVE  Collides(ix, b, S, i) <=> Collides(ix, b, T, i)
BY DEF Collides

\* The pass over the first n positions rejects one set of them.
LEMMA PassExists ==
  ASSUME NEW ix, NEW b
  PROVE  \A n \in Nat : \E S \in SUBSET (1..n) :
           \A i \in 1..n : i \in S <=> Collides(ix, b, S, i)
<1> DEFINE Agrees(n, S) == \A i \in 1..n : i \in S <=> Collides(ix, b, S, i)
<1> DEFINE T == {n \in Nat : \E S \in SUBSET (1..n) : Agrees(n, S)}
<1>1. 0 \in T
  <2>1. {} \in SUBSET (1..0) /\ Agrees(0, {}) OBVIOUS
  <2> QED BY <2>1, Zenon
<1>2. ASSUME NEW n \in T PROVE n + 1 \in T
  <2>1. PICK S \in SUBSET (1..n) : Agrees(n, S) OBVIOUS
  <2>2. n \in Nat OBVIOUS
  <2> DEFINE R == IF Collides(ix, b, S, n + 1) THEN S \cup {n + 1} ELSE S
  <2>3. R \in SUBSET (1..(n + 1)) BY <2>1, <2>2
  <2>4. \A j \in 1..n : j \in R <=> j \in S BY <2>2
  <2>5. n + 1 \in R <=> Collides(ix, b, S, n + 1) BY <2>1, <2>2
  <2> HIDE DEF R
  <2>6. ASSUME NEW i \in 1..(n + 1) PROVE i \in R <=> Collides(ix, b, R, i)
    <3>1. \A j \in 1..(i - 1) : j \in S <=> j \in R BY <2>2, <2>4
    <3>2. Collides(ix, b, S, i) <=> Collides(ix, b, R, i)
      BY <2>2, <3>1, CollidesBefore
    <3>3. CASE i = n + 1 BY <2>5, <3>2, <3>3
    <3>4. CASE i \in 1..n BY <2>1, <2>4, <3>2, <3>4
    <3> QED BY <2>2, <3>3, <3>4
  <2> QED BY <2>2, <2>3, <2>6
<1> HIDE DEF T
<1>3. T \in SUBSET Nat BY DEF T
<1>4. T = Nat BY <1>1, <1>2, <1>3, Induct
<1> QED BY <1>4, Zenon DEF T

\* The positions that validateConsumerLookupKeyMutations rejects are the ones
\* that collide with what it had accepted before them.
LEMMA CollisionsAre ==
  ASSUME NEW ix, NEW b, IsBatch(b)
  PROVE  /\ Collisions(ix, b) \in SUBSET DOMAIN b.muts
         /\ \A i \in DOMAIN b.muts :
              i \in Collisions(ix, b) <=> Collides(ix, b, Collisions(ix, b), i)
<1>1. Len(b.muts) \in Nat /\ DOMAIN b.muts = 1..Len(b.muts)
  BY DEF IsBatch
<1>2. \E S \in SUBSET DOMAIN b.muts :
        \A i \in DOMAIN b.muts : i \in S <=> Collides(ix, b, S, i)
  BY <1>1, PassExists, Zenon
<1> QED BY <1>2, Zenon DEF Collisions

----------------------------------------------------------------------------
(* The table a batch leaves *)

\* A committed batch leaves a table of rows.
LEMMA CommitTable ==
  ASSUME NEW t, IsTable(t), NEW b, IsBatch(b)
  PROVE  IsTable(Commit(t, b))
<1>1. IsRow(None) /\ None \in Rows BY DEF IsRow, None, Rows
<1>2. ASSUME NEW r \in Resources
      PROVE  Commit(t, b)[r] \in Rows /\ IsRow(Commit(t, b)[r])
  <2> DEFINE last == LastMutation(b.muts, r)
  <2>1. last \in Nat /\ (last > 0 => last \in DOMAIN b.muts) BY LastIs
  <2>2. Commit(t, b)[r] = IF last > 0 THEN b.muts[last].row
                          ELSE IF b.replace /\ r \notin b.preserve THEN None
                          ELSE t[r]
    BY DEF Commit
  <2> HIDE DEF last
  <2>3. last > 0 => IsRow(b.muts[last].row) BY <2>1 DEF IsBatch
  <2>4. IsRow(t[r]) BY DEF IsTable
  <2>5. IsRow(Commit(t, b)[r]) BY <1>1, <2>2, <2>3, <2>4
  <2> QED BY <2>5 DEF IsRow
<1>3. Commit(t, b) = [r \in Resources |-> Commit(t, b)[r]]
  BY DEF Commit
<1> QED BY <1>2, <1>3 DEF IsTable

\* Committing a batch again changes nothing.
LEMMA CommitTwice ==
  ASSUME NEW t, NEW b
  PROVE  Commit(Commit(t, b), b) = Commit(t, b)
BY DEF Commit

\* The keys a consumer holds once the batch is committed: those of its final
\* put, or those it had when the batch leaves its row alone.
LEMMA KeysAfter ==
  ASSUME NEW t, IsTable(t), NEW b, IsBatch(b), NEW c \in Consumers, NEW k \in Keys
  PROVE  LET last == LastMutation(b.muts, c) IN
           k \in ConsumerToKeys(Commit(t, b))[c] <=>
             IF last > 0 THEN ClaimsKeys(b, last) /\ k \in b.muts[last].row.keys
             ELSE (b.replace => c \in b.preserve) /\ k \in ConsumerToKeys(t)[c]
<1> DEFINE last == LastMutation(b.muts, c)
<1>1. c \in Resources BY DEF Resources
<1>2. Commit(t, b)[c] = IF last > 0 THEN b.muts[last].row
                        ELSE IF b.replace /\ c \notin b.preserve THEN None
                        ELSE t[c]
  BY <1>1 DEF Commit
<1>3. last > 0 => b.muts[last].res = c BY LastIs
<1>4. \A u : ConsumerToKeys(u)[c] = IF u[c].st = "ok" THEN u[c].keys ELSE {}
  BY DEF ConsumerToKeys
<1>5. CASE last > 0
  <2>1. Commit(t, b)[c] = b.muts[last].row BY <1>2, <1>5
  <2>2. ClaimsKeys(b, last) <=> b.muts[last].row.st = "ok"
    BY <1>3, <1>5 DEF ClaimsKeys
  <2> QED BY <1>4, <1>5, <2>1, <2>2
<1>6. CASE ~(last > 0) /\ b.replace /\ c \notin b.preserve
  <2>1. Commit(t, b)[c] = None BY <1>2, <1>6
  <2> QED BY <1>4, <1>6, <2>1 DEF None
<1>7. CASE ~(last > 0) /\ ~(b.replace /\ c \notin b.preserve)
  <2>1. Commit(t, b)[c] = t[c] BY <1>2, <1>7
  <2> QED BY <1>4, <1>7, <2>1
<1> QED BY <1>5, <1>6, <1>7

----------------------------------------------------------------------------
(* The verdict of the pass *)

LEMMA IndexKeys ==
  ASSUME NEW t, IsTable(t), NEW c \in Consumers
  PROVE  ConsumerToKeys(t)[c] \in SUBSET Keys
<1>1. t[c] \in Rows BY DEF IsTable, Resources
<1>2. t[c].keys \in SUBSET Keys BY <1>1 DEF Rows
<1> QED BY <1>2 DEF ConsumerToKeys

\* Two consumers that would share key k after the commit are caught by the
\* pass: at the later of their puts, or at the put of the one that takes a key
\* from the other.
LEMMA SharedIsCaught ==
  ASSUME NEW t, IsTable(t), ~RebuildFails(t), NEW b, IsBatch(b),
         NEW c \in Consumers, NEW d \in Consumers, c # d, NEW k \in Keys,
         k \in ConsumerToKeys(Commit(t, b))[c], k \in ConsumerToKeys(Commit(t, b))[d]
  PROVE  Collisions(ConsumerToKeys(t), b) # {}
<1> DEFINE ix == ConsumerToKeys(t)
<1> DEFINE i == LastMutation(b.muts, c)
<1> DEFINE j == LastMutation(b.muts, d)
<1>1. SUFFICES ASSUME Collisions(ix, b) = {} PROVE FALSE OBVIOUS
<1>2. \A n \in DOMAIN b.muts : ~Collides(ix, b, {}, n)
  BY <1>1, CollisionsAre
<1>3. /\ i \in Nat /\ (i > 0 => i \in DOMAIN b.muts /\ b.muts[i].res = c)
      /\ j \in Nat /\ (j > 0 => j \in DOMAIN b.muts /\ b.muts[j].res = d)
  BY LastIs
<1>4. IF i > 0 THEN ClaimsKeys(b, i) /\ k \in b.muts[i].row.keys
      ELSE (b.replace => c \in b.preserve) /\ k \in ix[c]
  BY KeysAfter
<1>5. IF j > 0 THEN ClaimsKeys(b, j) /\ k \in b.muts[j].row.keys
      ELSE (b.replace => d \in b.preserve) /\ k \in ix[d]
  BY KeysAfter
<1>6. ~(i > 0) => <<k, c>> \in Owners(ix, b)
  BY <1>4 DEF Owners, KeepsKey
<1>7. ~(j > 0) => <<k, d>> \in Owners(ix, b)
  BY <1>5 DEF Owners, KeepsKey
<1> HIDE DEF i, j, ix
<1>8. CASE i > 0 /\ j > 0
  <2>1. i # j BY <1>3, <1>8
  <2>2. CASE j < i
    <3>1. j \in 1..(i - 1) BY <1>3, <1>8, <2>2
    <3>2. Collides(ix, b, {}, i)
      BY <1>3, <1>4, <1>5, <1>8, <3>1 DEF Collides
    <3> QED BY <1>2, <1>3, <1>8, <3>2
  <2>3. CASE i < j
    <3>1. i \in 1..(j - 1) BY <1>3, <1>8, <2>3
    <3>2. Collides(ix, b, {}, j)
      BY <1>3, <1>4, <1>5, <1>8, <3>1 DEF Collides
    <3> QED BY <1>2, <1>3, <1>8, <3>2
  <2> QED BY <1>3, <2>1, <2>2, <2>3
<1>9. CASE i > 0 /\ ~(j > 0)
  <2>1. Collides(ix, b, {}, i)
    BY <1>3, <1>4, <1>7, <1>9 DEF Collides
  <2> QED BY <1>2, <1>3, <1>9, <2>1
<1>10. CASE ~(i > 0) /\ j > 0
  <2>1. Collides(ix, b, {}, j)
    BY <1>3, <1>5, <1>6, <1>10 DEF Collides
  <2> QED BY <1>2, <1>3, <1>10, <2>1
<1>11. CASE ~(i > 0) /\ ~(j > 0)
  <2>1. k \in ConsumerToKeys(t)[c] /\ k \in ConsumerToKeys(t)[d]
    BY <1>4, <1>5, <1>11 DEF ix
  <2> QED BY <2>1 DEF RebuildFails
<1> QED BY <1>8, <1>9, <1>10, <1>11

\* A rejected put would leave its key with two consumers.
LEMMA CaughtIsShared ==
  ASSUME NEW t, IsTable(t), NEW b, IsBatch(b), Malformed(b.muts) = {},
         Collisions(ConsumerToKeys(t), b) # {}
  PROVE  RebuildFails(Commit(t, b))
<1> DEFINE ix == ConsumerToKeys(t)
<1> DEFINE after == ConsumerToKeys(Commit(t, b))
<1>1. PICK i \in Collisions(ix, b) : TRUE OBVIOUS
<1>2. i \in DOMAIN b.muts /\ Collides(ix, b, Collisions(ix, b), i)
  BY CollisionsAre
<1> DEFINE c == b.muts[i].res
<1>3. c \in Consumers /\ ClaimsKeys(b, i) /\ i = LastMutation(b.muts, c)
  BY <1>2 DEF Collides, ClaimsKeys
<1>4. \A n \in DOMAIN b.muts : n \in Nat /\ n > 0 /\ b.muts[n].row.keys \in SUBSET Keys
  <2>1. TAKE n \in DOMAIN b.muts
  <2>2. n \in Nat /\ n > 0 BY DEF IsBatch
  <2>3. b.muts[n].row \in Rows BY DEF IsBatch, IsRow
  <2> QED BY <2>2, <2>3 DEF Rows
<1>5. \A k \in b.muts[i].row.keys : k \in after[c]
  BY <1>2, <1>3, <1>4, KeysAfter
<1>6. CASE \E o \in Owners(ix, b) : o[1] \in b.muts[i].row.keys /\ o[2] # c
  <2>1. PICK k \in Keys, d \in Consumers :
          /\ k \in b.muts[i].row.keys /\ d # c
          /\ k \in ix[d] /\ KeepsKey(b, d, k)
    BY <1>6 DEF Owners
  <2> DEFINE last == LastMutation(b.muts, d)
  <2>2. /\ last \in Nat
        /\ last > 0 => last \in DOMAIN b.muts /\ b.muts[last].res = d
    BY LastIs
  <2>3. CASE last > 0
    <3>1. b.muts[last].row.st # "bad" /\ b.muts[last].row \in Rows
      BY <2>2, <2>3 DEF Malformed, IsBatch, IsRow
    <3>2. b.muts[last].row.st # "none" /\ k \in b.muts[last].row.keys
      BY <2>1, <2>3, <3>1 DEF KeepsKey
    <3>3. b.muts[last].row.st = "ok" BY <3>1, <3>2 DEF Rows
    <3>4. ClaimsKeys(b, last) BY <2>2, <2>3, <3>3 DEF ClaimsKeys
    <3>5. k \in after[d] BY <2>3, <3>2, <3>4, KeysAfter
    <3> QED BY <1>3, <1>5, <2>1, <3>5 DEF RebuildFails
  <2>4. CASE ~(last > 0)
    <3>1. b.replace => d \in b.preserve BY <2>1, <2>4 DEF KeepsKey
    <3>2. k \in after[d] BY <2>1, <2>4, <3>1, KeysAfter
    <3> QED BY <1>3, <1>5, <2>1, <3>2 DEF RebuildFails
  <2> QED BY <2>3, <2>4
<1>7. CASE \E j \in 1..(i - 1) :
             /\ ClaimsKeys(b, j)
             /\ b.muts[j].res # c /\ b.muts[j].row.keys \cap b.muts[i].row.keys # {}
  <2>1. PICK j \in 1..(i - 1) :
          /\ ClaimsKeys(b, j)
          /\ b.muts[j].res # c /\ b.muts[j].row.keys \cap b.muts[i].row.keys # {}
    BY <1>7
  <2>2. j \in DOMAIN b.muts BY <1>2, <2>1 DEF IsBatch
  <2>3. PICK k : k \in b.muts[j].row.keys /\ k \in b.muts[i].row.keys BY <2>1
  <2> DEFINE d == b.muts[j].res
  <2>4. d \in Consumers /\ j = LastMutation(b.muts, d) BY <2>1 DEF ClaimsKeys
  <2>5. k \in after[d] BY <1>4, <2>1, <2>2, <2>3, <2>4, KeysAfter
  <2>6. k \in after[c] /\ c # d BY <1>5, <2>1, <2>3
  <2> QED BY <1>3, <2>4, <2>5, <2>6 DEF RebuildFails
<1>8. (\E o \in Owners(ix, b) : o[1] \in b.muts[i].row.keys /\ o[2] # c)
      \/ (\E j \in 1..(i - 1) :
             /\ ClaimsKeys(b, j)
             /\ b.muts[j].res # c /\ b.muts[j].row.keys \cap b.muts[i].row.keys # {})
  BY <1>2, Zenon DEF Collides
<1> QED BY <1>6, <1>7, <1>8

\* The incremental check of processMutations is exact.  On a table without
\* shared keys a batch is rejected exactly when one of its values does not
\* validate or when the table it would leave has two consumers with one key,
\* in whatever order the batch moves keys between consumers.
THEOREM AcceptanceIsExact ==
  ASSUME NEW t, IsTable(t), ~RebuildFails(t), NEW b, IsBatch(b)
  PROVE  (Rejected(ConsumerToKeys(t), b) = {})
           <=> (Malformed(b.muts) = {} /\ ~RebuildFails(Commit(t, b)))
<1>1. ASSUME Rejected(ConsumerToKeys(t), b) = {}
      PROVE  Malformed(b.muts) = {} /\ ~RebuildFails(Commit(t, b))
  <2>1. Malformed(b.muts) = {} /\ Collisions(ConsumerToKeys(t), b) = {}
    BY <1>1 DEF Rejected
  <2>2. ASSUME RebuildFails(Commit(t, b)) PROVE FALSE
    <3>1. PICK c \in Consumers, d \in Consumers :
            /\ c # d
            /\ ConsumerToKeys(Commit(t, b))[c] \cap ConsumerToKeys(Commit(t, b))[d] # {}
      BY <2>2 DEF RebuildFails
    <3>2. PICK k : k \in ConsumerToKeys(Commit(t, b))[c] /\ k \in ConsumerToKeys(Commit(t, b))[d]
      BY <3>1
    <3>3. k \in Keys BY <3>2, CommitTable, IndexKeys
    <3> QED BY <2>1, <3>1, <3>2, <3>3, SharedIsCaught
  <2> QED BY <2>1, <2>2
<1>2. ASSUME Malformed(b.muts) = {}, ~RebuildFails(Commit(t, b))
      PROVE  Rejected(ConsumerToKeys(t), b) = {}
  BY <1>2, CaughtIsShared DEF Rejected
<1> QED BY <1>1, <1>2

-----------------------------------------------------------------------------
(***************************************************************************)
(* The store's safety for any number of producers and any batches: the     *)
(* persisted consumers never share a key, the index follows the file, an   *)
(* acknowledged batch is durable and published, and the event loop refines *)
(* the contract of one whole valid batch per step.                         *)
(***************************************************************************)

----------------------------------------------------------------------------
(* The inductive invariant *)

Kinds == {"none", "batch", "event", "barrier"}

BatchSet == [muts : Seq([res : Resources, row : Rows]), replace : BOOLEAN,
             preserve : SUBSET Resources]

Events == {e \in [kind : Kinds, batch : BatchSet] : IsBatch(e.batch)}

ProcPCs == {"receive", "barrier", "process", "derive", "hooks", "replied", "exited"}

Verdicts == {"ok", "rejected", "error"}

Told == Results \ {"unacknowledged"}

Procs == [pc : ProcPCs, from : Producers \cup {"none"}, event : Events,
          result : Verdicts, rejected : SUBSET Nat, waitDone : BOOLEAN]

ProdPCs == {"idle", "sending", "sent", "waiting"}

Prods == [pc : ProdPCs, event : Events, out : Told, rejected : SUBSET Nat]

Lives == [started : BOOLEAN, stopped : BOOLEAN,
          stop : {"none", "locking", "signalled", "closed"}]

\* The stored and derived data have their types.
Data ==
  /\ IsTable(db)
  /\ index \in [Consumers -> SUBSET Keys]
  /\ pub \in [Others -> Rows] /\ \A r \in Others : IsRow(pub[r])
  /\ pending \in BOOLEAN

Typed == Data /\ proc \in Procs /\ prod \in [Producers -> Prods] /\ life \in Lives

\* A producer whose event was handed over is the one the processor works for,
\* until its wait is over.
Held ==
  \A p \in Producers :
    prod[p].pc \in {"sent", "waiting"} =>
      /\ proc.from = p /\ proc.event = prod[p].event
      /\ proc.pc \notin {"receive", "exited"} /\ ~proc.waitDone
      /\ proc.event.kind # "event"

\* The steps of the processor fit the event it holds.
Fits ==
  /\ proc.pc = "barrier" => proc.event.kind = "barrier"
  /\ proc.pc \in {"process", "derive", "hooks"} => proc.event.kind # "barrier"

\* What the processor has done for the batch it holds.
Work ==
  /\ proc.pc \in {"derive", "hooks"} => Applied(db, proc.event.batch)
  /\ (proc.pc = "derive" /\ ~Touches(proc.event.batch, Consumers))
       => index = ConsumerToKeys(db)
  /\ (proc.pc = "replied" /\ proc.result = "ok" /\ proc.event.kind # "barrier")
       => /\ Applied(db, proc.event.batch)
          /\ Touches(proc.event.batch, Others) => pub = OthersOf(db)

\* The file is closed only when no processor runs and none can be started.
Closing ==
  /\ life.stop \in {"signalled", "closed"} => life.stopped
  /\ OpenWhileProcessing

IInv == Typed /\ Held /\ Fits /\ Work /\ KeysUnique /\ IndexFresh /\ Closing

----------------------------------------------------------------------------
(* Facts about the parts *)

LEMMA EmptyRow == IsRow(None) /\ None \in Rows
BY DEF IsRow, None, Rows

LEMMA EmptyBatch == IsBatch(NoBatch) /\ NoEvent \in Events
<1>1. NoBatch \in BatchSet BY DEF NoBatch, Batch, BatchSet
<1>2. NoBatch.muts = <<>> BY DEF NoBatch, Batch
<1>3. IsBatch(NoBatch) BY <1>1, <1>2 DEF IsBatch, BatchSet
<1> QED BY <1>1, <1>3 DEF NoEvent, Events, Kinds

LEMMA AnEvent ==
  ASSUME NEW b, IsBatch(b), NEW kind \in Kinds
  PROVE  [kind |-> kind, batch |-> b] \in Events
<1>1. b \in BatchSet BY DEF IsBatch, BatchSet
<1> QED BY <1>1 DEF Events

LEMMA SingleBatch ==
  ASSUME NEW m \in PlainEvents
  PROVE  IsBatch(Batch(<<m>>, FALSE, {}))
<1> DEFINE b == Batch(<<m>>, FALSE, {})
<1>1. m \in [res : Resources, row : Rows] /\ IsRow(m.row) BY ClientsConfig
<1>2. b.muts = <<m>> /\ b.replace = FALSE /\ b.preserve = {} BY DEF Batch
<1>3. <<m>> \in Seq([res : Resources, row : Rows]) BY <1>1
<1>4. b \in BatchSet BY <1>3 DEF Batch, BatchSet
<1>5. \A i \in DOMAIN <<m>> : IsRow(<<m>>[i].row) BY <1>1
<1> QED BY <1>2, <1>4, <1>5, Zenon DEF IsBatch, BatchSet

LEMMA RejectedPositions ==
  ASSUME NEW i, NEW b, IsBatch(b)
  PROVE  Rejected(i, b) \in SUBSET Nat
<1>1. Collisions(i, b) \in SUBSET DOMAIN b.muts BY CollisionsAre
<1>2. Malformed(b.muts) \in SUBSET DOMAIN b.muts BY DEF Malformed
<1>3. DOMAIN b.muts \in SUBSET Nat BY DEF IsBatch
<1> QED BY <1>1, <1>2, <1>3 DEF Rejected

LEMMA IndexTyped ==
  ASSUME NEW t, IsTable(t)
  PROVE  ConsumerToKeys(t) \in [Consumers -> SUBSET Keys]
<1>1. \A c \in Consumers : ConsumerToKeys(t)[c] \in SUBSET Keys BY IndexKeys
<1>2. ConsumerToKeys(t) = [c \in Consumers |-> ConsumerToKeys(t)[c]] BY DEF ConsumerToKeys
<1> QED BY <1>1, <1>2

LEMMA OthersTyped ==
  ASSUME NEW t, IsTable(t)
  PROVE  OthersOf(t) \in [Others -> Rows] /\ \A r \in Others : IsRow(OthersOf(t)[r])
BY DEF IsTable, OthersOf, Resources

LEMMA EmptyTyped == IsTable(EmptyTable) /\ ~RebuildFails(EmptyTable)
<1>1. IsTable(EmptyTable) BY EmptyRow DEF EmptyTable, IsTable
<1>2. \A c \in Consumers : ConsumerToKeys(EmptyTable)[c] = {}
  BY DEF ConsumerToKeys, EmptyTable, Resources, None
<1> QED BY <1>1, <1>2 DEF RebuildFails

LEMMA IdleTyped == IdleProc \in Procs /\ IdleProd \in Prods
<1>1. IdleProc \in Procs
  BY EmptyBatch DEF IdleProc, Procs, ProcPCs, Verdicts
<1>2. IdleProd \in Prods
  BY EmptyBatch DEF IdleProd, Prods, ProdPCs, Told, Results
<1> QED BY <1>1, <1>2

\* A batch that touches no consumer leaves their index as it is.
LEMMA UntouchedIndex ==
  ASSUME NEW t, NEW b, IsBatch(b), ~Touches(b, Consumers)
  PROVE  ConsumerToKeys(Commit(t, b)) = ConsumerToKeys(t)
<1>1. ASSUME NEW c \in Consumers PROVE Commit(t, b)[c] = t[c]
  <2>1. LastMutation(b.muts, c) \in Nat /\ ~(LastMutation(b.muts, c) > 0)
    BY LastIs DEF Touches
  <2>2. ~b.replace BY DEF Touches
  <2> QED BY <2>1, <2>2 DEF Commit, Resources
<1> QED BY <1>1 DEF ConsumerToKeys

----------------------------------------------------------------------------
(* Every step keeps the invariant *)

LEMMA InitHolds == Init => IInv
<1> SUFFICES ASSUME Init PROVE IInv OBVIOUS
<1>1. Data BY EmptyTyped, IndexTyped, OthersTyped, Zenon DEF Init, Data
<1>2. Typed BY <1>1, IdleTyped DEF Init, Typed, Lives
<1>3. Held /\ Fits BY DEF Init, Held, Fits, IdleProd, IdleProc
<1>4. Work BY DEF Init, Work, IdleProc, NoEvent
<1>5. KeysUnique /\ IndexFresh BY EmptyTyped DEF Init, KeysUnique, IndexFresh
<1>6. Closing BY DEF Init, Closing, OpenWhileProcessing
<1> QED BY <1>2, <1>3, <1>4, <1>5, <1>6 DEF IInv

\* A step of one producer alone: it never hands itself an event.
LEMMA ProducerStep ==
  ASSUME IInv, NEW p \in Producers, NEW x \in Prods,
         prod' = [prod EXCEPT ![p] = x], UNCHANGED <<db, index, pub, proc, pending, life>>,
         \/ x.pc \notin {"sent", "waiting"}
         \/ prod[p].pc = "sent" /\ x.event = prod[p].event
  PROVE  IInv'
<1>1. Typed' BY DEF IInv, Typed, Data
<1>2. Held' BY DEF IInv, Typed, Held
<1>3. Fits' /\ Work' /\ KeysUnique' /\ IndexFresh'
  BY DEF IInv, Fits, Work, KeysUnique, IndexFresh
<1>4. Closing' BY DEF IInv, Closing, OpenWhileProcessing
<1> QED BY <1>1, <1>2, <1>3, <1>4 DEF IInv

LEMMA ProducersHold ==
  ASSUME IInv, NEW p \in Producers,
         \/ \E b \in Batches : Send(p, "batch", b)
         \/ \E m \in PlainEvents : Send(p, "event", Batch(<<m>>, FALSE, {}))
         \/ Sync(p) \/ CancelSend(p) \/ BeginWait(p)
  PROVE  IInv'
<1>1. ASSUME NEW kind \in {"batch", "event"}, NEW b, IsBatch(b), Send(p, kind, b)
      PROVE  IInv'
  <2> DEFINE x == [IdleProd EXCEPT !.pc = "sending", !.event = [kind |-> kind, batch |-> b]]
  <2>1. [kind |-> kind, batch |-> b] \in Events BY <1>1, AnEvent, Zenon DEF Kinds
  <2>2. x \in Prods /\ x.pc = "sending"
    BY <2>1, IdleTyped, Zenon DEF Prods, ProdPCs, IdleProd
  <2>3. /\ prod' = [prod EXCEPT ![p] = x]
        /\ UNCHANGED <<db, index, pub, proc, pending, life>>
    BY <1>1, Zenon DEF Send
  <2> HIDE DEF x
  <2> QED BY <2>2, <2>3, ProducerStep, Zenon
<1>2. CASE \E b \in Batches : Send(p, "batch", b)
  BY <1>1, <1>2, ClientsConfig
<1>3. CASE \E m \in PlainEvents : Send(p, "event", Batch(<<m>>, FALSE, {}))
  BY <1>1, <1>3, SingleBatch, Zenon
<1>4. ASSUME NEW out \in Told
      PROVE  [IdleProd EXCEPT !.out = out] \in Prods
             /\ [IdleProd EXCEPT !.out = out].pc = "idle"
  BY IdleTyped DEF Prods, IdleProd
<1>5. CASE Sync(p)
  <2> DEFINE x == IF life.stopped THEN [IdleProd EXCEPT !.out = "stopped"]
                  ELSE IF ~life.started THEN [IdleProd EXCEPT !.out = "unstarted"]
                  ELSE [IdleProd EXCEPT !.pc = "sending",
                                        !.event = [kind |-> "barrier", batch |-> NoBatch]]
  <2>1. [kind |-> "barrier", batch |-> NoBatch] \in Events
    BY EmptyBatch, AnEvent, Zenon DEF Kinds
  <2>2. LET y == [IdleProd EXCEPT !.pc = "sending",
                                  !.event = [kind |-> "barrier", batch |-> NoBatch]]
        IN  y \in Prods /\ y.pc = "sending"
    BY <2>1, IdleTyped, Zenon DEF Prods, ProdPCs, IdleProd
  <2>3. "stopped" \in Told /\ "unstarted" \in Told BY DEF Told, Results
  <2>4. x \in Prods /\ x.pc \in {"idle", "sending"} BY <1>4, <2>2, <2>3
  <2>5. /\ prod' = [prod EXCEPT ![p] = x]
        /\ UNCHANGED <<db, index, pub, proc, pending, life>>
    BY <1>5 DEF Sync
  <2> HIDE DEF x
  <2> QED BY <2>4, <2>5, ProducerStep, Zenon
<1>6. CASE CancelSend(p)
  <2>1. "cancelled" \in Told BY DEF Told, Results
  <2> DEFINE x == [IdleProd EXCEPT !.out = "cancelled"]
  <2>2. x \in Prods /\ x.pc = "idle" BY <1>4, <2>1
  <2>3. /\ prod' = [prod EXCEPT ![p] = x]
        /\ UNCHANGED <<db, index, pub, proc, pending, life>>
    BY <1>6 DEF CancelSend
  <2> HIDE DEF x
  <2> QED BY <2>2, <2>3, ProducerStep, Zenon
<1>7. CASE BeginWait(p)
  <2>1. prod[p].pc = "sent" /\ proc.from = p
    BY <1>7 DEF BeginWait, IInv, Held
  <2> DEFINE x == [prod[p] EXCEPT !.pc = "waiting"]
  <2>2. prod[p] \in Prods BY DEF IInv, Typed
  <2>3. x \in Prods /\ x.event = prod[p].event BY <2>2 DEF Prods, ProdPCs
  <2>4. /\ prod' = [prod EXCEPT ![p] = x]
        /\ UNCHANGED <<db, index, pub, proc, pending, life>>
    BY <1>7, <2>1 DEF BeginWait
  <2> HIDE DEF x
  <2> QED BY <2>1, <2>3, <2>4, ProducerStep, Zenon
<1> QED BY <1>2, <1>3, <1>5, <1>6, <1>7, Zenon

\* A step of Start or Stop alone.
LEMMA LifeStep ==
  ASSUME IInv, life' \in Lives, Closing',
         UNCHANGED <<db, index, pub, proc, prod, pending>>
  PROVE  IInv'
<1>1. Typed' BY DEF IInv, Typed, Data
<1>2. Held' BY DEF IInv, Held
<1>3. Fits' /\ Work' /\ KeysUnique' /\ IndexFresh'
  BY DEF IInv, Fits, Work, KeysUnique, IndexFresh
<1> QED BY <1>1, <1>2, <1>3 DEF IInv

LEMMA LivesHold ==
  ASSUME IInv, Start \/ StopLock \/ StopSignal \/ StopClose
  PROVE  IInv'
<1>0. life \in Lives /\ Closing BY DEF IInv, Typed
<1>1. CASE Start
  <2>1. life' \in Lives /\ Closing'
    BY <1>0, <1>1, Zenon DEF Start, Lives, Closing, OpenWhileProcessing
  <2> QED BY <1>1, <2>1, LifeStep DEF Start
<1>2. CASE StopLock
  <2>1. life' \in Lives /\ Closing'
    BY <1>0, <1>2 DEF StopLock, Lives, Closing, OpenWhileProcessing
  <2> QED BY <1>2, <2>1, LifeStep DEF StopLock
<1>3. CASE StopSignal
  <2>1. life' \in Lives /\ Closing'
    BY <1>0, <1>3, Zenon DEF StopSignal, Lives, Closing, OpenWhileProcessing
  <2> QED BY <1>3, <2>1, LifeStep DEF StopSignal
<1>4. CASE StopClose
  <2>1. life' \in Lives /\ Closing'
    BY <1>0, <1>4 DEF StopClose, Lives, Closing, OpenWhileProcessing
  <2> QED BY <1>4, <2>1, LifeStep DEF StopClose
<1> QED BY <1>1, <1>2, <1>3, <1>4

\* The end of a wait: the producer goes and the processor may recycle.
LEMMA WaitStep ==
  ASSUME IInv, NEW p \in Producers, prod[p].pc = "waiting",
         NEW x \in Prods, x.pc = "idle",
         prod' = [prod EXCEPT ![p] = x],
         proc' = [proc EXCEPT !.waitDone = TRUE], UNCHANGED storeVars
  PROVE  IInv'
<1>0. UNCHANGED <<db, index, pub, pending, life>> BY DEF storeVars
<1>1. proc \in Procs /\ prod \in [Producers -> Prods] BY DEF IInv, Typed
<1>2. /\ proc' \in Procs /\ proc'.pc = proc.pc /\ proc'.event = proc.event
      /\ proc'.result = proc.result
  BY <1>1, Zenon DEF Procs
<1>3. prod' \in [Producers -> Prods] BY <1>1
<1>4. Typed' BY <1>0, <1>2, <1>3 DEF IInv, Typed, Data
<1>5. Held'
  <2>1. proc.from = p BY DEF IInv, Held
  <2>2. \A q \in Producers : prod'[q].pc \notin {"sent", "waiting"}
    BY <1>1, <2>1 DEF IInv, Held
  <2> QED BY <2>2 DEF Held
<1>6. Fits' /\ Work' /\ KeysUnique' /\ IndexFresh'
  BY <1>0, <1>2 DEF IInv, Fits, Work, KeysUnique, IndexFresh
<1>7. Closing' BY <1>0, <1>2 DEF IInv, Closing, OpenWhileProcessing
<1> QED BY <1>4, <1>5, <1>6, <1>7 DEF IInv

LEMMA WaitsHold ==
  ASSUME IInv, NEW p \in Producers, WaitResult(p) \/ WaitCancelled(p)
  PROVE  IInv'
<1>0. proc \in Procs BY DEF IInv, Typed
<1>1. CASE WaitResult(p)
  <2> DEFINE x == [IdleProd EXCEPT !.out = proc.result, !.rejected = proc.rejected]
  <2>1. proc.result \in Told /\ proc.rejected \in SUBSET Nat
    BY <1>0 DEF Procs, Verdicts, Told, Results
  <2>2. x \in Prods /\ x.pc = "idle" BY <2>1, IdleTyped, Zenon DEF Prods, IdleProd
  <2>3. /\ prod[p].pc = "waiting" /\ prod' = [prod EXCEPT ![p] = x]
        /\ proc' = [proc EXCEPT !.waitDone = TRUE] /\ UNCHANGED storeVars
    BY <1>1 DEF WaitResult
  <2> HIDE DEF x
  <2> QED BY <2>2, <2>3, WaitStep, Zenon
<1>2. CASE WaitCancelled(p)
  <2> DEFINE x == [IdleProd EXCEPT !.out = "cancelled"]
  <2>1. "cancelled" \in Told BY DEF Told, Results
  <2>2. x \in Prods /\ x.pc = "idle" BY <2>1, IdleTyped DEF Prods, IdleProd
  <2>3. /\ prod[p].pc = "waiting" /\ prod' = [prod EXCEPT ![p] = x]
        /\ proc' = [proc EXCEPT !.waitDone = TRUE] /\ UNCHANGED storeVars
    BY <1>2 DEF WaitCancelled
  <2> HIDE DEF x
  <2> QED BY <2>2, <2>3, WaitStep, Zenon
<1> QED BY <1>1, <1>2

\* The channel hands an event to a processor that holds none.
LEMMA ReceiveHolds ==
  ASSUME IInv, NEW p \in Producers, Receive(p)
  PROVE  IInv'
<1>0. /\ UNCHANGED <<db, index, pub, pending, life>>
      /\ proc.pc = "receive" /\ prod[p].pc = "sending" /\ life.started
  BY DEF Receive, storeVars
<1>1. prod[p] \in Prods /\ prod \in [Producers -> Prods] BY DEF IInv, Typed
<1> DEFINE x == IF prod[p].event.kind = "event" THEN IdleProd
                ELSE [prod[p] EXCEPT !.pc = "sent"]
<1>2. /\ x \in Prods
      /\ x.pc \in {"sent", "waiting"} => /\ prod[p].event.kind # "event"
                                         /\ x.event = prod[p].event
  BY <1>1, IdleTyped DEF Prods, ProdPCs, IdleProd
<1>3. prod' = [prod EXCEPT ![p] = x] BY DEF Receive
<1>4. prod' \in [Producers -> Prods] /\ prod'[p] = x
      /\ \A q \in Producers \ {p} : prod'[q] = prod[q]
  BY <1>1, <1>2, <1>3
<1> HIDE DEF x
<1>5. prod[p].event \in Events BY <1>1 DEF Prods
<1>6. /\ proc' \in Procs /\ proc'.from = p /\ proc'.event = prod[p].event
      /\ ~proc'.waitDone
      /\ proc'.pc = IF prod[p].event.kind = "barrier" THEN "barrier" ELSE "process"
  BY <1>5, IdleTyped, Zenon DEF Receive, Procs, ProcPCs, IdleProc
<1>7. Typed' BY <1>0, <1>4, <1>6 DEF IInv, Typed, Data
<1>8. Held'
  <2>1. \A q \in Producers \ {p} : prod[q].pc \notin {"sent", "waiting"}
    BY <1>0 DEF IInv, Held
  <2> QED BY <1>2, <1>4, <1>6, <2>1 DEF Held
<1>9. Fits' /\ Work' BY <1>6 DEF Fits, Work
<1>10. KeysUnique' /\ IndexFresh'
  BY <1>0 DEF IInv, KeysUnique, IndexFresh
<1>11. Closing' BY <1>0 DEF IInv, Closing, OpenWhileProcessing
<1> QED BY <1>7, <1>8, <1>9, <1>10, <1>11 DEF IInv

\* The processor answers without a change to the file or to what it derives.
LEMMA ReplyStep ==
  ASSUME IInv, proc.pc \in {"barrier", "process"},
         NEW result \in Verdicts, NEW rejected \in SUBSET Nat,
         proc.pc = "process" => result # "ok",
         Reply(result, rejected), pending' \in BOOLEAN,
         UNCHANGED <<db, index, pub, prod, life>>
  PROVE  IInv'
<1>1. proc \in Procs BY DEF IInv, Typed
<1>2. /\ proc' \in Procs /\ proc'.pc = "replied" /\ proc'.result = result
      /\ proc'.event = proc.event /\ proc'.from = proc.from
      /\ proc'.waitDone = proc.waitDone
  BY <1>1, Zenon DEF Reply, Procs, ProcPCs
<1>3. Typed' BY <1>2 DEF IInv, Typed, Data
<1>4. Held' BY <1>2 DEF IInv, Held
<1>5. Fits' BY <1>2 DEF Fits
<1>6. Work' BY <1>2 DEF IInv, Fits, Work
<1>7. KeysUnique' /\ IndexFresh'
  BY <1>2 DEF IInv, KeysUnique, IndexFresh
<1>8. Closing' BY <1>2 DEF IInv, Closing, OpenWhileProcessing
<1> QED BY <1>3, <1>4, <1>5, <1>6, <1>7, <1>8 DEF IInv

LEMMA RepliesHold ==
  ASSUME IInv, Barrier \/ Reject \/ TransactionFails
  PROVE  IInv'
<1>0. /\ proc \in Procs /\ pending \in BOOLEAN /\ IsBatch(proc.event.batch)
      /\ Rejected(index, proc.event.batch) \in SUBSET Nat
  BY RejectedPositions DEF IInv, Typed, Data, Procs, Events
<1>1. CASE Barrier
  <2> DEFINE result == IF pending THEN "error" ELSE "ok"
  <2>1. result \in Verdicts BY DEF Verdicts
  <2>2. Reply(result, proc.rejected) BY <1>0, <1>1, Zenon DEF Barrier, Reply, Procs
  <2>3. proc.rejected \in SUBSET Nat BY <1>0 DEF Procs
  <2>4. /\ proc.pc = "barrier" /\ pending' \in BOOLEAN
        /\ UNCHANGED <<db, index, pub, prod, life>>
    BY <1>1, Zenon DEF Barrier
  <2> HIDE DEF result
  <2> QED BY <2>1, <2>2, <2>3, <2>4, ReplyStep
<1>2. CASE Reject
  <2>1. "rejected" \in Verdicts BY DEF Verdicts
  <2>2. /\ Reply("rejected", Rejected(index, proc.event.batch))
        /\ proc.pc = "process" /\ pending' \in BOOLEAN
        /\ UNCHANGED <<db, index, pub, prod, life>>
    BY <1>0, <1>2 DEF Reject, storeVars
  <2> QED BY <1>0, <2>1, <2>2, ReplyStep
<1>3. CASE TransactionFails
  <2>1. "error" \in Verdicts BY DEF Verdicts
  <2>2. /\ Reply("error", {}) /\ {} \in SUBSET Nat
        /\ proc.pc = "process" /\ pending' \in BOOLEAN
        /\ UNCHANGED <<db, index, pub, prod, life>>
    BY <1>0, <1>3 DEF TransactionFails, storeVars
  <2> QED BY <2>1, <2>2, ReplyStep
<1> QED BY <1>1, <1>2, <1>3

\* The transaction: an accepted batch leaves unique keys.
LEMMA WriteHolds ==
  ASSUME IInv, Write
  PROVE  IInv'
<1> DEFINE b == proc.event.batch
<1>0. /\ proc.pc = "process" /\ Rejected(index, b) = {} /\ db' = Commit(db, b)
      /\ proc' = [proc EXCEPT !.pc = "derive"]
      /\ UNCHANGED <<index, pub, prod, pending, life>>
  BY DEF Write
<1>1. proc \in Procs BY DEF IInv, Typed
<1>2. /\ proc' \in Procs /\ proc'.pc = "derive" /\ proc'.result = proc.result
      /\ proc'.event = proc.event /\ proc'.from = proc.from
      /\ proc'.waitDone = proc.waitDone
  BY <1>0, <1>1 DEF Procs, ProcPCs
<1>3. IsBatch(b) /\ IsTable(db) /\ ~RebuildFails(db) /\ index = ConsumerToKeys(db)
  BY <1>0, <1>1 DEF Procs, Events, IInv, Typed, Data, KeysUnique, IndexFresh
<1>4. IsTable(db') BY <1>0, <1>3, CommitTable
<1>5. KeysUnique' BY <1>0, <1>3, AcceptanceIsExact DEF KeysUnique
<1>6. Applied(db', b) BY <1>0, CommitTwice DEF Applied
<1>7. ~Touches(b, Consumers) => index' = ConsumerToKeys(db')
  BY <1>0, <1>3, UntouchedIndex
<1> HIDE DEF b
<1>8. Typed' BY <1>0, <1>2, <1>4 DEF IInv, Typed, Data
<1>9. Held' BY <1>0, <1>2 DEF IInv, Held
<1>10. Fits' BY <1>0, <1>2 DEF IInv, Fits
<1>11. Work' BY <1>2, <1>6, <1>7 DEF Work, b
<1>12. IndexFresh' BY <1>2 DEF IndexFresh
<1>13. Closing' BY <1>0, <1>2 DEF IInv, Closing, OpenWhileProcessing
<1> QED BY <1>5, <1>8, <1>9, <1>10, <1>11, <1>12, <1>13 DEF IInv

\* The index is rebuilt from the committed rows, and cannot fail.
LEMMA DeriveHolds ==
  ASSUME IInv, Derive
  PROVE  IInv'
<1> DEFINE b == proc.event.batch
<1>0. proc.pc = "derive" /\ UNCHANGED <<db, pub, prod, pending, life>> BY DEF Derive
<1>1. proc \in Procs /\ IsTable(db) /\ index \in [Consumers -> SUBSET Keys]
  BY DEF IInv, Typed, Data
<1>2. ~RebuildFails(db) /\ Applied(db, b) BY <1>0 DEF IInv, KeysUnique, Work
<1>3. proc' = [proc EXCEPT !.pc = "hooks"]
  BY <1>2 DEF Derive
<1>4. index' = ConsumerToKeys(db)
  <2>1. CASE ~Touches(b, Consumers)
    <3>1. index = ConsumerToKeys(db) BY <1>0, <2>1 DEF IInv, Work
    <3> QED BY <2>1, <3>1 DEF Derive
  <2>2. CASE Touches(b, Consumers) BY <1>2, <2>2 DEF Derive
  <2> QED BY <2>1, <2>2
<1>5. /\ proc' \in Procs /\ proc'.pc = "hooks" /\ proc'.result = proc.result
      /\ proc'.event = proc.event /\ proc'.from = proc.from
      /\ proc'.waitDone = proc.waitDone
  BY <1>1, <1>3 DEF Procs, ProcPCs
<1> HIDE DEF b
<1>6. index' \in [Consumers -> SUBSET Keys] BY <1>1, <1>4, IndexTyped
<1>7. Typed' BY <1>0, <1>5, <1>6 DEF IInv, Typed, Data
<1>8. Held' BY <1>0, <1>5 DEF IInv, Held
<1>9. Fits' BY <1>0, <1>5 DEF IInv, Fits
<1>10. Work' BY <1>0, <1>2, <1>5 DEF Work, b
<1>11. KeysUnique' /\ IndexFresh' BY <1>0, <1>2, <1>4 DEF KeysUnique, IndexFresh
<1>12. Closing' BY <1>0, <1>5 DEF IInv, Closing, OpenWhileProcessing
<1> QED BY <1>7, <1>8, <1>9, <1>10, <1>11, <1>12 DEF IInv

\* The hooks publish the file, or report that they did not.
LEMMA HooksHold ==
  ASSUME IInv, Hooks
  PROVE  IInv'
<1> DEFINE b == proc.event.batch
<1>0. proc.pc = "hooks" /\ UNCHANGED <<db, index, prod, pending, life>> BY DEF Hooks
<1>1. proc \in Procs /\ IsTable(db) BY DEF IInv, Typed, Data
<1>2. PICK result \in {"ok", "error"} :
        /\ Reply(result, {})
        /\ pub' \in {pub, OthersOf(db)}
        /\ (result = "ok" /\ Touches(b, Others)) => pub' = OthersOf(db)
  BY DEF Hooks
<1>3. /\ proc' \in Procs /\ proc'.pc = "replied" /\ proc'.result = result
      /\ proc'.event = proc.event /\ proc'.from = proc.from
      /\ proc'.waitDone = proc.waitDone
  BY <1>1, <1>2, Zenon DEF Reply, Procs, ProcPCs, Verdicts
<1>4. Applied(db, b) BY <1>0 DEF IInv, Work
<1> HIDE DEF b
<1>5. pub' \in [Others -> Rows] /\ \A r \in Others : IsRow(pub'[r])
  BY <1>1, <1>2, OthersTyped DEF IInv, Typed, Data
<1>6. Typed' BY <1>0, <1>3, <1>5 DEF IInv, Typed, Data
<1>7. Held' BY <1>0, <1>3 DEF IInv, Held
<1>8. Fits' BY <1>3 DEF Fits
<1>9. Work' BY <1>0, <1>2, <1>3, <1>4 DEF Work, OthersOf, b
<1>10. KeysUnique' /\ IndexFresh' BY <1>0 DEF IInv, KeysUnique, IndexFresh
<1>11. Closing' BY <1>0, <1>3 DEF IInv, Closing, OpenWhileProcessing
<1> QED BY <1>6, <1>7, <1>8, <1>9, <1>10, <1>11 DEF IInv

\* The event is recycled only when nobody waits on it.
LEMMA CompleteHolds ==
  ASSUME IInv, Complete
  PROVE  IInv'
<1>0. /\ proc.pc = "replied" /\ proc' = IdleProc
      /\ UNCHANGED <<db, index, pub, prod, life>>
      /\ proc.event.kind = "event" \/ proc.waitDone
  BY DEF Complete
<1>1. pending' \in BOOLEAN BY DEF Complete
<1>2. Typed' BY <1>0, <1>1, IdleTyped DEF IInv, Typed, Data
<1>3. Held'
  <2>1. \A q \in Producers : prod[q].pc \notin {"sent", "waiting"}
    BY <1>0 DEF IInv, Held
  <2> QED BY <1>0, <2>1 DEF Held
<1>4. Fits' /\ Work' BY <1>0 DEF Fits, Work, IdleProc
<1>5. KeysUnique' /\ IndexFresh' BY <1>0 DEF IInv, KeysUnique, IndexFresh
<1>6. Closing' BY <1>0 DEF IInv, Closing, OpenWhileProcessing
<1> QED BY <1>2, <1>3, <1>4, <1>5, <1>6 DEF IInv

LEMMA ExitHolds ==
  ASSUME IInv, Exit
  PROVE  IInv'
<1>0. /\ proc.pc = "receive" /\ proc' = [proc EXCEPT !.pc = "exited"]
      /\ UNCHANGED <<db, index, pub, prod, pending, life>>
  BY DEF Exit, storeVars
<1>1. proc \in Procs BY DEF IInv, Typed
<1>2. proc' \in Procs /\ proc'.pc = "exited" BY <1>0, <1>1 DEF Procs, ProcPCs
<1>3. Typed' BY <1>0, <1>2 DEF IInv, Typed, Data
<1>4. Held'
  <2>1. \A q \in Producers : prod[q].pc \notin {"sent", "waiting"}
    BY <1>0 DEF IInv, Held
  <2> QED BY <1>0, <2>1 DEF Held
<1>5. Fits' /\ Work' BY <1>2 DEF Fits, Work
<1>6. KeysUnique' /\ IndexFresh' BY <1>0 DEF IInv, KeysUnique, IndexFresh
<1>7. Closing' BY <1>0, <1>2 DEF IInv, Closing, OpenWhileProcessing
<1> QED BY <1>3, <1>4, <1>5, <1>6, <1>7 DEF IInv

LEMMA RestartHolds ==
  ASSUME IInv, Restart
  PROVE  IInv'
<1>0. /\ db' = db /\ index' = ConsumerToKeys(db) /\ pub' = OthersOf(EmptyTable)
      /\ proc' = IdleProc /\ prod' = [p \in Producers |-> IdleProd]
      /\ pending' = FALSE
      /\ life' = [started |-> FALSE, stopped |-> FALSE, stop |-> "none"]
  BY DEF Restart
<1>1. IsTable(db) BY DEF IInv, Typed, Data
<1>2. Data' BY <1>0, <1>1, IndexTyped, EmptyTyped, OthersTyped, Zenon DEF Data
<1>3. Typed' BY <1>0, <1>2, IdleTyped DEF Typed, Lives
<1>4. Held' /\ Fits' /\ Work' BY <1>0 DEF Held, Fits, Work, IdleProc, IdleProd
<1>5. KeysUnique' /\ IndexFresh' BY <1>0 DEF IInv, KeysUnique, IndexFresh
<1>6. Closing' BY <1>0 DEF Closing, OpenWhileProcessing
<1> QED BY <1>3, <1>4, <1>5, <1>6 DEF IInv

LEMMA NextHolds == IInv /\ [Next]_vars => IInv'
<1> SUFFICES ASSUME IInv, [Next]_vars PROVE IInv' OBVIOUS
<1>1. CASE ClientNext
  BY <1>1, ProducersHold, WaitsHold, Zenon DEF ClientNext
<1>2. CASE StoreNext
  BY <1>2, LivesHold, RepliesHold, WriteHolds, DeriveHolds, HooksHold, CompleteHolds,
     ExitHolds, ReceiveHolds DEF StoreNext
<1>3. CASE Restart BY <1>3, RestartHolds
<1>4. CASE UNCHANGED vars
  <2>1. UNCHANGED <<db, index, pub, proc, prod, pending, life>> BY <1>4 DEF vars
  <2>2. Typed' BY <2>1 DEF IInv, Typed, Data
  <2>3. Held' /\ Fits' /\ Work' /\ KeysUnique' /\ IndexFresh'
    BY <2>1 DEF IInv, Held, Fits, Work, KeysUnique, IndexFresh
  <2>4. Closing' BY <2>1 DEF IInv, Closing, OpenWhileProcessing
  <2> QED BY <2>2, <2>3, <2>4 DEF IInv
<1> QED BY <1>1, <1>2, <1>3, <1>4 DEF Next

LEMMA Invariant == Spec => []IInv
BY InitHolds, NextHolds, PTL DEF Spec

----------------------------------------------------------------------------
(* What the store guarantees *)

LEMMA ProcTyped ==
  ASSUME IInv
  PROVE  /\ proc \in Procs /\ IsBatch(proc.event.batch)
         /\ proc.pc \in ProcPCs /\ proc.result \in Results /\ proc.waitDone \in BOOLEAN
<1>1. proc \in Procs BY DEF IInv, Typed
<1>2. proc.event \in Events /\ proc.pc \in ProcPCs /\ proc.result \in Verdicts
      /\ proc.waitDone \in BOOLEAN
  BY <1>1 DEF Procs
<1> QED BY <1>1, <1>2 DEF Events, Verdicts, Results

LEMMA ProdTyped ==
  ASSUME IInv, NEW p \in Producers
  PROVE  /\ prod[p].pc \in ProdPCs
         /\ prod[p].out \in Results /\ prod[p].out # "unacknowledged"
         /\ IsBatch(prod[p].event.batch)
<1>1. prod[p] \in Prods BY DEF IInv, Typed
<1>2. prod[p].event \in Events /\ prod[p].pc \in ProdPCs /\ prod[p].out \in Told
  BY <1>1 DEF Prods
<1> QED BY <1>2 DEF Events, Told

\* In every state the program can reach, whatever the producers send, cancel
\* or lose in a crash: the variables have their types, no two persisted
\* consumers share a key, the lookup index is the one of the persisted rows
\* unless a rebuild is under way, no waiter finds its event recycled, and the
\* file is open while a processor runs.
THEOREM StoreStaysConsistent == Spec => []StoreConsistent
<1>1. IInv => StoreConsistent
  <2> SUFFICES ASSUME IInv PROVE StoreConsistent OBVIOUS
  <2>1. /\ IsTable(db) /\ index \in [Consumers -> SUBSET Keys]
        /\ DOMAIN pub = Others /\ \A r \in Others : IsRow(pub[r])
        /\ pending \in BOOLEAN
    BY DEF IInv, Typed, Data
  <2>2. life.stop \in {"none", "locking", "signalled", "closed"}
    BY DEF IInv, Typed, Lives
  <2>3. TypeOK BY <2>1, <2>2, ProcTyped, ProdTyped DEF TypeOK, ProcPCs, ProdPCs
  <2>4. WaiterKeepsEvent BY ProdTyped DEF WaiterKeepsEvent
  <2>5. KeysUnique /\ IndexFresh /\ OpenWhileProcessing BY DEF IInv, Closing
  <2> QED BY <2>3, <2>4, <2>5 DEF StoreConsistent
<1> QED BY <1>1, Invariant, PTL

\* A producer that is told "ok" finds its batch in the file, the index rebuilt
\* from it and, when it touches published resources, the file published.
THEOREM AcknowledgedIsApplied == Spec => AckedIsApplied
<1> DEFINE Ack(p) ==
      (prod[p].pc = "waiting" /\ prod[p].event.kind = "batch"
         /\ prod'[p].pc = "idle" /\ prod'[p].out = "ok")
        => /\ Applied(db, prod[p].event.batch)
           /\ index = ConsumerToKeys(db)
           /\ Touches(prod[p].event.batch, Others) => pub = OthersOf(db)
<1>1. ASSUME IInv, Next, NEW p \in Producers,
             prod[p].pc = "waiting", prod[p].event.kind = "batch",
             prod'[p].pc = "idle", prod'[p].out = "ok"
      PROVE  Ack(p)
  <2>0. prod \in [Producers -> Prods] BY <1>1 DEF IInv, Typed
  <2>1. WaitResult(p)
    <3>1. ASSUME NEW q \in Producers, NEW x, prod' = [prod EXCEPT ![q] = x],
                 prod[q].pc # "waiting" \/ x.out # "ok"
          PROVE  FALSE
      BY <1>1, <2>0, <3>1
    <3>2. ASSUME prod' = prod PROVE FALSE BY <1>1, <3>2
    <3>3. ~StoreNext
      <4>1. ASSUME NEW q \in Producers, Receive(q) PROVE FALSE
        <5>1. prod[q].pc # "waiting" BY <4>1 DEF Receive
        <5> QED BY <3>1, <4>1, <5>1, Zenon DEF Receive
      <4>2. ~Start /\ ~Barrier /\ ~Reject /\ ~TransactionFails /\ ~Write
        BY <3>2 DEF Start, Barrier, Reject, TransactionFails, Write
      <4>3. ~Derive /\ ~Hooks /\ ~Complete /\ ~Exit
        BY <3>2 DEF Derive, Hooks, Complete, Exit
      <4>4. ~StopLock /\ ~StopSignal /\ ~StopClose
        BY <3>2 DEF StopLock, StopSignal, StopClose
      <4> QED BY <4>1, <4>2, <4>3, <4>4 DEF StoreNext
    <3>4. ~Restart BY <1>1 DEF Restart, IdleProd
    <3>5. PICK q \in Producers :
            \/ \E b \in Batches : Send(q, "batch", b)
            \/ \E m \in PlainEvents : Send(q, "event", Batch(<<m>>, FALSE, {}))
            \/ Sync(q) \/ CancelSend(q) \/ BeginWait(q) \/ WaitResult(q) \/ WaitCancelled(q)
      BY <1>1, <3>3, <3>4, Zenon DEF Next, ClientNext
    <3>6. ASSUME NEW kind, NEW b, Send(q, kind, b) PROVE FALSE
      <4>1. prod[q].pc # "waiting" BY <3>6 DEF Send
      <4> QED BY <3>1, <3>6, <4>1, Zenon DEF Send
    <3>7. ~Sync(q)
      <4>1. SUFFICES ASSUME Sync(q) PROVE FALSE OBVIOUS
      <4>2. prod[q].pc # "waiting" BY <4>1 DEF Sync
      <4> QED BY <3>1, <4>1, <4>2, Zenon DEF Sync
    <3>8. ~CancelSend(q)
      <4>1. SUFFICES ASSUME CancelSend(q) PROVE FALSE OBVIOUS
      <4>2. prod[q].pc # "waiting" BY <4>1 DEF CancelSend
      <4> QED BY <3>1, <4>1, <4>2, Zenon DEF CancelSend
    <3>9. ~BeginWait(q)
      <4>1. SUFFICES ASSUME BeginWait(q) PROVE FALSE OBVIOUS
      <4>2. prod[q].pc # "waiting" BY <4>1 DEF BeginWait
      <4> QED BY <3>1, <4>1, <4>2, Zenon DEF BeginWait
    <3>10. ~WaitCancelled(q)
      <4>1. SUFFICES ASSUME WaitCancelled(q) PROVE FALSE OBVIOUS
      <4>2. prod' = [prod EXCEPT ![q] = [IdleProd EXCEPT !.out = "cancelled"]]
        BY <4>1 DEF WaitCancelled
      <4>3. [IdleProd EXCEPT !.out = "cancelled"].out # "ok" BY DEF IdleProd
      <4> QED BY <3>1, <4>2, <4>3, Zenon
    <3>11. WaitResult(q) BY <3>5, <3>6, <3>7, <3>8, <3>9, <3>10, Zenon
    <3>12. q = p
      <4>1. ASSUME q # p PROVE FALSE
        <5>1. prod'[p] = prod[p] BY <2>0, <3>11, <4>1 DEF WaitResult
        <5> QED BY <1>1, <5>1
      <4> QED BY <4>1
    <3> QED BY <3>11, <3>12
  <2>2. prod'[p].out = proc.result
    BY <2>0, <2>1 DEF WaitResult, IdleProd
  <2>3. proc.pc = "replied" /\ proc.result = "ok" BY <1>1, <2>1, <2>2 DEF WaitResult
  <2>4. proc.event = prod[p].event BY <1>1 DEF IInv, Held
  <2>5. index = ConsumerToKeys(db) BY <1>1, <2>3 DEF IInv, IndexFresh
  <2> QED BY <1>1, <2>3, <2>4, <2>5 DEF IInv, Work
<1>2. IInv /\ [Next]_vars => [\A p \in Producers : Ack(p)]_vars
  BY <1>1
<1>3. [][\A p \in Producers : Ack(p)]_vars <=> AckedIsApplied
  BY DEF AckedIsApplied
<1> HIDE DEF Ack
<1> QED BY <1>2, <1>3, Invariant, PTL DEF Spec

\* The contract speaks of the same batches and tables.
LEMMA ContractAgrees ==
  /\ Contract!Resources = Resources /\ Contract!None = None
  /\ \A m : Contract!Malformed(m) = Malformed(m)
  /\ \A t : Contract!RebuildFails(t) <=> RebuildFails(t)
  /\ \A t, b : Contract!Commit(t, b) = Commit(t, b)
<1>1. Contract!Resources = Resources /\ Contract!None = None
  BY DEF Contract!Resources, Resources, Contract!None, None
<1>2. \A m : Contract!Malformed(m) = Malformed(m)
  BY DEF Contract!Malformed, Malformed
<1>3. \A t : Contract!ConsumerToKeys(t) = ConsumerToKeys(t)
  BY DEF Contract!ConsumerToKeys, ConsumerToKeys
<1>4. \A t : Contract!RebuildFails(t) <=> RebuildFails(t)
  BY <1>3 DEF Contract!RebuildFails, RebuildFails
<1>5. \A S : Contract!Max(S) = Max(S)
  BY DEF Contract!Max, Max
<1>6. \A m, r : Contract!LastMutation(m, r) = LastMutation(m, r)
  BY <1>5 DEF Contract!LastMutation, LastMutation
<1>7. \A t, b : Contract!Commit(t, b) = Commit(t, b)
  BY <1>1, <1>6 DEF Contract!Commit, Commit
<1> QED BY <1>1, <1>2, <1>4, <1>7

\* The event loop refines its contract: the file only moves from one valid
\* table to the next, by one whole batch that was offered.
THEOREM StoreImplementsContract == Spec => ImplementsContract
<1> DEFINE batch == proc.event.batch
<1> DEFINE offer == IF proc.pc = "process" THEN <<proc.event.batch>> ELSE <<>>
<1>1. Init => Contract!ContractInit
  BY ContractAgrees DEF Init, Contract!ContractInit, IdleProc, EmptyTable
<1>2. ASSUME IInv, [Next]_vars
      PROVE  [Contract!Offer \/ Contract!Take \/ Contract!Drop]_(Contract!ContractVars)
  <2>0. proc \in Procs /\ IsBatch(batch) BY <1>2, ProcTyped
  <2>1. ASSUME db' = db, proc'.pc # "process", proc.pc # "process"
        PROVE  UNCHANGED Contract!ContractVars
    BY <2>1 DEF Contract!ContractVars
  <2>2. ASSUME db' = db, proc'.pc = proc.pc, proc'.event = proc.event
        PROVE  UNCHANGED Contract!ContractVars
    BY <2>2 DEF Contract!ContractVars
  <2>3. ASSUME db' = db, proc.pc # "process", proc'.pc = "process"
        PROVE  Contract!Offer
    BY <2>3 DEF Contract!Offer
  <2>4. ASSUME db' = db, proc.pc = "process", proc'.pc # "process"
        PROVE  Contract!Drop
    BY <2>4 DEF Contract!Drop
  <2>5. CASE UNCHANGED vars BY <2>2, <2>5 DEF vars
  <2>6. CASE ClientNext
    <3>1. db' = db /\ proc'.pc = proc.pc /\ proc'.event = proc.event
      <4>1. PICK p \in Producers :
              \/ \E b \in Batches : Send(p, "batch", b)
              \/ \E m \in PlainEvents : Send(p, "event", Batch(<<m>>, FALSE, {}))
              \/ Sync(p) \/ CancelSend(p) \/ BeginWait(p) \/ WaitResult(p) \/ WaitCancelled(p)
        BY <2>6, Zenon DEF ClientNext
      <4>2. db' = db /\ (proc' = proc \/ proc' = [proc EXCEPT !.waitDone = TRUE])
        BY <4>1, Zenon DEF Send, Sync, CancelSend, BeginWait, WaitResult, WaitCancelled, storeVars
      <4> QED BY <2>0, <4>2 DEF Procs
    <3> QED BY <2>2, <3>1
  <2>7. CASE Start \/ StopLock \/ StopSignal \/ StopClose
    BY <2>2, <2>7 DEF Start, StopLock, StopSignal, StopClose
  <2>8. CASE \E p \in Producers : Receive(p)
    <3>1. PICK p \in Producers : Receive(p) BY <2>8
    <3>2. db' = db /\ proc.pc = "receive" /\ proc'.pc \in {"barrier", "process"}
      BY <3>1 DEF Receive, storeVars, IdleProc
    <3> QED BY <2>1, <2>3, <3>2
  <2>9. CASE Barrier
    BY <2>0, <2>1, <2>9 DEF Barrier, Procs
  <2>10. CASE Reject \/ TransactionFails
    <3>1. db' = db /\ proc.pc = "process" /\ proc'.pc = "replied"
      BY <2>0, <2>10, Zenon DEF Reject, TransactionFails, Reply, storeVars, Procs
    <3> QED BY <2>4, <3>1
  <2>11. CASE Write
    <3>1. /\ proc.pc = "process" /\ Rejected(index, batch) = {} /\ db' = Commit(db, batch)
          /\ proc'.pc = "derive"
      BY <2>0, <2>11 DEF Write, Procs
    <3>2. IsTable(db) /\ ~RebuildFails(db) /\ index = ConsumerToKeys(db)
      BY <1>2, <3>1 DEF IInv, Typed, Data, KeysUnique, IndexFresh
    <3>3. Malformed(batch.muts) = {} /\ ~RebuildFails(Commit(db, batch))
      BY <2>0, <3>1, <3>2, AcceptanceIsExact
    <3>4. Contract!Valid(batch) BY <3>3, ContractAgrees DEF Contract!Valid
    <3>5. offer = <<batch>> /\ offer' = <<>> BY <3>1
    <3>6. offer[1] = batch /\ offer # <<>> BY <3>5
    <3>7. Contract!Take BY <3>1, <3>4, <3>5, <3>6, ContractAgrees DEF Contract!Take
    <3> QED BY <3>7
  <2>12. CASE Derive
    <3>1. db' = db /\ proc.pc = "derive" /\ proc'.pc \in {"hooks", "replied"}
      BY <2>0, <2>12, Zenon DEF Derive, Reply, Procs
    <3> QED BY <2>1, <3>1
  <2>13. CASE Hooks
    <3>1. db' = db /\ proc.pc = "hooks" /\ proc'.pc = "replied"
      BY <2>0, <2>13, Zenon DEF Hooks, Reply, Procs
    <3> QED BY <2>1, <3>1
  <2>14. CASE Complete
    BY <2>1, <2>14 DEF Complete, IdleProc
  <2>15. CASE Exit
    <3>1. db' = db /\ proc.pc = "receive" /\ proc'.pc = "exited"
      BY <2>0, <2>15 DEF Exit, storeVars, Procs
    <3> QED BY <2>1, <3>1
  <2>16. CASE Restart
    <3>1. db' = db /\ proc'.pc = "receive" BY <2>16 DEF Restart, IdleProc
    <3> QED BY <2>1, <2>4, <3>1
  <2> QED BY <1>2, <2>5, <2>6, <2>7, <2>8, <2>9, <2>10, <2>11, <2>12, <2>13, <2>14,
             <2>15, <2>16 DEF Next, StoreNext
<1> QED BY <1>1, <1>2, Invariant, PTL DEF Spec, ImplementsContract, Contract!Spec

=============================================================================
