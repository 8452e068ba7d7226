--------------------------- MODULE ConsumerLookup ---------------------------
(* How a credential becomes a consumer: pkg/store/getter.go (the lookup       *)
(* loop, its snapshot cache and its singleflight group),                      *)
(* pkg/store/consumer_secret.go (references into the environment and Vault),  *)
(* pkg/store/consumer_kv.go (what a consumer is found by), and                *)
(* pkg/route/builder.go (the plugin bindings built once per consumer).        *)
(*                                                                            *)
(* Request goroutines look consumers up while the store's goroutine replaces  *)
(* the consumer index and the secret resource.  Nothing is locked across a    *)
(* lookup: two generation counters, read before and after, make it atomic.    *)
(* One authentication plugin is modelled; the lookups of two plugins share    *)
(* only the Vault cache.  The content of a secret is the version of the       *)
(* secret resource it was fetched with.                                       *)
EXTENDS Integers, Sequences, FiniteSets, FiniteSetsExt, SequencesExt

CONSTANTS Requests,   \* request goroutines
          Consumers,  \* a finite set of integers: the identifiers, sorted as such
          Keys,       \* what a client may present
          Content,    \* secret-resource version -> a key, or NoKey
          NoKey,      \* the resource is deleted or its field is missing
          Records,    \* per consumer, its configurations: a lookup and a digest
          MaxWrites   \* bound on consumer index replacements

VARIABLES
  values,   \* Store.consumerValues: consumer -> its record
  cgen,     \* consumerGeneration
  secret,   \* version of the secret resource in the database
  epoch,    \* identity of the Vault cache in use (vaultSecrets)
  vcache,   \* the version whose value that cache holds, or -1
  sgen,     \* secretGeneration
  wpc,      \* the store goroutine: idle, written, reset
  lcache,   \* consumerLookupCache: <<cgen, sgen>> -> snapshot; entries of past
            \* generations, which no lookup can answer from, count as expired
  flight,   \* consumerLookupGroup: <<cgen, sgen>> -> the request building it
  tmpls,    \* consumerResolution.entries: <<consumer, record>> -> state
  req       \* the requests

vars == <<values, cgen, secret, epoch, vcache, sgen, wpc, lcache, flight, tmpls, req>>

LookupConfig ==
  /\ IsFiniteSet(Requests) /\ Requests # {}
  /\ IsFiniteSet(Consumers) /\ Consumers \subseteq Nat
  /\ IsFiniteSet(Keys) /\ NoKey \notin Keys
  /\ Content \in Seq(Keys \union {NoKey}) /\ Content # <<>>
  /\ \A c \in Consumers :
       Records[c] \subseteq [lookup : Keys \union {"env", "vault"}, digest : {0, 1}]
  /\ MaxWrites \in Nat

-----------------------------------------------------------------------------
(* Consumers: what one is found by is a literal, a $env:// reference that is *)
(* not set in this process, or a $secret:// reference.                       *)

isConsumerSecretReference(lookup) == lookup \in {"env", "vault"}

(* consumerPluginLookupKey: the field a plugin finds its consumer by.        *)
LookupKey(rec) == rec.lookup

(* prepareConsumerSnapshot: the literal keys a consumer claims.              *)
PluginKeys(rec) == {k \in {LookupKey(rec)} : ~isConsumerSecretReference(k)}

(* A consumer whose configuration fails its schema is skipped, so an index   *)
(* may hold any subset of the consumers; one literal key has one owner.      *)
Indexes ==
  {v \in UNION {[C -> UNION {Records[c] : c \in C}] : C \in SUBSET Consumers} :
     /\ \A c \in DOMAIN v : v[c] \in Records[c]
     /\ \A c, d \in DOMAIN v : c # d => PluginKeys(v[c]) \intersect PluginKeys(v[d]) = {}}

-----------------------------------------------------------------------------
(* The store goroutine.                                                      *)

(* rebuildPersistedConsumerIndexes publishes the index and the generation    *)
(* under one lock.  A duplicate literal key leaves both as they were.        *)
Rebuild ==
  /\ cgen < MaxWrites
  /\ wpc = "idle"
  /\ values' \in Indexes
  /\ cgen' = cgen + 1
  /\ lcache' = <<>>
  /\ UNCHANGED <<secret, epoch, vcache, sgen, wpc, flight, tmpls, req>>

(* A secret event: the durable write, the Vault cache, then the generation.  *)
WriteSecret ==
  /\ wpc = "idle"
  /\ secret + 1 < Len(Content)
  /\ secret' = secret + 1
  /\ wpc' = "written"
  /\ UNCHANGED <<values, cgen, epoch, vcache, sgen, lcache, flight, tmpls, req>>

ResetVaultCache ==
  /\ wpc = "written"
  /\ epoch' = epoch + 1
  /\ vcache' = -1
  /\ wpc' = "reset"
  /\ UNCHANGED <<values, cgen, secret, sgen, lcache, flight, tmpls, req>>

BumpSecretGeneration ==
  /\ wpc = "reset"
  /\ sgen' = sgen + 1
  /\ lcache' = <<>>
  /\ wpc' = "idle"
  /\ UNCHANGED <<values, cgen, secret, epoch, vcache, flight, tmpls, req>>

(* Entries of both caches live a fixed time: one may expire at any moment.   *)
Expire ==
  \/ /\ vcache # -1
     /\ vcache' = -1
     /\ UNCHANGED <<values, cgen, secret, epoch, sgen, wpc, lcache, flight, tmpls, req>>
  \/ /\ lcache # <<>>
     /\ lcache' = <<>>
     /\ UNCHANGED <<values, cgen, secret, epoch, vcache, sgen, wpc, flight, tmpls, req>>

-----------------------------------------------------------------------------
(* A request.                                                                *)

Failed == [err |-> TRUE, owners |-> <<>>]
Idle == [pc |-> "idle", key |-> NoKey, gens |-> <<0, 0>>, todo |-> <<>>,
         cand |-> <<>>, owners |-> <<>>, cfg |-> 0, ep |-> 0, snap |-> Failed, rec |-> <<>>]

Done == [Idle EXCEPT !.pc = "done"]

Stored == UNCHANGED <<values, cgen, secret, epoch, sgen, wpc>>
Become(r, record) == req' = [req EXCEPT ![r] = record]
Gens == <<cgen, sgen>>

(* getConsumerByPluginKey: the generations are loaded before anything else.  *)
Start(r) ==
  /\ req[r].pc = "idle"
  /\ \E k \in Keys : Become(r, [Idle EXCEPT !.pc = "snapshot", !.key = k, !.gens = Gens])
  /\ Stored /\ UNCHANGED <<vcache, lcache, flight, tmpls>>

Retry(r) == [Idle EXCEPT !.pc = "snapshot", !.key = req[r].key, !.gens = Gens]

(* getConsumerLookupSnapshot: the cache, the flight of another request, or a *)
(* build.  buildConsumerLookupSnapshot copies the candidates under the lock  *)
(* and resolves them in the order of their identifiers.                      *)
GetSnapshot(r) ==
  LET q == req[r]
      g == q.gens
  IN /\ q.pc = "snapshot"
     /\ \/ /\ g \in DOMAIN lcache
           /\ Become(r, [q EXCEPT !.pc = "check", !.snap = lcache[g]])
           /\ flight' = flight
        \/ /\ g \notin DOMAIN lcache /\ g \in DOMAIN flight
           /\ Become(r, [q EXCEPT !.pc = "joined"])
           /\ flight' = flight
        \/ /\ g \notin DOMAIN lcache /\ g \notin DOMAIN flight
           /\ flight' = [h \in DOMAIN flight \union {g} |-> IF h = g THEN r ELSE flight[h]]
           /\ Become(r, [q EXCEPT !.pc = "build", !.owners = <<>>,
                           !.cand = [c \in DOMAIN values |-> LookupKey(values[c])],
                           !.todo = SetToSortSeq(DOMAIN values, <)])
     /\ Stored /\ UNCHANGED <<vcache, lcache, tmpls>>

(* The end of a build: only success, a duplicate and a failure of the secret *)
(* manager are cached; everyone who joined the flight has the result.        *)
Land(r, snapshot, cached) ==
  LET g == req[r].gens
  IN /\ lcache' = IF cached /\ g = Gens THEN [h \in {g} |-> snapshot] ELSE lcache
     /\ flight' = [h \in DOMAIN flight \ {g} |-> flight[h]]
     /\ req' = [s \in Requests |->
                  IF s = r \/ (req[s].pc = "joined" /\ req[s].gens = g)
                  THEN [req[s] EXCEPT !.pc = "check", !.snap = snapshot, !.todo = <<>>,
                                      !.cfg = 0, !.ep = 0, !.cand = <<>>, !.owners = <<>>]
                  ELSE req[s]]

(* One candidate of a build has its key: claimed, or a second owner for it.  *)
Claim(r, key) ==
  LET q == req[r]
      c == Head(q.todo)
      owners == [k \in DOMAIN q.owners \union {key} |-> IF k = key THEN c ELSE q.owners[k]]
  IN IF key \in DOMAIN q.owners
     THEN Land(r, Failed, TRUE)
     ELSE /\ Become(r, [q EXCEPT !.pc = "build", !.todo = Tail(q.todo), !.owners = owners,
                           !.cfg = 0, !.ep = 0])
          /\ UNCHANGED <<lcache, flight>>

(* buildConsumerLookupSnapshot, one candidate per step.                      *)
BuildStep(r) ==
  LET q == req[r]
  IN /\ q.pc = "build"
     /\ IF q.todo = <<>>
        THEN Land(r, [err |-> FALSE, owners |-> q.owners], TRUE)
        ELSE CASE q.cand[Head(q.todo)] = "env" -> Land(r, Failed, FALSE)
               [] q.cand[Head(q.todo)] = "vault" ->
                    /\ Become(r, [q EXCEPT !.pc = "read"])
                    /\ UNCHANGED <<lcache, flight>>
               [] OTHER -> Claim(r, q.cand[Head(q.todo)])
     /\ Stored /\ UNCHANGED <<vcache, tmpls>>

(* resolveVaultSecret is asked twice in a lookup: while the snapshot is      *)
(* built, and again for the owner the snapshot names.  Its first step reads  *)
(* the secret resource.                                                      *)
ReadResource(r) ==
  /\ req[r].pc \in {"read", "reread"}
  /\ Become(r, [req[r] EXCEPT !.pc = IF @ = "read" THEN "cache" ELSE "recache", !.cfg = secret])
  /\ Stored /\ UNCHANGED <<vcache, lcache, flight, tmpls>>

(* What the second resolution is for: the record must still be found by the  *)
(* key the client presented (resolveConsumerForPluginKey).                   *)
Resolved(r, key) ==
  Become(r, [req[r] EXCEPT !.pc = IF key = req[r].key THEN "found" ELSE "lost",
                            !.cfg = 0, !.ep = 0])

(* It then takes whichever Vault cache is in use by now.                     *)
LookInCache(r) ==
  LET q == req[r]
  IN /\ q.pc \in {"cache", "recache"}
     /\ IF vcache = -1
        THEN /\ Become(r, [q EXCEPT !.pc = IF @ = "cache" THEN "fetch" ELSE "refetch", !.ep = epoch])
             /\ UNCHANGED <<lcache, flight>>
        ELSE IF q.pc = "cache"
             THEN Claim(r, Content[vcache + 1])
             ELSE Resolved(r, Content[vcache + 1]) /\ UNCHANGED <<lcache, flight>>
     /\ Stored /\ UNCHANGED <<vcache, tmpls>>

(* The answer of Vault for the resource that was read, stored in the cache   *)
(* that was taken; or a failure, a timeout, a missing resource or field.     *)
FetchSecret(r) ==
  LET q == req[r]
      key == Content[q.cfg + 1]
  IN /\ q.pc \in {"fetch", "refetch"}
     /\ \/ /\ key # NoKey
           /\ vcache' = IF q.ep = epoch THEN q.cfg ELSE vcache
           /\ IF q.pc = "fetch" THEN Claim(r, key)
              ELSE Resolved(r, key) /\ UNCHANGED <<lcache, flight>>
        \/ /\ vcache' = vcache
           /\ IF q.pc = "fetch" THEN Land(r, Failed, TRUE)
              ELSE Become(r, [q EXCEPT !.pc = "lost"]) /\ UNCHANGED <<lcache, flight>>
     /\ Stored /\ UNCHANGED tmpls

(* The generations again, then the owner, then the owner's record.           *)
CheckSnapshot(r) ==
  LET q == req[r]
      owner == q.snap.owners[q.key]
      rec == values[owner]
      next == CASE rec.lookup = "vault" -> "reread"
                [] rec.lookup = q.key -> "found"
                [] OTHER -> "lost"
  IN /\ q.pc = "check"
     /\ CASE q.gens # Gens -> Become(r, Retry(r))
          [] q.gens = Gens /\ (q.snap.err \/ q.key \notin DOMAIN q.snap.owners) -> Become(r, Done)
          [] OTHER -> Become(r, IF owner \in DOMAIN values
                                THEN [q EXCEPT !.pc = next, !.snap = Failed, !.rec = <<owner, rec>>]
                                ELSE [q EXCEPT !.pc = "lost"])
     /\ Stored /\ UNCHANGED <<vcache, lcache, flight, tmpls>>

(* The last check of the loop: only a lookup no update overlapped answers.   *)
Answer_Unchecked(r) ==
  LET q == req[r]
  IN /\ q.pc \in {"found", "lost"}
     /\ Become(r, IF q.pc = "found" THEN [Idle EXCEPT !.pc = "bind", !.rec = q.rec] ELSE Done)
     /\ Stored /\ UNCHANGED <<vcache, lcache, flight, tmpls>>

Answer(r) ==
  LET q == req[r]
  IN /\ q.pc \in {"found", "lost"}
     /\ Become(r, CASE q.gens # Gens -> Retry(r)
                    [] q.gens = Gens /\ q.pc = "found" -> [Idle EXCEPT !.pc = "bind", !.rec = q.rec]
                    [] OTHER -> Done)
     /\ Stored /\ UNCHANGED <<vcache, lcache, flight, tmpls>>

-----------------------------------------------------------------------------
(* consumerBindingsForKey: one request initializes the consumer's plugins,   *)
(* the others wait for its template.                                         *)

Bind(r) ==
  LET q == req[r]
      t == q.rec
  IN /\ q.pc = "bind"
     /\ IF t \in DOMAIN tmpls
        THEN /\ Become(r, IF tmpls[t] = "pending" THEN [q EXCEPT !.pc = "wait"] ELSE Done)
             /\ tmpls' = tmpls
        ELSE /\ Become(r, [q EXCEPT !.pc = "initialize"])
             /\ tmpls' = [u \in DOMAIN tmpls \union {t} |-> IF u = t THEN "pending" ELSE tmpls[u]]
     /\ Stored /\ UNCHANGED <<vcache, lcache, flight>>

Woken(r, next) ==
  [s \in Requests |-> IF s = r THEN next
                      ELSE IF req[s].pc = "wait" /\ req[s].rec = req[r].rec THEN Done ELSE req[s]]

(* Success, an error, or a panic of a plugin's initialization: the template  *)
(* is closed in every case, and a failed one is then removed.                *)
Initialize_PanicLeavesOpen(r) ==
  LET q == req[r]
  IN /\ q.pc = "initialize"
     /\ \/ /\ tmpls' = [tmpls EXCEPT ![q.rec] = "ready"]
           /\ req' = Woken(r, Done)
        \/ /\ tmpls' = [tmpls EXCEPT ![q.rec] = "failed"]
           /\ req' = Woken(r, [q EXCEPT !.pc = "remove"])
        \/ /\ tmpls' = tmpls
           /\ Become(r, Done)
     /\ Stored /\ UNCHANGED <<vcache, lcache, flight>>

Initialize(r) ==
  LET q == req[r]
  IN /\ q.pc = "initialize"
     /\ \/ /\ tmpls' = [tmpls EXCEPT ![q.rec] = "ready"]
           /\ req' = Woken(r, Done)
        \/ /\ tmpls' = [tmpls EXCEPT ![q.rec] = "failed"]
           /\ req' = Woken(r, [q EXCEPT !.pc = "remove"])
     /\ Stored /\ UNCHANGED <<vcache, lcache, flight>>

RemoveTemplate(r) ==
  /\ req[r].pc = "remove"
  /\ tmpls' = [u \in DOMAIN tmpls \ {req[r].rec} |-> tmpls[u]]
  /\ Become(r, Done)
  /\ Stored /\ UNCHANGED <<vcache, lcache, flight>>

-----------------------------------------------------------------------------
Init ==
  /\ values \in Indexes /\ cgen = 0
  /\ secret = 0 /\ epoch = 0 /\ sgen = 0 /\ wpc = "idle"
  /\ vcache = -1
  /\ lcache = <<>> /\ flight = <<>> /\ tmpls = <<>>
  /\ req = [r \in Requests |-> Idle]

RequestStep(r) ==
  \/ GetSnapshot(r) \/ BuildStep(r) \/ ReadResource(r) \/ LookInCache(r)
  \/ FetchSecret(r) \/ CheckSnapshot(r) \/ Answer(r)
  \/ Bind(r) \/ Initialize(r) \/ RemoveTemplate(r)

Next ==
  \/ Rebuild \/ WriteSecret \/ ResetVaultCache \/ BumpSecretGeneration \/ Expire
  \/ \E r \in Requests : Start(r) \/ RequestStep(r)

(* A goroutine that can run does; a call to Vault has a timeout.             *)
Fairness == \A r \in Requests : WF_vars(RequestStep(r))

Spec == Init /\ [][Next]_vars /\ Fairness

-----------------------------------------------------------------------------
(* A lookup that answers with a consumer names one that is registered at     *)
(* that moment, with the record it is registered with; the client's key is   *)
(* that record's literal key, or the content of some version of the secret   *)
(* its reference names; and no other consumer claims that literal key        *)
(* (getConsumerByPluginKey's two generation checks).                         *)
LookupRight ==
  \A r \in Requests :
    req[r].pc # "bind" /\ req'[r].pc = "bind" =>
      LET c == req[r].rec[1]
          rec == req[r].rec[2]
      IN /\ c \in DOMAIN values /\ values[c] = rec
         /\ \/ rec.lookup = req[r].key
            \/ /\ rec.lookup = "vault"
               /\ \E v \in 0 .. secret : Content[v + 1] = req[r].key
         /\ \A d \in DOMAIN values \ {c} : values[d].lookup # req[r].key

AllAnswered == \A r \in Requests : req[r].pc \in {"idle", "done"}

(* Every request that starts a lookup gets an answer: neither the retries of *)
(* the lookup loop, nor joining another request's build, nor waiting for     *)
(* another request's plugin initialization holds it for ever.                *)
RequestsAnswered == <>[]AllAnswered

(* Once a secret event is over, the cache that replaced the old one holds no *)
(* value fetched with an earlier version of the secret resource.             *)
ReplacementNotRepopulated == wpc = "idle" => vcache \in {-1, secret}
=============================================================================
