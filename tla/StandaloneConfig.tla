-------------------------- MODULE StandaloneConfig --------------------------
(***************************************************************************)
(* File-driven configuration (pkg/config/standalone.go) and what a reload  *)
(* of the file does to the gateway (startConfigProvider and                *)
(* applyStandaloneSnapshot in pkg/server/server.go, the readiness stages   *)
(* of pkg/observability/metrics/config_apply.go): the file is read, the    *)
(* store is replaced by it, and HTTP routes and stream routes are          *)
(* published when their part of the file changed.                          *)
(*                                                                         *)
(* The file has one HTTP resource and one stream resource. A value the     *)
(* reader cannot use is "malformed"; one the store's validation refuses is *)
(* "refused". Both are quarantined and their last good value is kept.      *)
(***************************************************************************)
EXTENDS Naturals, FiniteSets

CONSTANTS
    Good,           \* valid values of a resource
    MaxEdits,       \* bound: changes of the file
    MaxFailures     \* bound: store and publication failures

StandaloneConfigOK ==
    /\ Good # {} /\ Good \cap {"malformed", "refused", "absent"} = {}
    /\ MaxEdits \in Nat /\ MaxFailures \in Nat

Keys == {"route", "stream"}
Bad == {"malformed", "refused"}
Contents == Good \cup Bad \cup {"absent"}

VARIABLES
    file,       \* the resources in the file
    broken,     \* the file as a whole cannot be parsed
    pending,    \* a file event, or the reconcile after registration, is due
    rec,        \* the reconcile under reloadMu
    current,    \* w.current
    stored,     \* the store
    served,     \* what the HTTP router and the stream router were built from
    stage,      \* config-apply stage of each owner: TRUE when healthy
    quarantine, \* RecordConfigApplyQuarantine
    edits, failures

standaloneVars == <<file, broken, pending, rec, current, stored, served, stage, quarantine, edits, failures>>

Idle == [pc |-> "idle", read |-> [k \in Keys |-> "absent"], next |-> [k \in Keys |-> "absent"],
         previous |-> [k \in Keys |-> "absent"], preserve |-> {}, ok |-> TRUE]

\* The gateway has started from a good file; StartAndReconcile reads it again.
StandaloneInit ==
    /\ file \in [Keys -> Good] /\ broken = FALSE /\ pending = TRUE
    /\ rec = Idle
    /\ current = file /\ stored = file /\ served = file
    /\ stage = [o \in {"provider", "route", "stream"} |-> TRUE]
    /\ quarantine = 0
    /\ edits = 0 /\ failures = 0

-----------------------------------------------------------------------------
Edit ==
    /\ edits < MaxEdits
    /\ edits' = edits + 1
    /\ file' \in [Keys -> Contents] /\ broken' \in BOOLEAN
    /\ pending' = TRUE
    /\ UNCHANGED <<rec, current, stored, served, stage, quarantine, failures>>

\* The callback reports the failure of owner o, and reconcile puts the
\* previous snapshot back when it was the callback that failed.
Failed(o, previous) ==
    /\ rec' = [Idle EXCEPT !.ok = FALSE]
    /\ current' = previous
    /\ stage' = [stage EXCEPT ![o] = FALSE, !["provider"] = (o # "provider")]

\* readStandaloneSnapshot cannot parse the file.
ReadFails ==
    /\ rec.pc = "idle" /\ pending /\ broken
    /\ pending' = FALSE
    /\ Failed("provider", current)
    /\ UNCHANGED <<file, broken, stored, served, quarantine, edits, failures>>

\* retainStandaloneLastGood for each of the keys.
Retained(snapshot, keys) == [k \in Keys |-> IF k \in keys THEN current[k] ELSE snapshot[k]]

Read ==
    LET malformed == {k \in Keys : file[k] = "malformed"} IN
    /\ rec.pc = "idle" /\ pending /\ ~broken
    /\ pending' = FALSE
    /\ rec' = [Idle EXCEPT !.pc = "apply", !.read = file, !.previous = current,
                           !.next = Retained(file, malformed), !.preserve = malformed]
    /\ UNCHANGED <<file, broken, current, stored, served, stage, quarantine, edits, failures>>

\* A refused resource makes the reload give up.
Refused_Abandons ==
    /\ rec.pc = "apply" /\ \E k \in Keys \ rec.preserve : rec.next[k] = "refused"
    /\ rec' = Idle
    /\ UNCHANGED <<file, broken, pending, current, stored, served, stage, quarantine, edits, failures>>

\* BatchValidationError: the refused resources are preserved, and the batch
\* is tried again without them.
Refused ==
    LET refused == {k \in Keys \ rec.preserve : rec.next[k] = "refused"} IN
    /\ rec.pc = "apply" /\ refused # {}
    /\ rec' = [rec EXCEPT !.preserve = @ \cup refused, !.next = Retained(rec.next, refused)]
    /\ UNCHANGED <<file, broken, pending, current, stored, served, stage, quarantine, edits, failures>>

\* The whole store is replaced, the preserved rows included.
Replaced_All == rec.next

\* The batch with ReplaceManaged and Preserve.
Replaced == [k \in Keys |-> IF k \in rec.preserve THEN stored[k] ELSE rec.next[k]]

Applied ==
    /\ rec.pc = "apply" /\ \A k \in Keys \ rec.preserve : rec.next[k] # "refused"
    /\ stored' = Replaced
    /\ current' = rec.next
    /\ quarantine' = Cardinality(rec.preserve)
    /\ rec' = [rec EXCEPT !.pc = "route"]
    /\ UNCHANGED <<file, broken, pending, served, stage, edits, failures>>

\* The batch fails for another reason, or the Sync that follows it does.
ApplyFails ==
    /\ failures < MaxFailures /\ failures' = failures + 1
    /\ \/ /\ rec.pc = "apply" /\ \A k \in Keys \ rec.preserve : rec.next[k] # "refused"
          /\ UNCHANGED <<stored, quarantine>>
       \/ /\ rec.pc = "apply" /\ \A k \in Keys \ rec.preserve : rec.next[k] # "refused"
          /\ stored' = Replaced
          /\ quarantine' = Cardinality(rec.preserve)
    /\ Failed("provider", rec.previous)
    /\ UNCHANGED <<file, broken, pending, served, edits>>

\* standaloneReloadResult compares the new snapshot with w.current.
Changed(o) == rec.next[o] # rec.previous[o]

After(o) == IF o = "route" THEN "stream" ELSE "done"

\* reload and reloadStreamRoutes build from the store.
Publish(o) ==
    /\ rec.pc = o
    /\ served' = IF Changed(o) THEN [served EXCEPT ![o] = stored[o]] ELSE served
    /\ rec' = [rec EXCEPT !.pc = After(o)]
    /\ UNCHANGED <<file, broken, pending, current, stored, stage, quarantine, edits, failures>>

\* errStandaloneHTTPRoutePublication, errStandaloneStreamPublication
PublishFails(o) ==
    /\ rec.pc = o /\ Changed(o)
    /\ failures < MaxFailures /\ failures' = failures + 1
    /\ Failed(o, rec.previous)
    /\ UNCHANGED <<file, broken, pending, stored, served, quarantine, edits>>

Done ==
    /\ rec.pc = "done"
    /\ stage' = [o \in DOMAIN stage |-> stage[o] \/ o = "provider" \/ (o \in Keys /\ Changed(o))]
    /\ rec' = Idle
    /\ UNCHANGED <<file, broken, pending, current, stored, served, quarantine, edits, failures>>

Reconcile ==
    \/ ReadFails \/ Read \/ Refused \/ Applied \/ Done
    \/ \E o \in Keys : Publish(o) \/ PublishFails(o)

StandaloneNext == Edit \/ Reconcile \/ ApplyFails

StandaloneSpec == StandaloneInit /\ [][StandaloneNext]_standaloneVars

-----------------------------------------------------------------------------
\* configApplyReadyLocked without drop of any stage.
Ready == quarantine = 0 /\ \A o \in DOMAIN stage : stage[o]

\* Every variable has its type; nothing unusable is stored or served.
StandaloneTypeOK ==
    /\ file \in [Keys -> Contents] /\ broken \in BOOLEAN /\ pending \in BOOLEAN
    /\ {stored, served} \subseteq [Keys -> Good \cup {"absent"}]
    /\ stage \in [{"provider", "route", "stream"} -> BOOLEAN]
    /\ quarantine \in 0 .. Cardinality(Keys)

\* As long as no step failed, what the watcher takes for current is what the
\* store holds and what both routers were built from, whatever was
\* quarantined, dropped from the file or repaired on the way.
AllAgree ==
    failures = 0 /\ rec.pc = "idle" => current = stored /\ served = stored

\* A gateway that reports ready has the file it last read, with nothing of it
\* kept back in quarantine.
ReadyIsClean ==
    failures = 0 /\ rec.pc = "idle" /\ Ready /\ ~pending => stored = file /\ served = file

\* Every usable resource of a file that parses has arrived once its event is
\* handled, however many others of the file are quarantined.
UsableArrives ==
    failures = 0 /\ rec.pc = "idle" /\ ~pending /\ ~broken =>
        \A k \in Keys : file[k] \in Bad \/ stored[k] = file[k]

\* The store agrees with the file and with the routers, and readiness tells
\* the truth.
SnapshotRight == StandaloneTypeOK /\ AllAgree /\ ReadyIsClean /\ UsableArrives

\* The step changes a resource in the store only to the usable value read for it.
StoresWhatWasRead ==
    \A k \in Keys : stored'[k] # stored[k] =>
        stored'[k] = rec.read[k] /\ rec.read[k] \notin Bad

\* A resource changes in the store only to the value the file gives it, and a
\* malformed or refused resource keeps its last good value even when others
\* of the same file are replaced (Preserve, retainStandaloneLastGood).
LastGoodKept == [][StoresWhatWasRead]_standaloneVars

\* "A non-nil callback error keeps the previous snapshot so the next file event
\* reapplies the complete authoritative snapshot": once a later reload of the
\* file succeeds with nothing quarantined, both routers are built from what
\* the store holds.
ReappliesAll == rec.pc = "idle" /\ rec.ok /\ quarantine = 0 => served = stored

=============================================================================
