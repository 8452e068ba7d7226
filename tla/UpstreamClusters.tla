-------------------------- MODULE UpstreamClusters ---------------------------
(***************************************************************************)
(* The clusters behind the upstreams: the choice of targets within one, and *)
(* the registry generations share them by. Two state machines, each with   *)
(* its own variables.                                                      *)
(***************************************************************************)
EXTENDS Integers, Sequences, FiniteSets, SequencesExt, FiniteSetsExt

-----------------------------------------------------------------------------
(***************************************************************************)
(* Target selection of one upstream cluster: priority groups, smooth       *)
(* weighted round robin, health filtering and the per-request record of    *)
(* attempts (pkg/proxy/priority.go, loadbalance.go and the selection half  *)
(* of health.go).                                                          *)
(*                                                                         *)
(* Every selection is made under the balancer's mutex, so each is one      *)
(* action.  Health changes come from HealthChecks; here they are           *)
(* arbitrary.                                                              *)
(***************************************************************************)

CONSTANTS
    Order,          \* the targets, in the order of their names
    Weight,         \* configured weight of each target
    Priority,       \* configured priority of each target
    HealthAware,    \* checks are configured: HealthAwareLoadBalance
    Requests,       \* requests that select targets concurrently
    MaxAttempts,    \* bound: selections made for one request
    NoTarget        \* the empty target name

Pool == Range(Order)

\* newUpstreamLoadBalance rejects a pool with no positive weight.
SelectionConfig ==
    /\ IsInjective(Order)
    /\ Weight \in [Pool -> Nat]
    /\ Priority \in [Pool -> Int]
    /\ HealthAware \in BOOLEAN
    /\ MaxAttempts \in Nat \ {0}
    /\ NoTarget \notin Pool
    /\ \E t \in Pool : Weight[t] > 0

VARIABLES
    unhealthy,  \* targets in quarantine
    current,    \* current weights of the groups' own selectors
    filtered,   \* healthySelectors: of each group, its members and weights
    req,        \* priorityRequestState of each request
    window      \* history: first attempts since the last other event

selectionVars == <<unhealthy, current, filtered, req, window>>

-----------------------------------------------------------------------------
\* newPriorityGroups: positive-weight targets by descending priority.
Usable == {t \in Pool : Weight[t] > 0}

Levels == {Priority[t] : t \in Usable}

Level(i) ==
    LET all == Levels IN CHOOSE p \in all : Cardinality({q \in all : q > p}) = i - 1

Groups == 1 .. Cardinality(Levels)

Group(i) == LET p == Level(i) IN {t \in Usable : Priority[t] = p}

Total(S) == MapThenSumSet(LAMBDA t : Weight[t], S)

\* The first of the targets of S, by name, with the greatest score.
Position(t) == CHOOSE i \in DOMAIN Order : Order[i] = t

Best(S, score(_)) ==
    CHOOSE t \in S : \A u \in S \ {t} :
        score(t) > score(u) \/ (score(t) = score(u) /\ Position(t) < Position(u))

(***************************************************************************)
(* weighted.SW, the library's smooth weighted round robin: every member    *)
(* gains its weight, the greatest is chosen and pays the total.  A single  *)
(* member is returned as it is.                                            *)
(***************************************************************************)
Advanced(cw, S) == [t \in Pool |-> IF t \in S THEN cw[t] + Weight[t] ELSE cw[t]]

Smooth(cw, S) == LET next == Advanced(cw, S) IN Best(S, LAMBDA t : next[t])

SmoothNext(cw, S) ==
    IF Cardinality(S) = 1 THEN cw
    ELSE [Advanced(cw, S) EXCEPT ![Smooth(cw, S)] = @ - Total(S)]

NoWeights == [t \in Pool |-> 0]

FreshRequest == [last |-> NoTarget, tried |-> {}, picks |-> 0]

NoWindow == [n |-> 0, seen |-> NoWeights]

Shared == [own |-> FALSE, members |-> {}, cw |-> NoWeights]

\* The selectors are not rebuilt when a target recovers.
Refresh_OnlyShrinks(sick) == [i \in Groups |->
    IF filtered[i].own /\ filtered[i].members \subseteq Group(i) \ sick THEN filtered[i]
    ELSE IF Group(i) \cap sick = {} THEN Shared
    ELSE [own |-> TRUE, members |-> Group(i) \ sick, cw |-> NoWeights]]

\* refreshHealthySelectorsLocked: a group that is wholly healthy uses its own
\* selector, any other group gets a new one over its healthy members.
Refresh(sick) == [i \in Groups |->
    IF Group(i) \cap sick = {} THEN Shared
    ELSE [own |-> TRUE, members |-> Group(i) \ sick, cw |-> NoWeights]]

SelectionInit ==
    /\ unhealthy = {}
    /\ current = NoWeights
    /\ filtered = [i \in Groups |-> Shared]
    /\ req = [r \in Requests |-> FreshRequest]
    /\ window = NoWindow

-----------------------------------------------------------------------------
(***************************************************************************)
(* NextForRequest.                                                         *)
(***************************************************************************)
AnyHealthy == Usable \ unhealthy # {}

\* selectable: quarantined targets are left out unless every one is.
Selectable(t) == HealthAware /\ AnyHealthy => t \notin unhealthy

Finished_Forgets(q) == [q EXCEPT !.last = NoTarget]

\* finishPreviousAttempt
Finished(q) == [q EXCEPT !.tried = IF q.last = NoTarget THEN @ ELSE @ \cup {q.last},
                         !.last = NoTarget]

Eligible(i, tried) == {t \in Group(i) : t \notin tried /\ Selectable(t)}

\* The groups that still have an eligible target; the first one serves.
Open(tried) == {i \in Groups : Eligible(i, tried) # {}}

Serving(tried) == Min(Open(tried))

\* nextUntried asks the group's selector when the whole group is eligible, and
\* otherwise takes the heaviest eligible target.
UsesSelector(i, tried) == Eligible(i, tried) = Group(i)

NextUntried(i, tried) ==
    IF UsesSelector(i, tried) THEN Smooth(current, Group(i))
    ELSE Best(Eligible(i, tried), LAMBDA t : Weight[t])

\* The attempts a selection is made against: when every eligible target was
\* tried, the record is cleared and a new cycle begins.
Cycle(tried) == IF Open(tried) = {} THEN {} ELSE tried

WindowAfter(t) ==
    LET n == window.n + 1
        seen == [window.seen EXCEPT ![t] = @ + 1]
    IN  [n |-> n, seen |-> seen]

NextForRequest(r) ==
    LET q == Finished(req[r])
        tried == Cycle(q.tried)
        i == Serving(tried)
        t == NextUntried(i, tried)
    IN  /\ req[r].picks < MaxAttempts
        /\ req' = [req EXCEPT ![r] = [last |-> t, tried |-> tried, picks |-> @.picks + 1]]
        /\ current' = IF UsesSelector(i, tried) THEN SmoothNext(current, Group(i)) ELSE current
        /\ window' = IF q.tried # {} \/ Cardinality(Eligible(i, {})) = 0 THEN NoWindow
                     ELSE IF window.n = Total(Eligible(i, {})) THEN [n |-> 1, seen |-> [NoWeights EXCEPT ![t] = 1]]
                     ELSE WindowAfter(t)
        /\ UNCHANGED <<unhealthy, filtered>>

\* RecordSelectedTarget: a target chosen by a hash counts as tried.
RecordSelectedTarget(r, t) ==
    /\ req[r].picks < MaxAttempts
    /\ req' = [req EXCEPT ![r] = [last |-> NoTarget, tried |-> Finished(req[r]).tried \cup {t},
                                  picks |-> @.picks + 1]]
    /\ window' = NoWindow
    /\ UNCHANGED <<unhealthy, current, filtered>>

\* Next: selection outside a request, from the healthy selectors; with no
\* healthy target, from the first group as it is configured.
Candidates(i) == IF filtered[i].own THEN filtered[i].members ELSE Group(i)

NextWithoutRequest ==
    LET live == {i \in Groups : Candidates(i) # {}}
        i == IF HealthAware /\ live # {} THEN Min(live) ELSE 1
        own == HealthAware /\ live # {} /\ filtered[i].own
    IN  /\ current' = IF own THEN current ELSE SmoothNext(current, Group(i))
        /\ filtered' = IF own
                       THEN [filtered EXCEPT ![i].cw = SmoothNext(@, filtered[i].members)]
                       ELSE filtered
        /\ window' = NoWindow
        /\ UNCHANGED <<unhealthy, req>>

\* A transition made by ReportHTTP, ReportTCPFailure or an active probe.
HealthChange(t) ==
    LET sick == IF t \in unhealthy THEN unhealthy \ {t} ELSE unhealthy \cup {t}
    IN  /\ HealthAware
        /\ unhealthy' = sick
        /\ filtered' = Refresh(sick)
        /\ window' = NoWindow
        /\ UNCHANGED <<current, req>>

\* The request ends; its name is used for a new one.
Finish(r) ==
    /\ req[r].picks > 0
    /\ req' = [req EXCEPT ![r] = FreshRequest]
    /\ UNCHANGED <<unhealthy, current, filtered, window>>

SelectionNext ==
    \/ \E r \in Requests :
          \/ NextForRequest(r)
          \/ Finish(r)
          \/ \E t \in Usable : RecordSelectedTarget(r, t)
    \/ NextWithoutRequest
    \/ \E t \in Pool : HealthChange(t)

SelectionSpec == SelectionInit /\ [][SelectionNext]_selectionVars

-----------------------------------------------------------------------------
\* Every variable has its type.
SelectionTypeOK ==
    /\ unhealthy \subseteq Pool
    /\ current \in [Pool -> Int]
    /\ \A i \in Groups : filtered[i].members \subseteq Group(i)
    /\ \A r \in Requests :
          /\ req[r].last \in Usable \cup {NoTarget}
          /\ req[r].tried \subseteq Usable
          /\ req[r].picks \in 0 .. MaxAttempts
    /\ window.n \in 0 .. Total(Usable)

\* A step in which NextForRequest chose a target for r.
Chose(r) == req'[r].picks = req[r].picks + 1 /\ req'[r].last # NoTarget

\* Every attempt a request has made so far, in this cycle.
Attempted(r) == (req[r].tried \cup {req[r].last}) \ {NoTarget}

\* While some target is healthy, no request is sent to a quarantined one, and
\* with none healthy selection fails open instead of failing
\* (HealthAwareLoadBalance.NextForRequest), whatever changed between two
\* attempts of the same request.
HealthyWhileAvailable ==
    [][\A r \in Requests : Chose(r) =>
          /\ req'[r].last \in Usable
          /\ HealthAware /\ AnyHealthy => req'[r].last \notin unhealthy]_selectionVars

\* A retry goes to a target the request has not tried, in the highest priority
\* group that has one, as long as there is one (NextTarget: "avoid retrying
\* targets already attempted by the same request"); only then does it repeat.
RetriesElsewhere ==
    [][\A r \in Requests : Chose(r) =>
          LET left == {t \in Usable : Selectable(t)} \ Attempted(r) IN
          left # {} =>
             /\ req'[r].last \in left
             /\ \A t \in left : Priority[t] <= Priority[req'[r].last]]_selectionVars

\* The healthy selectors that Next uses are always those of the present health
\* (refreshHealthySelectorsLocked runs in every transition).
SelectorsFresh ==
    \A i \in Groups : Candidates(i) = Group(i) \ unhealthy

\* The group first attempts are made in, and whether a round of it is over.
FrontGroup == Serving({})

RoundOver == window.n > 0 /\ window.n = Total(Eligible(FrontGroup, {}))

\* Over a full round of first attempts each target of a wholly healthy front
\* group gets exactly its weight.
HealthyRoundsAreFair ==
    RoundOver /\ UsesSelector(FrontGroup, {})
        => \A t \in Group(FrontGroup) : window.seen[t] = Weight[t]

\* The derived selectors are current, and a full round follows the weights.
RoundsRight == SelectionTypeOK /\ SelectorsFresh /\ HealthyRoundsAreFair

\* Every single choice, first attempt or retry, is the right one.
ChoicesRight == HealthyWhileAvailable /\ RetriesElsewhere

-----------------------------------------------------------------------------
(***************************************************************************)
(* The registry of shared upstream clusters (pkg/proxy/registry.go) and    *)
(* the health series its clusters publish                                  *)
(* (pkg/observability/metrics/proxy_runtime.go).                           *)
(*                                                                         *)
(* Route generations take leases on clusters by configuration digest; the  *)
(* last lease closes the cluster and deletes its series.  Requests keep    *)
(* reporting health to the clusters they were started on, also while the   *)
(* registry is shutting a cluster down: Close runs under the registry's    *)
(* mutex, the reports run under the cluster's.  Two configurations may     *)
(* carry one name (the upstream's label), so they share its series.        *)
(***************************************************************************)

CONSTANTS
    Configs,        \* effective configurations (their digests)
    Name,           \* the metric label of a configuration
    TargetsOf,      \* the targets of a configuration
    Leases,         \* leases that may be taken
    MaxClusters     \* bound: clusters created

RegistryConfig ==
    /\ IsFiniteSet(Leases)
    /\ MaxClusters \in Nat
    /\ DOMAIN Name = Configs
    /\ DOMAIN TargetsOf = Configs

Names == {Name[c] : c \in Configs}

AllTargets == UNION {TargetsOf[c] : c \in Configs}

Ids == 1 .. MaxClusters

VARIABLES
    entries,    \* configuration -> cluster id and reference count
    clusters,   \* clusters created so far, by id
    lease,      \* ClusterLease values
    series,     \* upstream_status{name, target}
    mutex,      \* what the holder of the registry's mutex still has to do
    closer      \* progress of ClusterRegistry.Close

registryVars == <<entries, clusters, lease, series, mutex, closer>>

NoEntry == [id |-> 0, refs |-> 0]

NoLease == [config |-> "none", id |-> 0, state |-> "free"]

Free == [step |-> "free", id |-> 0]

RegistryInit ==
    /\ entries = [c \in Configs |-> NoEntry]
    /\ clusters = <<>>
    /\ lease = [l \in Leases |-> NoLease]
    /\ series = [n \in Names |-> [t \in AllTargets |-> "absent"]]
    /\ mutex = Free
    /\ closer = [step |-> "open", left |-> {}, names |-> {}]

-----------------------------------------------------------------------------
Live(c) == entries[c].id # 0

\* Clusters other than the retiring one that share its name.
SameName(c) == {d \in Configs \ {c} : Live(d) /\ Name[d] = Name[c]}

Retained(c) == UNION {TargetsOf[d] : d \in SameName(c)}

NewCluster(c) == [config |-> c, closed |-> FALSE, observing |-> TRUE,
                  healthy |-> [t \in TargetsOf[c] |-> TRUE]]

\* The reference is not counted.
AcquireShared_Uncounted(l, c) ==
    /\ mutex = Free /\ closer.step = "open"
    /\ lease[l].state = "free"
    /\ Live(c)
    /\ lease' = [lease EXCEPT ![l] = [config |-> c, id |-> entries[c].id, state |-> "held"]]
    /\ UNCHANGED <<entries, clusters, series, mutex, closer>>

\* Acquire fails after Close, shares the cluster of an equal configuration, and
\* otherwise creates one and publishes its targets as healthy.
AcquireShared(l, c) ==
    /\ mutex = Free /\ closer.step = "open"
    /\ lease[l].state = "free"
    /\ Live(c)
    /\ entries' = [entries EXCEPT ![c].refs = @ + 1]
    /\ lease' = [lease EXCEPT ![l] = [config |-> c, id |-> entries[c].id, state |-> "held"]]
    /\ UNCHANGED <<clusters, series, mutex, closer>>

AcquireNew(l, c) ==
    LET id == Len(clusters) + 1 IN
    /\ mutex = Free /\ closer.step = "open"
    /\ lease[l].state = "free"
    /\ ~Live(c)
    /\ id \in Ids
    /\ clusters' = Append(clusters, NewCluster(c))
    /\ entries' = [entries EXCEPT ![c] = [id |-> id, refs |-> 1]]
    /\ series' = [series EXCEPT ![Name[c]] =
           [t \in AllTargets |-> IF t \in TargetsOf[c] THEN "healthy" ELSE @[t]]]
    /\ lease' = [lease EXCEPT ![l] = [config |-> c, id |-> id, state |-> "held"]]
    /\ UNCHANGED <<mutex, closer>>

AcquireClosed(l) ==
    /\ mutex = Free /\ closer.step # "open"
    /\ lease[l].state = "free"
    /\ lease' = [lease EXCEPT ![l].state = "refused"]
    /\ UNCHANGED <<entries, clusters, series, mutex, closer>>

-----------------------------------------------------------------------------
(***************************************************************************)
(* ClusterLease.Stop, once per lease.  The last one holds the mutex while  *)
(* it closes the cluster (which waits for its probes) and then deletes the *)
(* series.                                                                 *)
(***************************************************************************)
Stop(l) ==
    LET conf == lease[l].config
        last == entries[conf].refs = 1
    IN  /\ mutex = Free
        /\ lease[l].state = "held"
        /\ lease' = [lease EXCEPT ![l].state = "stopped"]
        /\ IF ~Live(conf)
           THEN UNCHANGED <<entries, mutex>>
           ELSE /\ entries' = [entries EXCEPT ![conf] =
                       IF last THEN NoEntry ELSE [@ EXCEPT !.refs = @ - 1]]
                /\ mutex' = IF last THEN [step |-> "close", id |-> lease[l].id] ELSE mutex
        /\ UNCHANGED <<clusters, series, closer>>

\* The observer stays attached to a closed cluster.
Closed_KeepsObserver(id) == [clusters EXCEPT ![id].closed = TRUE]

Closed(id) == [clusters EXCEPT ![id].closed = TRUE, ![id].observing = FALSE]

\* entry.cluster.Close()
CloseRetired ==
    /\ mutex.step = "close"
    /\ clusters' = Closed(mutex.id)
    /\ mutex' = [mutex EXCEPT !.step = "delete"]
    /\ UNCHANGED <<entries, lease, series, closer>>

\* The series a retiring cluster of configuration c deletes: all of its name
\* when no other cluster has it, and else those of targets no other one has.
Dropped(c) == IF SameName(c) = {} THEN AllTargets ELSE TargetsOf[c] \ Retained(c)

DeleteRetired ==
    LET conf == clusters[mutex.id].config IN
    /\ mutex.step = "delete"
    /\ series' = [series EXCEPT ![Name[conf]] =
           [t \in AllTargets |-> IF t \in Dropped(conf) THEN "absent" ELSE @[t]]]
    /\ mutex' = Free
    /\ UNCHANGED <<entries, clusters, lease, closer>>

-----------------------------------------------------------------------------
(***************************************************************************)
(* ClusterRegistry.Close: the entries are taken under the mutex; clusters  *)
(* are closed and names deleted after it is released.                      *)
(***************************************************************************)
Close ==
    /\ mutex = Free /\ closer.step = "open"
    /\ closer' = [step |-> "closing",
                  left |-> {entries[c].id : c \in {d \in Configs : Live(d)}},
                  names |-> {Name[c] : c \in {d \in Configs : Live(d)}}]
    /\ entries' = [c \in Configs |-> NoEntry]
    /\ UNCHANGED <<clusters, lease, series, mutex>>

CloseCluster(id) ==
    /\ id \in closer.left
    /\ clusters' = Closed(id)
    /\ closer' = [closer EXCEPT !.left = @ \ {id}]
    /\ UNCHANGED <<entries, lease, series, mutex>>

DeleteName(n) ==
    /\ closer.step = "closing" /\ closer.left = {}
    /\ n \in closer.names
    /\ series' = [series EXCEPT ![n] = [t \in AllTargets |-> "absent"]]
    /\ closer' = [closer EXCEPT !.names = @ \ {n}]
    /\ UNCHANGED <<entries, clusters, lease, mutex>>

CloseEnds ==
    /\ closer.step = "closing" /\ closer.left = {} /\ closer.names = {}
    /\ closer' = [closer EXCEPT !.step = "closed"]
    /\ UNCHANGED <<entries, clusters, lease, series, mutex>>

\* A health transition inside a cluster (HealthChecks): SetHealth publishes it
\* as long as the cluster has its observer.
Transition(id, t) ==
    LET k == clusters[id]
        h == ~k.healthy[t]
    IN  /\ clusters' = [clusters EXCEPT ![id].healthy[t] = h]
        /\ series' = IF ~k.observing THEN series
                     ELSE [series EXCEPT ![Name[k.config]][t] =
                               IF h THEN "healthy" ELSE "unhealthy"]
        /\ UNCHANGED <<entries, lease, mutex, closer>>

RegistryNext ==
    \/ \E l \in Leases :
          \/ \E c \in Configs : AcquireShared(l, c) \/ AcquireNew(l, c)
          \/ AcquireClosed(l)
          \/ Stop(l)
    \/ CloseRetired \/ DeleteRetired
    \/ Close \/ CloseEnds
    \/ \E id \in closer.left : CloseCluster(id)
    \/ \E n \in closer.names : DeleteName(n)
    \/ \E id \in DOMAIN clusters : \E t \in TargetsOf[clusters[id].config] : Transition(id, t)

RegistrySpec == RegistryInit /\ [][RegistryNext]_registryVars

-----------------------------------------------------------------------------
\* Every variable has its type.
RegistryTypeOK ==
    /\ \A c \in Configs :
          /\ entries[c].id \in 0 .. Len(clusters)
          /\ entries[c].refs \in Nat
          /\ Live(c) <=> entries[c].refs > 0
    /\ \A l \in Leases : lease[l].state \in {"free", "held", "stopped", "refused"}
    /\ series \in [Names -> [AllTargets -> {"absent", "healthy", "unhealthy"}]]
    /\ mutex.step \in {"free", "close", "delete"}
    /\ closer.step \in {"open", "closing", "closed"}

\* The reference count of an entry is the number of leases not yet stopped, and
\* all of them are on the entry's cluster (ClusterRegistry.Acquire shares, and
\* release counts down, by configuration digest only).
Holders(c) == {l \in Leases : lease[l].state = "held" /\ lease[l].config = c}

RefsExact ==
    closer.step = "open" =>
        \A c \in Configs :
            /\ entries[c].refs = Cardinality(Holders(c))
            /\ \A l \in Holders(c) : lease[l].id = entries[c].id

\* A cluster is never closed under a lease: only the registry's own Close ends
\* a cluster that a route generation still holds.
LeaseKeepsOpen ==
    \A l \in Leases :
        lease[l].state = "held" /\ closer.step = "open" => ~clusters[lease[l].id].closed

\* Every target of a live cluster has its series, also right after a cluster of
\* the same name was retired.
LiveSeriesPresent ==
    mutex = Free => \A c \in Configs : Live(c) =>
        \A t \in TargetsOf[c] : series[Name[c]][t] # "absent"

\* No series outlives the last cluster that has its target: retired clusters
\* stop publishing before their series are deleted, and nothing revives them.
NoOrphanSeries ==
    mutex = Free /\ closer.step # "closing" =>
        \A n \in Names : \A t \in AllTargets :
            series[n][t] # "absent" =>
                \E c \in Configs : Live(c) /\ Name[c] = n /\ t \in TargetsOf[c]

\* Reference counts are exact and no lease is on a closed cluster.
LeasesHold == RegistryTypeOK /\ RefsExact /\ LeaseKeepsOpen

\* The published series are those of the live clusters, no more and no less.
SeriesExact == LiveSeriesPresent /\ NoOrphanSeries

=============================================================================
