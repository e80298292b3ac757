-------------------------- MODULE GatewayReconciler --------------------------
(***************************************************************************)
(* The legacy data plane: replicas of the gateway reconciler, one of which *)
(* holds the Lease, copy the desired routes and the native limit           *)
(* publication of one tenant from the control service to the cluster.      *)
(*                                                                         *)
(* Every call over the network may fail before or after it took effect; a  *)
(* call that was on the wire when its leader was cancelled may land late.  *)
(* A route is absent ("none"), disabled ("off"), enabled on a relative     *)
(* endpoint ("on") or on an absolute one ("abs", which also renders an     *)
(* EnvoyFilter); a model routed under another protocol has other resource  *)
(* names and is another member of Models.  The body of a rendered resource *)
(* is the desired state it came from.                                      *)
(***************************************************************************)
EXTENDS Integers, FiniteSets

CONSTANTS Replicas, RouteModels,
          RouteSets,       \* names of the desired states that get published
          Route,           \* Route[d][m]: the route of model m in state d
          Revisions,       \* content revisions of the limit publication
          MaxPublishes, MaxLimitWrites, MaxFaults

VARIABLES desired,     \* data_plane_desired_states, Unset without a row
          status,      \* data_plane_statuses: [state, hash]
          quotas,      \* gateway_limit_publications: [rev, state, observed]
          cluster,     \* the body of every Kubernetes path, Unset when absent
          pluginRevision,      \* the limit revision the native plugins run
          lease,       \* [holder, version] of the Lease
          st,          \* per replica: follower, leader, lost, stopping, down
          syncPass,        \* per replica: [at, want, left, quota] of the Sync under way
          memory,      \* per replica: KubernetesApplier.applied, {} or {paths}
          file,        \* per replica: the inventory file in its StateDir
          seen,        \* per replica: the Lease version its release has read
          late,        \* per replica: calls on the wire when it was cancelled
          strayed,     \* auxiliary: a late call has taken effect
          broken,      \* auxiliary: a pass ended between its calls, or the work
                       \* passed to a pod without the inventory of the last
          writes       \* counters of the bounds

reconcilerVars == <<desired, status, quotas, cluster, pluginRevision, lease, st, syncPass,
                    memory, file, seen, late, strayed, broken, writes>>

Unset == "unset"
Plugin == <<"shared", "plugin">>
Legacy == <<"shared", "legacy">>
Paths == (RouteModels \X {"ingress", "filter"}) \cup {Plugin, Legacy}

(* gatewayrender.Render: what the enabled routes of d become; the plugin   *)
(* is always part of it.                                                   *)
Rendered(d) ==
    {<<m, "ingress">> : m \in {n \in RouteModels : Route[d][n] \in {"on", "abs"}}}
      \cup {<<m, "filter">> : m \in {n \in RouteModels : Route[d][n] = "abs"}} \cup {Plugin}

(* The paths Apply deletes first: those of disabled routes, and the filter *)
(* of a route that went back to a relative endpoint.                       *)
Deletions(d) ==
    {<<m, "ingress">> : m \in {n \in RouteModels : Route[d][n] = "off"}}
      \cup {<<m, "filter">> : m \in {n \in RouteModels : Route[d][n] \in {"off", "on"}}}

KeptRoutes(d) == Rendered(d) \ Deletions(d)

NoPass == [at |-> "idle", want |-> Unset, left |-> {}, quota |-> Unset]

ReconcilerInit ==
    /\ desired = Unset
    /\ status = [state |-> "pending", hash |-> Unset]
    /\ quotas = [rev |-> Unset, state |-> "pending", observed |-> Unset]
    /\ cluster = [p \in Paths |-> IF p = Legacy THEN "old" ELSE Unset]
    /\ pluginRevision = Unset
    /\ lease = [holder |-> Unset, version |-> 0]
    /\ st = [i \in Replicas |-> "follower"]
    /\ syncPass = [i \in Replicas |-> NoPass]
    /\ memory = [i \in Replicas |-> {}]
    /\ file = [i \in Replicas |-> {}]
    /\ seen = [i \in Replicas |-> 0]
    /\ late = [i \in Replicas |-> {}]
    /\ strayed = FALSE
    /\ broken = FALSE
    /\ writes = [routes |-> 0, quotas |-> 0, faults |-> 0, owed |-> 0]

------------------------------------------------------------------------------
(* The control service                                                     *)

controlVars == <<desired, status, quotas>>
leaderVars == <<lease, st, seen>>
passVars == <<syncPass, memory, file, late, strayed, broken>>

(* putDataPlaneDesiredState, and publishing the catalog: the row first,    *)
(* then the status in a statement of its own whose error is ignored.       *)
PutDesired(d) ==
    /\ writes.routes < MaxPublishes
    /\ desired' = d
    /\ writes' = [writes EXCEPT !.routes = @ + 1, !.owed = @ + 1]
    /\ UNCHANGED <<status, quotas, cluster, pluginRevision, leaderVars, passVars>>

PutPending ==
    /\ writes.owed > 0
    /\ writes' = [writes EXCEPT !.owed = @ - 1]
    /\ \/ status' = [status EXCEPT !.state = "pending"]
       \/ UNCHANGED status
    /\ UNCHANGED <<desired, quotas, cluster, pluginRevision, leaderVars, passVars>>

(* Publishing the native limits keeps the state of an unchanged revision.  *)
PublishLimits(r) ==
    /\ writes.quotas < MaxLimitWrites
    /\ writes' = [writes EXCEPT !.quotas = @ + 1]
    /\ quotas' = IF quotas.rev = r THEN quotas
                 ELSE [quotas EXCEPT !.rev = r, !.state = "pending"]
    /\ UNCHANGED <<desired, status, cluster, pluginRevision, leaderVars, passVars>>

(* What gatewayLimitStatus answers.                                        *)
LimitState ==
    IF quotas.state = "applied" /\ quotas.observed # quotas.rev THEN "pending"
    ELSE quotas.state

------------------------------------------------------------------------------
(* Calls                                                                   *)

Say(state, hash) == [kind |-> "status", path |-> Plugin, body |-> hash, state |-> state]
PutObject(p, d) == [kind |-> "put", path |-> p, body |-> d, state |-> ""]
Delete(p) == [kind |-> "put", path |-> p, body |-> Unset, state |-> ""]
LoadCall(r) == [kind |-> "load", path |-> Plugin, body |-> r, state |-> ""]
Ack(r, s) == [kind |-> "ack", path |-> Plugin, body |-> r, state |-> s]

(* internalGatewayLimitStatus updates the row of that revision only.       *)
AcknowledgeLimits(c) ==
    IF quotas.rev = c.body
    THEN [quotas EXCEPT !.state = c.state, !.observed = c.body] ELSE quotas

(* The effect of a call where it is received.                              *)
Land(c) ==
    /\ cluster' = IF c.kind = "put" THEN [cluster EXCEPT ![c.path] = c.body] ELSE cluster
    /\ status' = IF c.kind = "status" THEN [state |-> c.state, hash |-> c.body] ELSE status
    /\ pluginRevision' = IF c.kind = "load" THEN c.body ELSE pluginRevision
    /\ quotas' = IF c.kind = "ack" THEN AcknowledgeLimits(c) ELSE quotas

(* Lists of paths are worked through in a fixed order.                     *)
First(paths) == IF paths = {} THEN {} ELSE {CHOOSE p \in paths : TRUE}

(* The call a replica makes next, for a path p where it has a list to do.  *)
Calls(i) ==
    LET w == syncPass[i] IN
    CASE w.at = "applying" -> {Say("applying", w.want)}
      [] w.at = "delete"   -> {Delete(p) : p \in First(w.left)}
      [] w.at = "apply"    -> {PutObject(p, w.want) : p \in First(w.left)}
      [] w.at = "legacy"   -> {Delete(Legacy)}
      [] w.at = "prune"    -> {Delete(p) : p \in First(w.left)}
      [] w.at = "load"     -> {LoadCall(w.quota)}
      [] w.at = "ack"      -> {Ack(w.quota, "applied")}
      [] w.at = "nack"     -> {Ack(w.quota, "error")}
      [] w.at = "ready"    -> {Say("ready", w.want)}
      [] w.at = "failure"  -> {Say("error", Unset)}
      [] OTHER             -> {}

(* loadApplied: the paths in memory, else those of the file.               *)
LoadApplied(i) == UNION (IF memory[i] # {} THEN memory[i] ELSE file[i])

(* The paths pruneAbsent deletes.                                          *)
Departed(i, d) == LoadApplied(i) \ KeptRoutes(d)

(* Mutant: the pass is not announced before it changes the cluster.        *)
Unannounced(s) == [NoPass EXCEPT !.at = "delete", !.want = s, !.left = Deletions(s)]

(* A pass begins with the announcement of what it applies.                 *)
Announce(s) == [NoPass EXCEPT !.at = "applying", !.want = s]

(* The phase that follows the last call of a phase.                        *)
Following(i, w) ==
    CASE w.at = "applying" -> [w EXCEPT !.at = "delete", !.left = Deletions(w.want)]
      [] w.at = "delete"   -> [w EXCEPT !.at = "apply", !.left = Rendered(w.want)]
      [] w.at = "apply"    -> [w EXCEPT !.at = "legacy"]
      [] w.at = "legacy"   -> [w EXCEPT !.at = "prune", !.left = Departed(i, w.want)]
      [] w.at = "prune"    -> [w EXCEPT !.at = "store"]
      [] w.at = "load"     -> [w EXCEPT !.at = "ack"]
      [] w.at = "ack"      -> [w EXCEPT !.at = "ready"]
      [] w.at = "nack"     -> [w EXCEPT !.at = "failure"]
      [] OTHER             -> NoPass

(* After an error: a failed load is acknowledged as an error, a failed     *)
(* status write ends the pass, everything else is reported.                *)
AfterError(w) ==
    CASE w.at = "load" -> [w EXCEPT !.at = "nack"]
      [] w.at \in {"applying", "ready", "failure"} -> NoPass
      [] OTHER -> [w EXCEPT !.at = "failure", !.left = {}]

Applying(w) == w.at \in {"delete", "apply", "legacy", "prune", "store"}

(* A call that fails, before or after it took effect.                      *)
CallFails(i, c) ==
    /\ writes.faults < MaxFaults
    /\ writes' = [writes EXCEPT !.faults = @ + 1]
    /\ \/ Land(c)
       \/ UNCHANGED <<cluster, status, pluginRevision, quotas>>
    /\ syncPass' = [syncPass EXCEPT ![i] = AfterError(@)]
    /\ broken' = (broken \/ Applying(syncPass[i]))

(* The pass after its call c: the rest of the list, or the next phase.     *)
Advanced(i, c, w) ==
    IF w.left \ {c.path} # {} THEN [w EXCEPT !.left = w.left \ {c.path}]
    ELSE Following(i, [w EXCEPT !.left = {}])

CallSucceeds(i, c) ==
    /\ Land(c)
    /\ syncPass' = [syncPass EXCEPT ![i] = Advanced(i, c, @)]
    /\ UNCHANGED <<broken, writes>>

(* One call of Sync, Apply or syncGatewayLimits.                           *)
Call(i) ==
    /\ st[i] = "leader"
    /\ \E c \in Calls(i) : CallSucceeds(i, c) \/ CallFails(i, c)
    /\ UNCHANGED <<desired, leaderVars, memory, file, late, strayed>>

(* A list that is empty from the start.                                    *)
NothingToDo(i) ==
    /\ st[i] = "leader" /\ syncPass[i].at \in {"delete", "prune"} /\ syncPass[i].left = {}
    /\ syncPass' = [syncPass EXCEPT ![i] = Following(i, @)]
    /\ UNCHANGED <<controlVars, cluster, pluginRevision, leaderVars, memory, file, late,
                   strayed, broken, writes>>

(* Sync begins with fetchDesired; without a row it reports "pending".      *)
Fetch(i) ==
    /\ st[i] = "leader" /\ syncPass[i].at = "idle"
    /\ desired # Unset
    /\ syncPass' = [syncPass EXCEPT ![i] = Announce(desired)]
    /\ UNCHANGED <<controlVars, cluster, pluginRevision, leaderVars, memory, file, late,
                   strayed, broken, writes>>

FetchNothing(i) ==
    /\ st[i] = "leader" /\ syncPass[i].at = "idle" /\ desired = Unset
    /\ status' = [state |-> "pending", hash |-> Unset]
    /\ UNCHANGED <<desired, quotas, cluster, pluginRevision, leaderVars, passVars, writes>>

(* The desired state, a credential, the rendering or the output file is    *)
(* not to be had: Sync reports and returns before it touches the cluster.  *)
Unavailable(i) ==
    /\ st[i] = "leader" /\ writes.faults < MaxFaults
    /\ \/ syncPass[i].at = "idle"
       \/ syncPass[i].at = "delete" /\ syncPass[i].left = Deletions(syncPass[i].want)
    /\ writes' = [writes EXCEPT !.faults = @ + 1]
    /\ syncPass' = [syncPass EXCEPT ![i] = [@ EXCEPT !.at = "failure", !.left = {}]]
    /\ UNCHANGED <<controlVars, cluster, pluginRevision, leaderVars, memory, file, late,
                   strayed, broken>>

(* storeApplied                                                            *)
StoreApplied(i) ==
    /\ memory' = [memory EXCEPT ![i] = {KeptRoutes(syncPass[i].want)}]
    /\ file' = [file EXCEPT ![i] = {KeptRoutes(syncPass[i].want)}]

(* The end of pruneAbsent, and the read of the limit publication with its  *)
(* early return.                                                           *)
Store(i) ==
    /\ st[i] = "leader" /\ syncPass[i].at = "store"
    /\ StoreApplied(i)
    /\ syncPass' = [syncPass EXCEPT ![i] =
                  IF quotas.rev = Unset THEN [@ EXCEPT !.at = "ready"]
                  ELSE [@ EXCEPT !.at = "load", !.quota = quotas.rev]]
    /\ UNCHANGED <<controlVars, cluster, pluginRevision, leaderVars, late, strayed,
                   broken, writes>>

------------------------------------------------------------------------------
(* The Lease                                                               *)

(* The election (client-go): a follower takes a Lease nobody renews.       *)
Acquire(i) ==
    /\ st[i] = "follower"
    /\ \A j \in Replicas \ {i} : lease.holder = j => st[j] # "leader"
    /\ lease' = [holder |-> i, version |-> lease.version + 1]
    /\ st' = [st EXCEPT ![i] = "leader"]
    /\ broken' = (broken \/ \E j \in Replicas \ {i} : file[j] # {})
    /\ UNCHANGED <<controlVars, cluster, pluginRevision, seen, syncPass, memory, file, late,
                   strayed, writes>>

(* The context of the work ends: its pass goes no further, but a call that *)
(* is on the wire may still be received.                                   *)
Cancel(i, s) ==
    /\ writes.faults < MaxFaults
    /\ writes' = [writes EXCEPT !.faults = @ + 1]
    /\ st' = [st EXCEPT ![i] = s]
    /\ late' = [late EXCEPT ![i] = @ \cup Calls(i)]
    /\ broken' = (broken \/ Applying(syncPass[i]))
    /\ syncPass' = [syncPass EXCEPT ![i] = NoPass]
    /\ UNCHANGED <<memory, file, strayed>>

(* OnStoppedLeading: no renewal within the renew deadline.                 *)
Lose(i) ==
    /\ st[i] = "leader"
    /\ Cancel(i, "lost")
    /\ UNCHANGED <<controlVars, cluster, pluginRevision, lease, seen>>

(* SIGTERM                                                                 *)
Shutdown(i) ==
    /\ st[i] \in {"follower", "leader", "lost"}
    /\ Cancel(i, "stopping")
    /\ seen' = [seen EXCEPT ![i] = 0]
    /\ UNCHANGED <<controlVars, cluster, pluginRevision, lease>>

(* Mutant: every replica that stops clears the holder it reads.            *)
AnyHolder(i) == TRUE

(* guardedRelease gives up unless the Lease it reads names this replica.   *)
StillNamed(i) == lease.holder = i

ReleaseRead(i) ==
    /\ st[i] = "stopping" /\ seen[i] = 0
    /\ IF StillNamed(i)
       THEN seen' = [seen EXCEPT ![i] = lease.version] /\ UNCHANGED st
       ELSE st' = [st EXCEPT ![i] = "down"] /\ UNCHANGED seen
    /\ UNCHANGED <<controlVars, cluster, pluginRevision, lease, passVars, writes>>

(* The update carries the resource version that was read.                  *)
ReleaseWrite(i) ==
    /\ st[i] = "stopping" /\ seen[i] # 0
    /\ lease' = IF lease.version = seen[i] THEN [lease EXCEPT !.holder = Unset] ELSE lease
    /\ st' = [st EXCEPT ![i] = "down"]
    /\ seen' = [seen EXCEPT ![i] = 0]
    /\ UNCHANGED <<controlVars, cluster, pluginRevision, passVars, writes>>

(* A lost election ends the process.                                       *)
Exit(i) ==
    /\ st[i] = "lost"
    /\ st' = [st EXCEPT ![i] = "down"]
    /\ UNCHANGED <<controlVars, cluster, pluginRevision, lease, seen, passVars, writes>>

(* The container starts again with the files of its pod, or a new pod with *)
(* an empty StateDir takes its place.                                      *)
Start(i) ==
    /\ st[i] = "down"
    /\ st' = [st EXCEPT ![i] = "follower"]
    /\ memory' = [memory EXCEPT ![i] = {}]
    /\ \/ UNCHANGED <<file, broken>>
       \/ file' = [file EXCEPT ![i] = {}] /\ broken' = TRUE
    /\ UNCHANGED <<controlVars, cluster, pluginRevision, lease, seen, syncPass, late, strayed, writes>>

(* A call of a cancelled pass is received after all, or never.             *)
LateCall(i) ==
    \E c \in late[i] :
        /\ late' = [late EXCEPT ![i] = {}]
        /\ \/ Land(c) /\ strayed' = TRUE
           \/ UNCHANGED <<cluster, status, pluginRevision, quotas, strayed>>
        /\ UNCHANGED <<desired, leaderVars, syncPass, memory, file, broken, writes>>

ReconcilerNext ==
    \/ \E d \in RouteSets : PutDesired(d)
    \/ PutPending
    \/ \E r \in Revisions : PublishLimits(r)
    \/ \E i \in Replicas :
          \/ Fetch(i) \/ FetchNothing(i) \/ Unavailable(i) \/ Call(i)
          \/ NothingToDo(i) \/ Store(i)
          \/ Acquire(i) \/ Lose(i) \/ Shutdown(i)
          \/ ReleaseRead(i) \/ ReleaseWrite(i) \/ Exit(i)
          \/ Start(i) \/ LateCall(i)

ReconcilerSpec == ReconcilerInit /\ [][ReconcilerNext]_reconcilerVars

------------------------------------------------------------------------------
\* The rows of the control service, what the cluster holds and the holder of the
\* Lease have their types.
ReconcilerTypeOK ==
    /\ desired \in RouteSets \cup {Unset}
    /\ status \in [state : {"pending", "applying", "ready", "error"},
                   hash : RouteSets \cup {Unset}]
    /\ quotas \in [rev : Revisions \cup {Unset}, state : {"pending", "applied", "error"},
                   observed : Revisions \cup {Unset}]
    /\ cluster \in [Paths -> RouteSets \cup {Unset, "old"}]
    /\ pluginRevision \in Revisions \cup {Unset}
    /\ lease.holder \in Replicas \cup {Unset}

(* OneLeader: two replicas never work at the same time.  A replica that    *)
(* shuts down after its Lease passed to another clears nothing (the        *)
(* comment on guardedRelease; "without split-brain applies", leader.go).   *)
OneLeader == Cardinality({i \in Replicas : st[i] = "leader"}) <= 1

(* ReadyIsLoaded: while the status is "ready", every enabled route of the  *)
(* state it names is on the cluster as rendered from it, nothing of its    *)
(* disabled routes is, nor is the unscoped legacy ingress; whatever failed *)
(* before, and across a change of leader, unless a cancelled call of an    *)
(* earlier leader arrived late.                                            *)
ReadyIsLoaded ==
    status.state = "ready" /\ ~strayed =>
        /\ \A p \in Rendered(status.hash) : cluster[p] = status.hash
        /\ \A p \in Deletions(status.hash) \cup {Legacy} : cluster[p] = Unset

(* DepartedArePruned: a ready state has no resource of a route that is no  *)
(* longer listed at all, provided no pass ended halfway and no other pod   *)
(* took over: the inventory survives a restart of the container.           *)
DepartedArePruned ==
    status.state = "ready" /\ ~strayed /\ ~broken =>
        \A p \in Paths : cluster[p] # Unset => p \in KeptRoutes(status.hash)

(* LimitsAreLoaded: a limit publication that is shown as applied is the    *)
(* one the native plugins run.                                             *)
LimitsAreLoaded ==
    LimitState = "applied" /\ ~strayed => pluginRevision = quotas.rev

(* ReadyHasNoDeparted: what the comment in Apply says of pruneAbsent       *)
(* without the provisos: a route that left the desired state does not stay *)
(* on the gateway after the status is ready.                               *)
ReadyHasNoDeparted ==
    status.state = "ready" /\ ~strayed =>
        \A p \in Paths : cluster[p] # Unset => p \in KeptRoutes(status.hash)

\* The types; ready means loaded and pruned, applied limits are loaded.
ReconcilerInvariant ==
    /\ ReconcilerTypeOK
    /\ ReadyIsLoaded
    /\ DepartedArePruned
    /\ LimitsAreLoaded
==============================================================================
