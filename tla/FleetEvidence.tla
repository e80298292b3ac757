----------------------------- MODULE FleetEvidence -----------------------------
(***************************************************************************)
(* Evidence that the gateway fleet has loaded a snapshot (gateway-operator *)
(* internal/dataplane, internal/controller/dataplane.go).                  *)
(*                                                                         *)
(* The operator reads the roster of the fleet, dumps the configuration of  *)
(* every pod, compares it with the compiled snapshot, and reads the roster *)
(* and the snapshot again. Meanwhile pods are replaced, load routes and    *)
(* plugins on their own, and the snapshot moves on. Routes inherit the     *)
(* readiness of the aggregate while its evidence is fresh.                 *)
(***************************************************************************)
EXTENDS Integers, FiniteSets

CONSTANTS
    Pods,           \* identities of pods, never used twice
    FirstPods,      \* the fleet at the start
    Snapshots,      \* [routes, forbidden, plugin]: what snapshots compile to
    MaxSnapshotMoves

VARIABLES
    podState,       \* "new", "starting", "ready", "terminating" or "gone"
    loaded,         \* [routes, plugin] of pods
    wanted,        \* the snapshot of the objects in the cluster
    observation,    \* the one in progress
    evidence,       \* status.dataPlane with the condition Ready: at most one
    routeReady,     \* the Ready condition of a route: at most one snapshot
    matched,        \* auxiliary: pods that had the observed snapshot during it
    moves

fleetVars == <<podState, loaded, wanted, observation, evidence, routeReady, matched, moves>>

NoObservation == [phase |-> "idle"]
Fleet         == {p \in Pods : podState[p] \in {"starting", "ready", "terminating"}}

FleetInit ==
    /\ podState = [p \in Pods |-> IF p \in FirstPods THEN "ready" ELSE "new"]
    /\ wanted \in Snapshots
    /\ loaded = [p \in Pods |-> [routes |-> {}, plugin |-> 0]]
    /\ observation = NoObservation /\ evidence = {} /\ routeReady = {} /\ matched = {}
    /\ moves = 0

-----------------------------------------------------------------------------
(* The cluster. *)

MoveSnapshot(s) ==
    /\ moves < MaxSnapshotMoves /\ moves' = moves + 1
    /\ s # wanted /\ wanted' = s
    /\ UNCHANGED <<podState, loaded, observation, evidence, routeReady, matched>>

\* What a dump is compared for: no forbidden resource, every ingress (its route
\* and cluster as rendered), and the plugin with the rendered configuration.
NothingForbidden(l, s) == l.routes \cap s.forbidden = {}
IngressesLoaded(l, s)  == s.routes \subseteq l.routes
PluginLoaded(l, s)     == l.plugin = s.plugin

Matches(l, s) == NothingForbidden(l, s) /\ IngressesLoaded(l, s) /\ PluginLoaded(l, s)

\* Auxiliary.
Note(l) ==
    matched' = IF observation.phase = "idle" THEN matched
               ELSE matched \cup {p \in Pods : Matches(l[p], observation.snapshot)}

\* Routes and plugins arrive over different discovery services.
Load(p, l) ==
    /\ podState[p] \in {"starting", "ready", "terminating"} /\ l # loaded[p]
    /\ loaded' = [loaded EXCEPT ![p] = l]
    /\ Note(loaded')
    /\ UNCHANGED <<podState, wanted, observation, evidence, routeReady, moves>>

LoadRoutes(p)  == Load(p, [loaded[p] EXCEPT !.routes = wanted.routes])
LoadPlugins(p) == Load(p, [loaded[p] EXCEPT !.plugin = wanted.plugin])

\* A rollout or an eviction.
MovePod(p, from, to) ==
    /\ podState[p] = from
    /\ podState' = [podState EXCEPT ![p] = to]
    /\ UNCHANGED <<loaded, wanted, observation, evidence, routeReady, matched, moves>>

\* Evidence is "recent" for driftInterval, "fresh" up to the bound of
\* DataPlaneEvidence.Fresh, then "old".
EvidenceAges ==
    /\ evidence' = {[e EXCEPT !.age = IF @ = "recent" THEN "fresh" ELSE "old"] : e \in evidence}
    /\ evidence' # evidence
    /\ UNCHANGED <<podState, loaded, wanted, observation, routeReady, matched, moves>>

-----------------------------------------------------------------------------
(* Runtime.observeDataPlane and Fleet.Observe. *)

\* Fleet.roster: every owned pod is ready and serves.
Roster   == {p \in Pods : podState[p] = "ready"}

RosterOK == Roster = Fleet /\ Cardinality(Roster) = Cardinality(FirstPods)

\* DataPlaneEvidence.Fresh.
FreshEvidence(e, s) == e.snapshot = s /\ e.age # "old"

\* status keeps recent evidence of the snapshot; otherwise it is taken anew.
BeginObservation ==
    /\ observation.phase = "idle"
    /\ ~\E e \in evidence : FreshEvidence(e, wanted) /\ e.age = "recent"
    /\ observation' = [phase |-> "roster", snapshot |-> wanted]
    /\ matched' = {p \in Pods : Matches(loaded[p], wanted)}
    /\ UNCHANGED <<podState, loaded, wanted, evidence, routeReady, moves>>

\* Any error leaves the aggregate without evidence.
GiveUp == observation' = NoObservation /\ evidence' = {}

ReadRoster ==
    /\ observation.phase = "roster"
    /\ IF RosterOK
       THEN /\ observation' = [phase |-> "dump", snapshot |-> observation.snapshot, pods |-> Roster, left |-> Roster]
            /\ UNCHANGED evidence
       ELSE GiveUp
    /\ UNCHANGED <<podState, loaded, wanted, routeReady, matched, moves>>

\* Desired.Verify.
PodVerified(l, s) == Matches(l, s)

\* PodDump of one pod; it fails if the pod is gone.
Dump(p) ==
    /\ observation.phase = "dump" /\ p \in observation.left
    /\ IF podState[p] # "gone" /\ PodVerified(loaded[p], observation.snapshot)
       THEN /\ observation' = [observation EXCEPT !.left = @ \ {p}]
            /\ UNCHANGED evidence
       ELSE GiveUp
    /\ UNCHANGED <<podState, loaded, wanted, routeReady, matched, moves>>

\* Mutant: the roster is not read a second time.
RosterOnce(pods) == TRUE

\* The second roster equals the first.
SameRoster(pods) == RosterOK /\ Roster = pods

\* The second roster, the second snapshot, and the status.
Conclude ==
    /\ observation.phase = "dump" /\ observation.left = {}
    /\ IF SameRoster(observation.pods) /\ wanted = observation.snapshot
       THEN /\ evidence' = {[snapshot |-> wanted, age |-> "recent", pods |-> observation.pods]}
            /\ observation' = NoObservation
       ELSE GiveUp
    /\ UNCHANGED <<podState, loaded, wanted, routeReady, matched, moves>>

\* inheritDataPlane when a route's status is written.
RouteStatus ==
    /\ routeReady' = {e \in evidence : FreshEvidence(e, wanted)}
    /\ routeReady' # routeReady
    /\ UNCHANGED <<podState, loaded, wanted, observation, evidence, matched, moves>>

FleetNext ==
    \/ EvidenceAges \/ BeginObservation \/ ReadRoster \/ Conclude \/ RouteStatus
    \/ \E s \in Snapshots : MoveSnapshot(s)
    \/ \E p \in Pods :
           \/ LoadRoutes(p) \/ LoadPlugins(p) \/ Dump(p)
           \/ MovePod(p, "new", "starting") \/ MovePod(p, "starting", "ready")
           \/ MovePod(p, "ready", "terminating") \/ MovePod(p, "terminating", "gone")

FleetSpec == FleetInit /\ [][FleetNext]_fleetVars

-----------------------------------------------------------------------------
(* Properties. *)

\* At most one piece of evidence is kept, and it is about as many pods as the
\* gateway Deployment asks for (roster).
FleetTypeOK ==
    /\ Cardinality(evidence) <= 1 /\ Cardinality(routeReady) <= 1
    /\ \A e \in evidence \cup routeReady : Cardinality(e.pods) = Cardinality(FirstPods)
    /\ observation.phase \in {"idle", "roster", "dump"}

\* Evidence is only issued by an observation during which every pod of the fleet
\* had loaded the snapshot with nothing forbidden left, and when it is issued the
\* fleet consists of exactly those pods: none was replaced behind its back.
EvidenceIsReal ==
    [][\A e \in evidence' \ evidence :
           e.age = "recent" => e.pods = Fleet /\ e.pods \subseteq matched /\ e.snapshot = wanted]_fleetVars
=============================================================================
