---------------------------- MODULE GatewayOperator ----------------------------
(***************************************************************************)
(* The gateway operator (gateway-operator/internal/controller).            *)
(*                                                                         *)
(* One worker reconciles the DeploymentConfig and applies the aggregate    *)
(* plugins, another the ModelRoutes and applies their ingresses. Both      *)
(* render from a snapshot: the deployment, then the routes, then the       *)
(* policies and secrets, read one after the other from the API server. A   *)
(* publication relay writes routes and policies before the deployment, all *)
(* with the publication's marker; without a relay (mark 0) administrators  *)
(* edit the objects directly. A snapshot's hash stands for all it rendered.*)
(***************************************************************************)
EXTENDS Integers, Sequences, FiniteSets

CONSTANTS
    ModelRoutes,
    Publications,      \* sequence of [dep, policy, routes]: what the relay delivers
    DirectModes,       \* {TRUE}: direct administration, {FALSE}: a relay delivers
    Deletable,         \* routes that may be deleted
    MaxRotations, MaxApplyFailures, MaxDirectEdits

ASSUME OperatorAssumption ==
    /\ Publications \in Seq([dep : Nat, policy : Nat, routes : [ModelRoutes -> {"on", "off"}]])
    /\ Publications # <<>>
    /\ DirectModes \subseteq BOOLEAN

VARIABLES
    direct,            \* no relay: nothing is marked
    next,              \* the publication being delivered
    deployment,        \* [mark, value, rv, applied, snapshot]
    routeObjects,      \* [here, mark, value, finalizer, deleting] by route
    policyObject,      \* [mark, value]
    credentialSecret,
    aggregate,         \* hash rendered into the aggregate plugins
    ingresses,         \* hash rendered into a route's ingress
    worker,            \* the two reconcilers: [phase, rv, dep, routes, hash] of the deployment,
                       \* [phase, route, deleting, finalizer, early, dep, routes, hash] of a route
    appliedEver,       \* auxiliary: hashes of aggregates that were applied
    appliedSince,      \* auxiliary: aggregates in place since the route worker began
    rotations, applyFailures, directEdits

operatorVars == <<direct, next, deployment, routeObjects, policyObject, credentialSecret, aggregate, ingresses,
                  worker, appliedEver, appliedSince, rotations, applyFailures, directEdits>>
crVars       == <<direct, next, policyObject, credentialSecret, rotations, directEdits>>

NoHash   == [none |-> TRUE]
Unread   == <<>>
IdleWork == [phase |-> "idle"]
Reconcilers == {"deployment", "route"}

OperatorInit ==
    /\ direct \in DirectModes
    /\ next = IF direct THEN 1 ELSE 2
    /\ LET mark == IF direct THEN 0 ELSE 1 first == Publications[1] IN
       /\ deployment = [mark |-> mark, value |-> first.dep, rv |-> 0, applied |-> FALSE, snapshot |-> NoHash]
       /\ routeObjects = [r \in ModelRoutes |-> [here |-> TRUE, mark |-> mark, value |-> first.routes[r],
                                                 finalizer |-> FALSE, deleting |-> FALSE]]
       /\ policyObject = [mark |-> mark, value |-> first.policy]
    /\ credentialSecret = 0 /\ rotations = 0 /\ applyFailures = 0 /\ directEdits = 0
    /\ aggregate = NoHash /\ ingresses = [r \in ModelRoutes |-> NoHash]
    /\ worker = [c \in Reconcilers |-> IdleWork]
    /\ appliedEver = {} /\ appliedSince = {}

-----------------------------------------------------------------------------
(* The relay (children first, the aggregate marker last) and administrators.  *)

RelayRoute(r) ==
    /\ ~direct /\ next <= Len(Publications)
    /\ routeObjects[r].here /\ routeObjects[r].mark < next
    /\ routeObjects' = [routeObjects EXCEPT ![r].mark = next, ![r].value = Publications[next].routes[r]]
    /\ UNCHANGED <<crVars, deployment, aggregate, ingresses, worker, appliedEver, appliedSince, applyFailures>>

RelayPolicy ==
    /\ ~direct /\ next <= Len(Publications)
    /\ policyObject.mark < next
    /\ policyObject' = [mark |-> next, value |-> Publications[next].policy]
    /\ UNCHANGED <<direct, next, credentialSecret, rotations, directEdits, deployment, routeObjects, aggregate, ingresses,
                   worker, appliedEver, appliedSince, applyFailures>>

RelayAggregate ==
    /\ ~direct /\ next <= Len(Publications)
    /\ policyObject.mark = next /\ \A r \in ModelRoutes : routeObjects[r].here => routeObjects[r].mark = next
    /\ deployment' = [deployment EXCEPT !.mark = next, !.value = Publications[next].dep, !.rv = @ + 1]
    /\ next' = next + 1
    /\ UNCHANGED <<direct, policyObject, credentialSecret, rotations, directEdits, routeObjects, aggregate, ingresses,
                   worker, appliedEver, appliedSince, applyFailures>>

EditRoute(r, v) ==
    /\ direct /\ directEdits < MaxDirectEdits /\ directEdits' = directEdits + 1
    /\ routeObjects[r].here /\ routeObjects[r].value # v
    /\ routeObjects' = [routeObjects EXCEPT ![r].value = v]
    /\ UNCHANGED <<direct, next, policyObject, credentialSecret, rotations, deployment, aggregate, ingresses,
                   worker, appliedEver, appliedSince, applyFailures>>

\* Without its finalizer the object goes at once.
DeleteRoute(r) ==
    /\ r \in Deletable /\ routeObjects[r].here /\ ~routeObjects[r].deleting
    /\ routeObjects' = [routeObjects EXCEPT ![r].deleting = TRUE, ![r].here = routeObjects[r].finalizer]
    /\ UNCHANGED <<crVars, deployment, aggregate, ingresses, worker, appliedEver, appliedSince, applyFailures>>

RotateSecret ==
    /\ rotations < MaxRotations
    /\ rotations' = rotations + 1 /\ credentialSecret' = 1 - credentialSecret
    /\ UNCHANGED <<direct, next, policyObject, directEdits, deployment, routeObjects, aggregate, ingresses,
                   worker, appliedEver, appliedSince, applyFailures>>

-----------------------------------------------------------------------------
(* Runtime.snapshot. *)

WorkOn(c, w) == worker' = [worker EXCEPT ![c] = w]

\* Get of the object to reconcile.
BeginDeployment ==
    /\ worker["deployment"].phase = "idle"
    /\ WorkOn("deployment", [phase |-> "dep", rv |-> deployment.rv, dep |-> Unread, routes |-> Unread, hash |-> NoHash])
    /\ UNCHANGED <<crVars, deployment, routeObjects, aggregate, ingresses, appliedEver, appliedSince, applyFailures>>

BeginRoute(r) ==
    /\ worker["route"].phase = "idle" /\ routeObjects[r].here
    /\ WorkOn("route", [phase |-> "dep", route |-> r, deleting |-> routeObjects[r].deleting,
                      finalizer |-> routeObjects[r].finalizer, early |-> IF routeObjects[r].deleting THEN {deployment} ELSE {},
                      dep |-> Unread, routes |-> Unread, hash |-> NoHash])
    /\ appliedSince' = {aggregate}
    /\ UNCHANGED <<crVars, deployment, routeObjects, aggregate, ingresses, appliedEver, applyFailures>>

NeedsFinalizer(w) == ~w.deleting /\ ~w.finalizer

\* ensureFinalizer: the patch ends the reconciliation.
EnsureFinalizer ==
    LET w == worker["route"] IN
    /\ w.phase = "dep" /\ NeedsFinalizer(w)
    /\ routeObjects' = [routeObjects EXCEPT ![w.route].finalizer = @ \/ routeObjects[w.route].here]
    /\ WorkOn("route", IdleWork)
    /\ UNCHANGED <<crVars, deployment, aggregate, ingresses, appliedEver, appliedSince, applyFailures>>

ReadDeployment(c) ==
    LET w == worker[c] IN
    /\ w.phase = "dep"
    /\ c = "route" => ~NeedsFinalizer(w)
    /\ WorkOn(c, [w EXCEPT !.phase = "routes", !.dep = deployment])
    /\ UNCHANGED <<crVars, deployment, routeObjects, aggregate, ingresses, appliedEver, appliedSince, applyFailures>>

ListRoutes(c) ==
    LET w == worker[c] IN
    /\ w.phase = "routes"
    /\ WorkOn(c, [w EXCEPT !.phase = "policies", !.routes = routeObjects])
    /\ UNCHANGED <<crVars, deployment, routeObjects, aggregate, ingresses, appliedEver, appliedSince, applyFailures>>

\* Mutant: the policy may be that of another publication.
AnyPolicy(dep, routes, policy) ==
    \A r \in ModelRoutes : routes[r].here => routes[r].mark = dep.mark /\ (dep.mark > 0 => ~routes[r].deleting)

\* consistentPublication: all of one publication, none terminating; or none marked.
Consistent(dep, routes, policy) ==
    /\ policy.mark = dep.mark
    /\ \A r \in ModelRoutes : routes[r].here => routes[r].mark = dep.mark /\ (dep.mark > 0 => ~routes[r].deleting)

\* Render: what the hash stands for; a terminating route is left out.
Hash(dep, routes, policy) ==
    [dep |-> dep.value, policy |-> policy.value, secret |-> credentialSecret,
     routes |-> [r \in {q \in ModelRoutes : routes[q].here /\ ~routes[q].deleting} |-> routes[r].value]]

\* The policies and the secrets are read, and the snapshot is rendered.
Render(c) ==
    LET w  == worker[c]
        ok == Consistent(w.dep, w.routes, policyObject)
    IN /\ w.phase = "policies"
       /\ WorkOn(c, [w EXCEPT !.phase = IF ok THEN "apply" ELSE "failed", !.routes = Unread,
                              !.hash = IF ok THEN Hash(w.dep, w.routes, policyObject) ELSE NoHash])
       /\ UNCHANGED <<crVars, deployment, routeObjects, aggregate, ingresses, appliedEver, appliedSince, applyFailures>>

-----------------------------------------------------------------------------
(* DeploymentConfigReconciler. *)

ApplyAggregate(ok) ==
    LET w == worker["deployment"] IN
    /\ w.phase = "apply"
    /\ ok \/ applyFailures < MaxApplyFailures
    /\ IF ok
       THEN /\ aggregate' = w.hash /\ appliedEver' = appliedEver \cup {w.hash}
            /\ appliedSince' = appliedSince \cup {w.hash}
            /\ WorkOn("deployment", [w EXCEPT !.phase = "status"])
            /\ UNCHANGED applyFailures
       ELSE /\ WorkOn("deployment", [w EXCEPT !.phase = "failed"])
            /\ applyFailures' = applyFailures + 1
            /\ UNCHANGED <<aggregate, appliedEver, appliedSince>>
    /\ UNCHANGED <<crVars, deployment, routeObjects, ingresses>>

\* Mutant: a status that says applied is never written again.
OnlyFirst(rv) == deployment.rv = rv /\ ~deployment.applied

\* MergeFromWithOptimisticLock: the patch applies to the version that was read.
SameResourceVersion(rv) == deployment.rv = rv

\* status: the applied hash, or not applied with the hash left alone.
DeploymentStatus ==
    LET w  == worker["deployment"]
        ok == w.phase = "status"
        new == [deployment EXCEPT !.applied = ok, !.snapshot = IF ok THEN w.hash ELSE @]
    IN /\ w.phase \in {"status", "failed"}
       /\ deployment' = IF SameResourceVersion(w.rv) /\ new # deployment THEN [new EXCEPT !.rv = @ + 1] ELSE deployment
       /\ WorkOn("deployment", IdleWork)
       /\ UNCHANGED <<crVars, routeObjects, aggregate, ingresses, appliedEver, appliedSince, applyFailures>>

-----------------------------------------------------------------------------
(* ModelRouteReconciler.reconcileApplied. *)

\* The status read with the snapshot names the snapshot's hash; a deletion looks
\* at the status that it read before the snapshot.
AggregateMatches(w) ==
    \A d \in IF w.deleting THEN w.early ELSE {w.dep} : d.applied /\ d.snapshot = w.hash

\* No inputs, or the aggregate is pending: withdraw. A route being deleted whose
\* aggregate is pending waits.
WithdrawIngress ==
    LET w == worker["route"] IN
    /\ w.phase = "failed" \/ (w.phase = "apply" /\ ~AggregateMatches(w))
    /\ ingresses' = IF w.phase = "failed" \/ ~w.deleting
                    THEN [ingresses EXCEPT ![w.route] = NoHash] ELSE ingresses
    /\ WorkOn("route", IdleWork)
    /\ UNCHANGED <<crVars, deployment, routeObjects, aggregate, appliedEver, appliedSince, applyFailures>>

Serves(hash, r) == r \in DOMAIN hash.routes /\ hash.routes[r] = "on"

\* apply: the ingress as rendered, or none where the route is not enabled.
ApplyIngress ==
    LET w == worker["route"] IN
    /\ w.phase = "apply" /\ AggregateMatches(w) /\ ~w.deleting
    /\ ingresses' = [ingresses EXCEPT ![w.route] = IF Serves(w.hash, w.route) THEN w.hash ELSE NoHash]
    /\ WorkOn("route", IdleWork)
    /\ UNCHANGED <<crVars, deployment, routeObjects, aggregate, appliedEver, appliedSince, applyFailures>>

\* finalize: prune, then let the object go.
Finalize ==
    LET w == worker["route"] IN
    /\ w.phase = "apply" /\ AggregateMatches(w) /\ w.deleting
    /\ ingresses' = [ingresses EXCEPT ![w.route] = NoHash]
    /\ routeObjects' = [routeObjects EXCEPT ![w.route].here = FALSE]
    /\ WorkOn("route", IdleWork)
    /\ UNCHANGED <<crVars, deployment, aggregate, appliedEver, appliedSince, applyFailures>>

Environment ==
    \/ RelayPolicy \/ RelayAggregate \/ RotateSecret
    \/ \E r \in ModelRoutes : RelayRoute(r) \/ DeleteRoute(r) \/ \E v \in {"on", "off"} : EditRoute(r, v)

ReconcileStep(c) ==
    \/ ReadDeployment(c) \/ ListRoutes(c) \/ Render(c)
    \/ c = "deployment" /\ (ApplyAggregate(TRUE) \/ DeploymentStatus)
    \/ c = "route" /\ (EnsureFinalizer \/ WithdrawIngress \/ ApplyIngress \/ Finalize)

OperatorNext ==
    \/ Environment
    \/ ApplyAggregate(FALSE)
    \/ \E c \in Reconcilers : ReconcileStep(c)
    \/ BeginDeployment
    \/ \E r \in ModelRoutes : BeginRoute(r)

OperatorSpec == OperatorInit /\ [][OperatorNext]_operatorVars

\* Every object is requeued on events and every driftInterval.
OperatorFairness ==
    /\ \A c \in Reconcilers : WF_operatorVars(ReconcileStep(c))
    /\ \A r \in ModelRoutes : SF_operatorVars(BeginRoute(r))
    /\ WF_operatorVars(BeginDeployment)

-----------------------------------------------------------------------------
(* Properties. *)

\* Only an object with the finalizer has an ingress.
OperatorTypeOK ==
    /\ next \in 1 .. Len(Publications) + 1
    /\ deployment.mark <= next
    /\ \A c \in Reconcilers : worker[c].phase \in {"idle", "dep", "routes", "policies", "apply", "failed", "status"}
    /\ \A r \in ModelRoutes : routeObjects[r].here => routeObjects[r].mark <= next
    /\ \A r \in ModelRoutes : ingresses[r] # NoHash => routeObjects[r].here /\ routeObjects[r].finalizer

\* What publication n renders to, with a secret and for some of the routes.
Content(n, s, q) == [dep |-> Publications[n].dep, policy |-> Publications[n].policy, secret |-> s,
                     routes |-> [r \in q |-> Publications[n].routes[r]]]
Contents(n)      == {Content(n, s, q) : s \in {0, 1}, q \in SUBSET ModelRoutes}

\* consistentPublication: "Never render a mixture of publications while delivery
\* or informer caches are catching up". Whatever is applied, as an aggregate or as
\* an ingress, renders the content of one publication.
NoMixture ==
    ~direct => \A h \in appliedEver \cup {ingresses[r] : r \in ModelRoutes} :
                   h = NoHash \/ \E n \in 1 .. Len(Publications) : h \in Contents(n)

\* reconcileApplied: "Route admission follows the matching aggregate": an ingress is
\* rendered from inputs whose aggregate has been applied, and only for a route
\* those inputs enable.
IngressFollowsAggregate ==
    \A r \in ModelRoutes : ingresses[r] # NoHash => ingresses[r] \in appliedEver /\ Serves(ingresses[r], r)

\* "Route deletion waits for the aggregate without that route": a route object goes
\* only after an aggregate without it has been applied, and takes its ingress along.
DeletionAfterAggregate ==
    \A r \in ModelRoutes : ~routeObjects[r].here =>
        /\ ingresses[r] = NoHash
        /\ ~routeObjects[r].finalizer \/ \E h \in appliedEver : r \notin DOMAIN h.routes

\* "A new route must never expose an ingress before its provider and native
\* policies are installed": the aggregate an ingress is rendered with has been in
\* place since the reconciliation that applies it began.
ExposedWithAggregate ==
    [][\A r \in ModelRoutes : ingresses[r] = NoHash /\ ingresses'[r] # NoHash => ingresses'[r] \in appliedSince]_operatorVars

LiveRoute(r) == routeObjects[r].here /\ ~routeObjects[r].deleting

\* Once edits stop, aggregate and ingresses come to serve what the objects say, and
\* deleted routes go (where no relay marks them), as long as the reconcilers are
\* called again and again.
OperatorConverges ==
    []<>(\E c \in Reconcilers : worker[c] # IdleWork) =>
    <>[](/\ aggregate # NoHash
         /\ aggregate.secret = credentialSecret /\ aggregate.dep = deployment.value /\ aggregate.policy = policyObject.value
         /\ \A r \in ModelRoutes :
                /\ LiveRoute(r) => r \in DOMAIN aggregate.routes /\ aggregate.routes[r] = routeObjects[r].value
                /\ (ingresses[r] = aggregate) <=> (LiveRoute(r) /\ routeObjects[r].value = "on")
                /\ routeObjects[r].deleting => ~routeObjects[r].here)

\* The types; no mixture is rendered; an ingress follows its aggregate; a deletion
\* waits for the aggregate.
OperatorInvariant ==
    /\ OperatorTypeOK
    /\ NoMixture
    /\ IngressFollowsAggregate
    /\ DeletionAfterAggregate
=============================================================================
