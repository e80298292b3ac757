------------------------------ MODULE MCGateway -----------------------------
(***************************************************************************)
(* Access to models at the gateway, part by part: a behaviour is one of    *)
(* the publications of a session or of a workload with their relays, the   *)
(* enforcement of a session's access, or the reconciler with its replicas; *)
(* what a part does not use rests.                                         *)
(***************************************************************************)
EXTENDS AccessEnforcement, GatewayReconciler, TLC

VARIABLE part

\* Who has access: sessions or workloads, not both in one behaviour.
OnlySessions  == \A b \in Workloads : binding[b].state = "none"
OnlyWorkloads == \A b \in Sessions : binding[b].state = "none"

\* A second relay makes the claims of sessions overlap; workloads have one, and
\* calls that fail.
NoHiccup == hiccups' = 0
OneRelay == \A v, w \in Relays : v # w => relay'[v] = IdleRelay \/ relay'[w] = IdleRelay

GatewayInit ==
    /\ part \in {"sessions", "workloads", "enforcement", "reconciler"}
    /\ EnforceInit /\ ReconcilerInit
    /\ IF part = "workloads" THEN OnlyWorkloads ELSE OnlySessions
    /\ part = "reconciler" => OnlyWorkloads

\* Three publications, or two and a second grant.
FewPublications == \A b \in Bindings : Len(pubs'[b]) + lastUid' <= MaxGrants + 2

\* Enforcement is checked with assignments that stay: the subject is disabled,
\* the session ends, time passes.
GatewayNext ==
    /\ UNCHANGED part
    /\ \/ /\ UNCHANGED reconcilerVars
          /\ \/ part = "sessions" /\ AccessNext /\ OnlySessions' /\ NoHiccup /\ UNCHANGED enforceVars
             \/ part = "workloads" /\ AccessNext /\ OnlyWorkloads' /\ OneRelay /\ UNCHANGED enforceVars
             \/ part = "enforcement" /\ EnforceNext /\ OnlySessions' /\ FewPublications
                /\ subject'.models = subject.models
       \/ part = "reconciler" /\ ReconcilerNext /\ UNCHANGED allAccessVars

GatewaySpec == GatewayInit /\ [][GatewayNext]_<<part, allAccessVars, reconcilerVars>>

\* Replicas differ in nothing but their names.
ReplicaSymmetry == Permutations(Replicas)

\* One route switched on, then another one off and the first one gone.
MCRoute ==
    [d \in RouteSets |-> IF d = "a" THEN [m1 |-> "abs", m2 |-> "on"] ELSE [m1 |-> "off", m2 |-> "none"]]
=============================================================================
