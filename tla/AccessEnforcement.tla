-------------------------- MODULE AccessEnforcement --------------------------
(***************************************************************************)
(* The access controller of the gateway operator and the authorizer that   *)
(* runs what it writes.  A grant becomes a ConfigMap with the bounds of    *)
(* its publication, an AuthConfig with its policy and, while it allows     *)
(* something, a route for its binding.  The authorizer watches AuthConfigs *)
(* and polls the bounds; it allows a request when both name one policy     *)
(* hash and the time is inside the window of the bounds.                   *)
(***************************************************************************)
EXTENDS ModelAccess

CONSTANTS MaxGrants,   \* grants made for bindings; the last one is not deleted
          DeleteTimes  \* when grants are deleted by hand

VARIABLES bounds,      \* per binding: the set of its at most one ConfigMap
          config,      \* per binding: the set of its at most one AuthConfig
          route,       \* per binding: the UID its EnvoyFilter is labelled with, 0 without
          op,          \* the reconcile under way: [at, b, g]
          serving      \* per binding: [config, bounds] the authorizer has loaded

enforceVars == <<bounds, config, route, op, serving>>
allAccessVars == <<accessVars, enforceVars>>

NoOp == [at |-> "idle", b |-> NoOne, g |-> {}]

EnforceInit ==
    /\ AccessInit
    /\ bounds = [b \in Bindings |-> {}]
    /\ config = [b \in Bindings |-> {}]
    /\ route = [b \in Bindings |-> 0]
    /\ op = NoOp
    /\ serving = [b \in Bindings |-> [config |-> {}, bounds |-> {}]]

(* The relays, by what ModelAccess shows of them: a publication is         *)
(* projected at any time, or fails and is captured again.                  *)
Project(b) ==
    /\ \E n \in DOMAIN pubs[b] : Projects(b, n)
    /\ UNCHANGED <<sourceVars, pubs, relay, hiccups, enforceVars>>

Fail(b) ==
    /\ pubs[b] # <<>> /\ Open(Latest(b))
    /\ pubs' = [pubs EXCEPT ![b][Len(pubs[b])].phase = "failed"]
    /\ UNCHANGED <<sourceVars, relay, grant, lastUid, hiccups, enforceVars>>

(* The semantic hash covers the policy, not the publication or its window. *)
PolicyHash(s) == [disabled |-> s.disabled, models |-> s.models]

(* Render                                                                  *)
RenderBounds(g) == [uid |-> g.uid, seq |-> g.spec.seq, hash |-> PolicyHash(g.spec),
                    issued |-> g.spec.issued, until |-> g.spec.until]
RenderConfig(g) == [uid |-> g.uid, seq |-> g.spec.seq, hash |-> PolicyHash(g.spec)]

(* current: the grant is still the one this reconcile has read.            *)
IsCurrent(h) == \E g \in grant[op.b] : g.uid = h.uid /\ ~g.deleting /\ g.spec = h.spec

End == op' = NoOp
ledgerVars == <<now, subject, binding, change, pubs, relay, lastUid, allowedAt, hiccups>>

(* Every object is written after a check that the grant is current.  The   *)
(* check is taken with the step before it; the grant may change before the *)
(* write, and a later check may still see that (Outdated).                 *)
Go(at, g) == op' = IF IsCurrent(g) THEN [op EXCEPT !.at = at] ELSE NoOp

HasFinalizer(g) == g.final

(* Reconcile reads the grant.  Before anything else it gets the finalizer  *)
(* that keeps it until its route is gone.                                  *)
Reconcile(b) ==
    /\ op = NoOp
    /\ \E g \in grant[b] :
          \/ /\ g.deleting
             /\ op' = [at |-> "remove", b |-> b, g |-> {g}]
             /\ UNCHANGED grant
          \/ /\ ~g.deleting /\ ~HasFinalizer(g)
             /\ grant' = [grant EXCEPT ![b] = {[g EXCEPT !.final = TRUE, !.rv = @ + 1]}]
             /\ UNCHANGED op
          \/ /\ ~g.deleting /\ HasFinalizer(g)
             /\ op' = [at |-> "policy", b |-> b, g |-> {g}]
             /\ UNCHANGED grant
    /\ UNCHANGED <<ledgerVars, bounds, config, route, serving>>

(* current returns false: the reconcile ends and starts again.             *)
Outdated ==
    /\ op.at \in {"config", "route"} /\ \E g \in op.g : ~IsCurrent(g)
    /\ End
    /\ UNCHANGED <<ledgerVars, grant, bounds, config, route, serving>>

(* writePolicy: an object of another grant or of a newer publication is    *)
(* left alone.                                                             *)
WritePolicy ==
    /\ op.at = "policy"
    /\ \E g \in op.g :
          IF \E c \in bounds[op.b] : c.uid # g.uid \/ c.seq > g.spec.seq
          THEN End /\ UNCHANGED bounds
          ELSE /\ bounds' = [bounds EXCEPT ![op.b] = {RenderBounds(g)}]
               /\ Go("config", g)
    /\ UNCHANGED <<ledgerVars, grant, config, route, serving>>

(* writeConfig: an AuthConfig with the same policy is not touched, so that *)
(* the authorizer keeps what it has cached.                                *)
WriteConfig ==
    /\ op.at = "config"
    /\ \E g \in op.g :
          IF \/ RenderBounds(g) \notin bounds[op.b]
             \/ \E c \in config[op.b] : c.uid # g.uid \/ c.seq > g.spec.seq
          THEN End /\ UNCHANGED config
          ELSE /\ config' = IF \E c \in config[op.b] : c.hash = PolicyHash(g.spec)
                            THEN config
                            ELSE [config EXCEPT ![op.b] = {RenderConfig(g)}]
               /\ Go("route", g)
    /\ UNCHANGED <<ledgerVars, grant, bounds, route, serving>>

(* The route is wanted while the grant allows something.                   *)
WantsRoute(g) == ~g.spec.disabled /\ g.spec.models # {} /\ now < g.spec.until

(* writeBindingRoute and removeBindingRoute: a route that carries the UID  *)
(* of another grant is left alone.                                         *)
WriteRoute ==
    /\ op.at = "route"
    /\ \E g \in op.g :
          route' = IF route[op.b] \notin {0, g.uid} THEN route
                   ELSE [route EXCEPT ![op.b] = IF WantsRoute(g) THEN g.uid ELSE 0]
    /\ End
    /\ UNCHANGED <<ledgerVars, grant, bounds, config, serving>>

(* finalizeRoute of a grant that is being deleted.                         *)
RemoveRoute ==
    /\ op.at = "remove"
    /\ \E g \in op.g :
          IF ~g.final \/ route[op.b] \notin {0, g.uid} THEN End /\ UNCHANGED route
          ELSE route' = [route EXCEPT ![op.b] = 0] /\ op' = [op EXCEPT !.at = "finalize"]
    /\ UNCHANGED <<ledgerVars, grant, bounds, config, serving>>

RemoveFinalizer ==
    /\ op.at = "finalize"
    /\ \E g \in op.g :
          grant' = [grant EXCEPT ![op.b] = {h \in @ : h.uid # g.uid \/ h.rv # g.rv}]
    /\ End
    /\ UNCHANGED <<ledgerVars, bounds, config, route, serving>>

(* A grant is deleted by hand: at once without a finalizer.                *)
DeleteGrant(b) ==
    /\ lastUid < MaxGrants /\ now \in DeleteTimes
    /\ \E g \in grant[b] :
          /\ ~g.deleting
          /\ grant' = [grant EXCEPT ![b] =
                         IF g.final THEN {[g EXCEPT !.deleting = TRUE, !.rv = @ + 1]} ELSE {}]
    /\ UNCHANGED <<ledgerVars, bounds, config, route, op, serving>>

(* Kubernetes collects the objects of a grant that is gone.                *)
Collect(b) ==
    LET orphan(c) == ~\E g \in grant[b] : g.uid = c.uid IN
    /\ \E c \in bounds[b] \cup config[b] : orphan(c)
    /\ bounds' = [bounds EXCEPT ![b] = {c \in @ : ~orphan(c)}]
    /\ config' = [config EXCEPT ![b] = {c \in @ : ~orphan(c)}]
    /\ UNCHANGED <<ledgerVars, grant, route, op, serving>>

(* A call fails, or the operator starts again: the reconcile is repeated.  *)
OperatorFails ==
    /\ op # NoOp
    /\ End
    /\ UNCHANGED <<ledgerVars, grant, bounds, config, route, serving>>

(* The authorizer takes up either object in its own time.                  *)
LoadConfig(b) ==
    /\ serving[b].config # config[b]
    /\ serving' = [serving EXCEPT ![b].config = config[b]]
    /\ UNCHANGED <<ledgerVars, grant, bounds, config, route, op>>

LoadBounds(b) ==
    /\ serving[b].bounds # bounds[b]
    /\ serving' = [serving EXCEPT ![b].bounds = bounds[b]]
    /\ UNCHANGED <<ledgerVars, grant, bounds, config, route, op>>

EnforceNext ==
    \/ BusinessStep /\ UNCHANGED enforceVars
    \/ \E b \in Bindings : Project(b) \/ Fail(b)
    \/ Outdated \/ WritePolicy \/ WriteConfig \/ WriteRoute
    \/ RemoveRoute \/ RemoveFinalizer \/ OperatorFails
    \/ \E b \in Bindings : \/ Reconcile(b) \/ DeleteGrant(b) \/ Collect(b)
                           \/ LoadConfig(b) \/ LoadBounds(b)

EnforceSpec == EnforceInit /\ [][EnforceNext]_allAccessVars

------------------------------------------------------------------------------
(* boundsRego: the policy the AuthConfig decided by, inside the window.    *)
BoundsAllow(b, c, n) == n.hash = c.hash /\ n.issued <= now /\ n.until > now

(* accessRego and boundsRego together: what a request may use.             *)
Allowed(b, m) ==
    \E c \in serving[b].config, n \in serving[b].bounds :
        ~c.hash.disabled /\ m \in c.hash.models /\ BoundsAllow(b, c, n)

(* AccessIsRecent: a request is allowed only for a model that the source   *)
(* allowed this binding less than the freshness ago, however captures,     *)
(* deliveries, reconciles and both loads of the authorizer interleave,     *)
(* fail or stand still: a revocation takes effect within Fresh seconds.    *)
AccessIsRecent ==
    \A b \in Bindings, m \in AccessModels :
        Allowed(b, m) => now - allowedAt[b][m] < Fresh

(* ExpiryEndsAccess: access ends with the session or verification it was   *)
(* given for and does not last into the freshness beyond it, though        *)
(* nothing is captured, projected or reconciled at that moment.            *)
ExpiryEndsAccess ==
    \A b \in Bindings, m \in AccessModels : Allowed(b, m) => binding[b].until > now

(* NoOrphanRoute: a binding route, which no owner reference protects, has  *)
(* a grant whose finalizer will remove it.                                 *)
NoOrphanRoute ==
    \A b \in Bindings :
        route[b] # 0 => \E g \in grant[b] : g.uid = route[b] /\ g.final

(* EnforceTypeOK: the types of the operator's objects.                     *)
EnforceTypeOK ==
    /\ \A b \in Bindings :
          /\ Cardinality(bounds[b]) <= 1 /\ Cardinality(config[b]) <= 1
          /\ \A c \in bounds[b] : c.seq \in DOMAIN pubs[b] /\ c.issued < c.until
          /\ \A c \in config[b] : c.seq \in DOMAIN pubs[b] /\ c.uid \in 1 .. lastUid
    /\ route \in [Bindings -> 0 .. lastUid]
    /\ op.b \in Bindings \cup {NoOne}

\* The types; access is recent and ends with its deadline; routes have grants.
EnforceInvariant ==
    /\ EnforceTypeOK
    /\ AccessIsRecent
    /\ ExpiryEndsAccess
    /\ NoOrphanRoute
==============================================================================
