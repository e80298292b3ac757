----------------------- MODULE GatewayReconcilerProofs -----------------------
(***************************************************************************)
(* Theorems about GatewayReconciler, for every set of replicas, models,    *)
(* desired states and limit revisions and for every bound, and about       *)
(* GatewayOperator, for every set of routes and every sequence of          *)
(* publications.                                                           *)
(***************************************************************************)
EXTENDS GatewayReconciler, GatewayOperator, FiniteSetTheorems, TLAPS

-----------------------------------------------------------------------------
(* The inductive invariant. *)

RouteBodies == RouteSets \cup {Unset}
QuotaBodies == Revisions \cup {Unset}

PassRecord ==
    [at : {"idle", "applying", "delete", "apply", "legacy", "prune", "store", "load",
           "ack", "nack", "ready", "failure"},
     want : RouteBodies, left : SUBSET Paths, quota : QuotaBodies]

CallRecord ==
    [kind : {"status"}, path : Paths, body : RouteBodies,
     state : {"pending", "applying", "ready", "error"}]
    \cup [kind : {"put"}, path : Paths, body : RouteBodies, state : {""}]
    \cup [kind : {"load"}, path : Paths, body : QuotaBodies, state : {""}]
    \cup [kind : {"ack"}, path : Paths, body : QuotaBodies, state : {"applied", "error"}]

\* The types of what the replicas keep.
ReplicaTypeOK ==
    /\ lease \in [holder : Replicas \cup {Unset}, version : Nat]
    /\ st \in [Replicas -> {"follower", "leader", "lost", "stopping", "down"}]
    /\ seen \in [Replicas -> Nat]
    /\ syncPass \in [Replicas -> PassRecord]
    /\ late \in [Replicas -> SUBSET CallRecord]
    /\ memory \in [Replicas -> SUBSET SUBSET Paths]
    /\ file \in [Replicas -> SUBSET SUBSET Paths]
    /\ strayed \in BOOLEAN /\ broken \in BOOLEAN

\* Whoever works holds the Lease.
LeaderHolds == \A i \in Replicas : st[i] = "leader" => lease.holder = i

\* A release that would still succeed is one of the holder.
ReleaseIsOwn ==
    \A i \in Replicas :
        /\ seen[i] <= lease.version
        /\ st[i] = "stopping" /\ seen[i] # 0 /\ seen[i] = lease.version => lease.holder = i

\* Only the leader has a pass under way.
OthersIdle == \A i \in Replicas : st[i] # "leader" => syncPass[i] = NoPass

Lists == {"delete", "apply", "prune"}
Cleared == {"apply", "legacy", "prune", "store", "load", "ack", "ready"}
Applied == Cleared \ {"apply"}
Bare == Applied \ {"legacy"}
Working == Cleared \cup {"delete", "nack"}

\* What the cluster holds at each point of a pass, as far as the state that is
\* being applied is concerned.
PassLoads(i) ==
    LET w == syncPass[i] IN
    /\ w.at \in Working => status.state # "ready"
    /\ w.at = "delete" => \A p \in Deletions(w.want) \ w.left : cluster[p] = Unset
    /\ w.at \in Cleared => \A p \in Deletions(w.want) : cluster[p] = Unset
    /\ w.at = "apply" => \A p \in Rendered(w.want) \ w.left : cluster[p] = w.want
    /\ w.at \in Applied => \A p \in Rendered(w.want) : cluster[p] = w.want
    /\ w.at \in Bare => cluster[Legacy] = Unset
    /\ w.at = "delete" => w.left \subseteq Deletions(w.want)
    /\ w.at = "apply" => w.left \subseteq Rendered(w.want)
    /\ w.at = "prune" => w.left \cap KeptRoutes(w.want) = {}
    /\ w.at \notin Lists => w.left = {}

PassesLoad == ~strayed => \A i \in Replicas : st[i] = "leader" => PassLoads(i)

\* The limit publication a pass has read is the only one that can be shown as
\* applied before the pass is over, and once loaded it is what the plugins run.
PassLimits(i) ==
    LET w == syncPass[i] IN
    /\ w.at \in {"load", "ack", "nack"} => (LimitState = "applied" => quotas.rev = w.quota)
    /\ w.at = "ack" => pluginRevision = w.quota

PassesLimit == ~strayed => \A i \in Replicas : st[i] = "leader" => PassLimits(i)

\* Everything on the cluster but the legacy ingress.
Occupied == {p \in Paths \ {Legacy} : cluster[p] # Unset}

\* What the files of the pods and the pass under way account for.
PassInventory(i) ==
    LET w == syncPass[i] IN
    /\ \A j \in Replicas \ {i} : file[j] = {}
    /\ memory[i] = {} \/ memory[i] = file[i]
    /\ w.at \in {"apply", "legacy"} => Occupied \subseteq (UNION file[i]) \cup KeptRoutes(w.want)
    /\ w.at = "prune" => Occupied \subseteq w.left \cup KeptRoutes(w.want)
    /\ w.at = "store" => Occupied \subseteq KeptRoutes(w.want)
    /\ w.at \notin {"apply", "legacy", "prune", "store"} => Occupied \subseteq UNION file[i]
    /\ w.at \in {"load", "ack", "nack", "ready"} => Occupied \subseteq KeptRoutes(w.want)

Inventory ==
    ~strayed /\ ~broken =>
        /\ \A i \in Replicas : memory[i] = {} \/ memory[i] = file[i]
        /\ \A i \in Replicas : st[i] = "leader" => PassInventory(i)
        /\ (\A i \in Replicas : st[i] # "leader") => Occupied \subseteq UNION (UNION {file[j] : j \in Replicas})

ReconcilerInductive ==
    /\ ReconcilerTypeOK /\ ReplicaTypeOK
    /\ LeaderHolds /\ ReleaseIsOwn /\ OthersIdle
    /\ PassesLoad /\ ReadyIsLoaded
    /\ PassesLimit /\ LimitsAreLoaded
    /\ Inventory /\ DepartedArePruned
-----------------------------------------------------------------------------
(* Types. *)

\* The paths of a desired state.
LEMMA PathsOfState ==
    ASSUME NEW d
    PROVE  /\ Rendered(d) \subseteq Paths /\ Deletions(d) \subseteq Paths
           /\ KeptRoutes(d) \subseteq Paths
           /\ Rendered(d) \cap Deletions(d) = {} /\ KeptRoutes(d) = Rendered(d)
           /\ Legacy \notin Rendered(d) \cup Deletions(d)
           /\ Legacy \in Paths /\ Plugin \in Paths
<1>1. Rendered(d) \subseteq Paths /\ Deletions(d) \subseteq Paths
  BY DEF Rendered, Deletions, Paths
<1>2. \A p \in Rendered(d) : p \notin Deletions(d)
  BY DEF Rendered, Deletions, Plugin
<1>3. Legacy \notin Rendered(d) \cup Deletions(d)
  BY DEF Rendered, Deletions, Plugin, Legacy
<1>4. Legacy \in Paths /\ Plugin \in Paths
  BY DEF Paths
<1> QED
  BY <1>1, <1>2, <1>3, <1>4 DEF KeptRoutes

\* First names at most one path, of the list it is given.
LEMMA FirstOfList ==
    ASSUME NEW S, NEW p \in First(S)
    PROVE  p \in S
<1>1. S # {} /\ p = CHOOSE q \in S : TRUE
  BY DEF First
<1> QED
  BY <1>1

\* The calls of a pass are calls.
LEMMA CallsTyped ==
    ASSUME ReplicaTypeOK, NEW i \in Replicas
    PROVE  Calls(i) \subseteq CallRecord
<1> DEFINE w == syncPass[i]
<1>1. w \in PassRecord
  BY DEF ReplicaTypeOK
<1>2. Plugin \in Paths /\ Legacy \in Paths
  BY PathsOfState
<1>3. \A p \in First(w.left) : p \in Paths
  BY <1>1, FirstOfList DEF PassRecord
<1>4. w.want \in RouteBodies /\ w.quota \in QuotaBodies /\ Unset \in RouteBodies
  BY <1>1 DEF PassRecord, RouteBodies
<1>5. \A p \in Paths : Delete(p) \in CallRecord /\ PutObject(p, w.want) \in CallRecord
  BY <1>4 DEF Delete, PutObject, CallRecord
<1>6. /\ LoadCall(w.quota) \in CallRecord
      /\ Ack(w.quota, "applied") \in CallRecord /\ Ack(w.quota, "error") \in CallRecord
  BY <1>2, <1>4 DEF LoadCall, Ack, CallRecord
<1>7. /\ Say("applying", w.want) \in CallRecord /\ Say("ready", w.want) \in CallRecord
      /\ Say("error", Unset) \in CallRecord
  BY <1>2, <1>4 DEF Say, CallRecord
<1> HIDE DEF w
<1> QED
  BY <1>2, <1>3, <1>5, <1>6, <1>7 DEF Calls, w

\* The next phase of a pass is a phase.
LEMMA FollowingTyped ==
    ASSUME ReplicaTypeOK, NEW i \in Replicas, NEW w \in PassRecord
    PROVE  Following(i, w) \in PassRecord /\ AfterError(w) \in PassRecord
<1>1. Deletions(w.want) \in SUBSET Paths /\ Rendered(w.want) \in SUBSET Paths
  BY PathsOfState
<1>2. LoadApplied(i) \in SUBSET Paths
  BY DEF LoadApplied, ReplicaTypeOK
<1>3. Departed(i, w.want) \in SUBSET Paths
  BY <1>2 DEF Departed
<1>4. NoPass \in PassRecord
  BY DEF NoPass, PassRecord, RouteBodies, QuotaBodies
<1>5. Following(i, w) \in PassRecord
  BY <1>1, <1>3, <1>4 DEF Following, PassRecord
<1>6. AfterError(w) \in PassRecord
  BY <1>4 DEF AfterError, PassRecord
<1> QED
  BY <1>5, <1>6

\* What a call changes keeps its type.
LEMMA LandTyped ==
    ASSUME ReconcilerTypeOK, NEW c \in CallRecord, Land(c)
    PROVE  /\ status' \in [state : {"pending", "applying", "ready", "error"}, hash : RouteSets \cup {Unset}]
           /\ quotas' \in [rev : Revisions \cup {Unset}, state : {"pending", "applied", "error"},
                           observed : Revisions \cup {Unset}]
           /\ cluster' \in [Paths -> RouteSets \cup {Unset, "old"}]
           /\ pluginRevision' \in Revisions \cup {Unset}
<1>1. status' \in [state : {"pending", "applying", "ready", "error"}, hash : RouteSets \cup {Unset}]
  BY DEF Land, ReconcilerTypeOK, CallRecord, RouteBodies
<1>2. cluster' \in [Paths -> RouteSets \cup {Unset, "old"}]
  BY DEF Land, ReconcilerTypeOK, CallRecord, RouteBodies
<1>3. pluginRevision' \in Revisions \cup {Unset}
  BY DEF Land, ReconcilerTypeOK, CallRecord, QuotaBodies
<1>4. quotas' \in [rev : Revisions \cup {Unset}, state : {"pending", "applied", "error"},
                           observed : Revisions \cup {Unset}]
  BY DEF Land, AcknowledgeLimits, ReconcilerTypeOK, CallRecord, QuotaBodies
<1> QED
  BY <1>1, <1>2, <1>3, <1>4

\* The updates of a pass are passes.
LEMMA PassUpdates ==
    ASSUME NEW w \in PassRecord, NEW S, NEW q \in QuotaBodies
    PROVE  /\ [w EXCEPT !.at = "failure", !.left = {}] \in PassRecord
           /\ [w EXCEPT !.left = {}] \in PassRecord
           /\ [w EXCEPT !.left = @ \ S] \in PassRecord
           /\ [w EXCEPT !.at = "ready"] \in PassRecord
           /\ [w EXCEPT !.at = "load", !.quota = q] \in PassRecord
<1>1. [w EXCEPT !.at = "failure", !.left = {}] \in PassRecord
  BY DEF PassRecord
<1>2. [w EXCEPT !.left = {}] \in PassRecord
  BY DEF PassRecord
<1>3. [w EXCEPT !.left = @ \ S] \in PassRecord
  BY DEF PassRecord
<1>4. [w EXCEPT !.at = "ready"] \in PassRecord
  BY DEF PassRecord
<1>5. [w EXCEPT !.at = "load", !.quota = q] \in PassRecord
  BY DEF PassRecord
<1> QED
  BY <1>1, <1>2, <1>3, <1>4, <1>5

\* The next state keeps the types.
LEMMA TypeStep ==
    ASSUME ReconcilerTypeOK, ReplicaTypeOK, [ReconcilerNext]_reconcilerVars
    PROVE  ReconcilerTypeOK' /\ ReplicaTypeOK'
<1> USE DEF ReconcilerTypeOK, ReplicaTypeOK, controlVars, leaderVars, passVars
<1>1. ASSUME NEW d \in RouteSets, PutDesired(d) PROVE ReconcilerTypeOK' /\ ReplicaTypeOK'
  BY <1>1 DEF PutDesired
<1>2. ASSUME PutPending PROVE ReconcilerTypeOK' /\ ReplicaTypeOK'
  BY <1>2 DEF PutPending
<1>3. ASSUME NEW r \in Revisions, PublishLimits(r) PROVE ReconcilerTypeOK' /\ ReplicaTypeOK'
  BY <1>3 DEF PublishLimits
<1>4. ASSUME NEW i \in Replicas, Fetch(i) PROVE ReconcilerTypeOK' /\ ReplicaTypeOK'
  <2>1. Announce(desired) \in PassRecord
    BY DEF Announce, NoPass, PassRecord, RouteBodies, QuotaBodies
  <2> QED
    BY <1>4, <2>1 DEF Fetch
<1>5. ASSUME NEW i \in Replicas, FetchNothing(i) PROVE ReconcilerTypeOK' /\ ReplicaTypeOK'
  BY <1>5 DEF FetchNothing
<1>6. ASSUME NEW i \in Replicas, Unavailable(i) PROVE ReconcilerTypeOK' /\ ReplicaTypeOK'
  <2>1. [syncPass[i] EXCEPT !.at = "failure", !.left = {}] \in PassRecord
    BY PassUpdates, syncPass[i] \in PassRecord, Unset \in QuotaBodies DEF QuotaBodies
  <2> QED
    BY <1>6, <2>1 DEF Unavailable
<1>7. ASSUME NEW i \in Replicas, Call(i) PROVE ReconcilerTypeOK' /\ ReplicaTypeOK'
  <2>1. PICK c \in Calls(i) : CallSucceeds(i, c) \/ CallFails(i, c)
    BY <1>7 DEF Call
  <2>2. c \in CallRecord
    BY CallsTyped
  <2>3. /\ status' \in [state : {"pending", "applying", "ready", "error"}, hash : RouteSets \cup {Unset}]
        /\ quotas' \in [rev : Revisions \cup {Unset}, state : {"pending", "applied", "error"},
                        observed : Revisions \cup {Unset}]
        /\ cluster' \in [Paths -> RouteSets \cup {Unset, "old"}]
        /\ pluginRevision' \in Revisions \cup {Unset}
    <3>1. CASE Land(c)
      BY <3>1, <2>2, LandTyped
    <3>2. CASE UNCHANGED <<cluster, status, pluginRevision, quotas>>
      BY <3>2
    <3> QED
      BY <2>1, <3>1, <3>2 DEF CallSucceeds, CallFails
  <2>4. AfterError(syncPass[i]) \in PassRecord
    BY FollowingTyped
  <2>5. /\ [syncPass[i] EXCEPT !.left = {}] \in PassRecord
        /\ [syncPass[i] EXCEPT !.left = @ \ {c.path}] \in PassRecord
    <3>1. syncPass[i] \in PassRecord /\ Unset \in QuotaBodies
      BY DEF QuotaBodies
    <3> QED
      BY <3>1, PassUpdates
  <2>6. Following(i, [syncPass[i] EXCEPT !.left = {}]) \in PassRecord
    BY <2>5, FollowingTyped
  <2>7. syncPass' \in [Replicas -> PassRecord]
    <3>1. CASE CallSucceeds(i, c)
      <4>1. Advanced(i, c, syncPass[i]) \in PassRecord
        BY <2>5, <2>6 DEF Advanced
      <4> QED
        BY <3>1, <4>1 DEF CallSucceeds
    <3>2. CASE CallFails(i, c)
      BY <3>2, <2>4 DEF CallFails
    <3> QED
      BY <2>1, <3>1, <3>2
  <2>8. broken' \in BOOLEAN
    BY <2>1 DEF CallSucceeds, CallFails
  <2> QED
    BY <1>7, <2>3, <2>7, <2>8 DEF Call
<1>8. ASSUME NEW i \in Replicas, NothingToDo(i) PROVE ReconcilerTypeOK' /\ ReplicaTypeOK'
  <2>1. Following(i, syncPass[i]) \in PassRecord
    BY FollowingTyped
  <2> QED
    BY <1>8, <2>1 DEF NothingToDo
<1>9. ASSUME NEW i \in Replicas, Store(i) PROVE ReconcilerTypeOK' /\ ReplicaTypeOK'
  <2>1. {KeptRoutes(syncPass[i].want)} \in SUBSET SUBSET Paths
    BY PathsOfState
  <2>2. /\ [syncPass[i] EXCEPT !.at = "ready"] \in PassRecord
        /\ [syncPass[i] EXCEPT !.at = "load", !.quota = quotas.rev] \in PassRecord
    <3>1. syncPass[i] \in PassRecord /\ quotas.rev \in QuotaBodies
      BY DEF QuotaBodies
    <3> QED
      BY <3>1, PassUpdates
  <2> QED
    BY <1>9, <2>1, <2>2 DEF Store, StoreApplied
<1>10. ASSUME NEW i \in Replicas, Acquire(i) PROVE ReconcilerTypeOK' /\ ReplicaTypeOK'
  BY <1>10 DEF Acquire
<1>11. ASSUME NEW i \in Replicas, NEW s \in {"lost", "stopping"}, Cancel(i, s)
       PROVE  /\ st' \in [Replicas -> {"follower", "leader", "lost", "stopping", "down"}]
              /\ syncPass' \in [Replicas -> PassRecord]
              /\ late' \in [Replicas -> SUBSET CallRecord]
              /\ broken' \in BOOLEAN
              /\ UNCHANGED <<memory, file, strayed>>
  <2>1. Calls(i) \subseteq CallRecord
    BY CallsTyped
  <2>2. NoPass \in PassRecord
    BY DEF NoPass, PassRecord, RouteBodies, QuotaBodies
  <2> QED
    BY <1>11, <2>1, <2>2 DEF Cancel
<1>12. ASSUME NEW i \in Replicas, Lose(i) PROVE ReconcilerTypeOK' /\ ReplicaTypeOK'
  BY <1>11, <1>12 DEF Lose
<1>13. ASSUME NEW i \in Replicas, Shutdown(i) PROVE ReconcilerTypeOK' /\ ReplicaTypeOK'
  BY <1>11, <1>13 DEF Shutdown
<1>14. ASSUME NEW i \in Replicas, ReleaseRead(i) PROVE ReconcilerTypeOK' /\ ReplicaTypeOK'
  BY <1>14 DEF ReleaseRead
<1>15. ASSUME NEW i \in Replicas, ReleaseWrite(i) PROVE ReconcilerTypeOK' /\ ReplicaTypeOK'
  BY <1>15 DEF ReleaseWrite
<1>16. ASSUME NEW i \in Replicas, Exit(i) PROVE ReconcilerTypeOK' /\ ReplicaTypeOK'
  BY <1>16 DEF Exit
<1>17. ASSUME NEW i \in Replicas, Start(i) PROVE ReconcilerTypeOK' /\ ReplicaTypeOK'
  <2>1. broken' \in BOOLEAN /\ file' \in [Replicas -> SUBSET SUBSET Paths]
    BY <1>17 DEF Start
  <2>2. st' = [st EXCEPT ![i] = "follower"] /\ memory' = [memory EXCEPT ![i] = {}]
    BY <1>17 DEF Start
  <2>3. UNCHANGED <<controlVars, cluster, pluginRevision, lease, seen, syncPass, late, strayed, writes>>
    BY <1>17 DEF Start
  <2> QED
    BY <2>1, <2>2, <2>3
<1>18. ASSUME NEW i \in Replicas, LateCall(i) PROVE ReconcilerTypeOK' /\ ReplicaTypeOK'
  <2>1. PICK c \in late[i] :
          /\ late' = [late EXCEPT ![i] = {}]
          /\ \/ Land(c) /\ strayed' = TRUE
             \/ UNCHANGED <<cluster, status, pluginRevision, quotas, strayed>>
          /\ UNCHANGED <<desired, leaderVars, syncPass, memory, file, broken, writes>>
    BY <1>18 DEF LateCall
  <2>2. c \in CallRecord
    OBVIOUS
  <2>3. CASE Land(c) /\ strayed' = TRUE
    BY <2>1, <2>2, <2>3, LandTyped
  <2>4. CASE UNCHANGED <<cluster, status, pluginRevision, quotas, strayed>>
    BY <2>1, <2>4
  <2> QED
    BY <2>1, <2>3, <2>4
<1>19. ASSUME UNCHANGED reconcilerVars PROVE ReconcilerTypeOK' /\ ReplicaTypeOK'
  BY <1>19 DEF reconcilerVars
<1> QED
  BY <1>1, <1>2, <1>3, <1>4, <1>5, <1>6, <1>7, <1>8, <1>9, <1>10, <1>12, <1>13, <1>14,
     <1>15, <1>16, <1>17, <1>18, <1>19 DEF ReconcilerNext
-----------------------------------------------------------------------------
(* The Lease. *)

\* Whoever works holds the Lease, a stale release changes nothing and nobody
\* but the leader has a pass under way.
LEMMA LeaseStep ==
    ASSUME ReplicaTypeOK, LeaderHolds, ReleaseIsOwn, OthersIdle,
           [ReconcilerNext]_reconcilerVars
    PROVE  LeaderHolds' /\ ReleaseIsOwn' /\ OthersIdle'
<1> DEFINE Goal == LeaderHolds' /\ ReleaseIsOwn' /\ OthersIdle'
           Quiet == /\ UNCHANGED leaderVars
                    /\ \A j \in Replicas : st[j] # "leader" => syncPass'[j] = syncPass[j]
<1>1. Quiet => Goal
  BY DEF LeaderHolds, ReleaseIsOwn, OthersIdle, leaderVars
<1>2. /\ syncPass = [j \in Replicas |-> syncPass[j]]
      /\ st = [j \in Replicas |-> st[j]] /\ seen = [j \in Replicas |-> seen[j]]
      /\ \A j \in Replicas : seen[j] \in Nat
      /\ lease = [holder |-> lease.holder, version |-> lease.version]
      /\ lease.version \in Nat
  BY DEF ReplicaTypeOK
<1>3. ASSUME NEW d \in RouteSets, PutDesired(d) PROVE Quiet
  BY <1>3 DEF PutDesired, passVars
<1>4. ASSUME PutPending PROVE Quiet
  BY <1>4 DEF PutPending, passVars
<1>5. ASSUME NEW r \in Revisions, PublishLimits(r) PROVE Quiet
  BY <1>5 DEF PublishLimits, passVars
<1>6. ASSUME NEW i \in Replicas, Fetch(i) PROVE Quiet
  BY <1>2, <1>6 DEF Fetch
<1>7. ASSUME NEW i \in Replicas, FetchNothing(i) PROVE Quiet
  BY <1>7 DEF FetchNothing, passVars
<1>8. ASSUME NEW i \in Replicas, Unavailable(i) PROVE Quiet
  BY <1>2, <1>8 DEF Unavailable
<1>9. ASSUME NEW i \in Replicas, Call(i) PROVE Quiet
  <2>1. /\ st[i] = "leader" /\ UNCHANGED leaderVars
        /\ \E v : syncPass' = [syncPass EXCEPT ![i] = v]
    BY <1>9 DEF Call, CallSucceeds, CallFails
  <2> QED
    BY <1>2, <2>1
<1>10. ASSUME NEW i \in Replicas, NothingToDo(i) PROVE Quiet
  BY <1>2, <1>10 DEF NothingToDo
<1>11. ASSUME NEW i \in Replicas, Store(i) PROVE Quiet
  BY <1>2, <1>11 DEF Store
<1>12. ASSUME NEW i \in Replicas, LateCall(i) PROVE Quiet
  BY <1>12 DEF LateCall
<1>13. ASSUME NEW i \in Replicas, Acquire(i) PROVE Goal
  <2>1. /\ lease' = [holder |-> i, version |-> lease.version + 1]
        /\ st' = [st EXCEPT ![i] = "leader"] /\ UNCHANGED <<seen, syncPass>>
        /\ \A j \in Replicas \ {i} : lease.holder = j => st[j] # "leader"
    BY <1>13 DEF Acquire
  <2>2. LeaderHolds'
    BY <1>2, <2>1 DEF LeaderHolds
  <2>3. ReleaseIsOwn'
    <3> SUFFICES ASSUME NEW j \in Replicas
                 PROVE  seen[j] <= lease.version + 1 /\ seen[j] # lease.version + 1
      BY <2>1 DEF ReleaseIsOwn
    <3> QED
      BY <1>2 DEF ReleaseIsOwn
  <2>4. OthersIdle'
    BY <1>2, <2>1 DEF OthersIdle
  <2> QED
    BY <2>2, <2>3, <2>4
<1>14. ASSUME NEW i \in Replicas, NEW s \in {"lost", "stopping"}, Cancel(i, s),
              lease' = lease, \A j \in Replicas : seen'[j] = IF j = i /\ s = "stopping" THEN 0 ELSE seen[j]
       PROVE  Goal
  <2>1. /\ st' = [st EXCEPT ![i] = s] /\ syncPass' = [syncPass EXCEPT ![i] = NoPass]
    BY <1>14 DEF Cancel
  <2>2. LeaderHolds' /\ OthersIdle'
    BY <1>2, <1>14, <2>1 DEF LeaderHolds, OthersIdle
  <2>3. ReleaseIsOwn'
    <3> SUFFICES ASSUME NEW j \in Replicas
                 PROVE  /\ seen'[j] <= lease.version
                        /\ st'[j] = "stopping" /\ seen'[j] # 0 /\ seen'[j] = lease.version
                              => lease.holder = j
      BY <1>14 DEF ReleaseIsOwn
    <3>1. CASE j = i /\ s = "lost"
      BY <1>2, <1>14, <2>1, <3>1 DEF ReleaseIsOwn
    <3>2. CASE j = i /\ s = "stopping"
      BY <1>2, <1>14, <2>1, <3>2 DEF ReleaseIsOwn
    <3>3. CASE j # i
      <4>1. seen'[j] = seen[j] /\ st'[j] = st[j]
        BY <1>2, <1>14, <2>1, <3>3
      <4> QED
        BY <4>1 DEF ReleaseIsOwn
    <3> QED
      BY <1>14, <3>1, <3>2, <3>3
  <2> QED
    BY <2>2, <2>3
<1>15. ASSUME NEW i \in Replicas, Lose(i) PROVE Goal
  <2>1. /\ Cancel(i, "lost") /\ lease' = lease
        /\ \A j \in Replicas : seen'[j] = IF j = i /\ "lost" = "stopping" THEN 0 ELSE seen[j]
    BY <1>15 DEF Lose
  <2> HIDE DEF Goal
  <2> QED
    BY <1>14, <2>1
<1>16. ASSUME NEW i \in Replicas, Shutdown(i) PROVE Goal
  <2>1. /\ Cancel(i, "stopping") /\ lease' = lease
        /\ \A j \in Replicas : seen'[j] = IF j = i /\ "stopping" = "stopping" THEN 0 ELSE seen[j]
    BY <1>2, <1>16 DEF Shutdown
  <2> HIDE DEF Goal
  <2> QED
    BY <1>14, <2>1
<1>17. ASSUME NEW i \in Replicas, ReleaseRead(i) PROVE Goal
  <2>1. UNCHANGED <<lease, syncPass>>
    BY <1>17 DEF ReleaseRead, passVars
  <2>2. CASE lease.holder = i /\ seen' = [seen EXCEPT ![i] = lease.version] /\ st' = st
    BY <1>2, <2>1, <2>2 DEF LeaderHolds, ReleaseIsOwn, OthersIdle
  <2>3. CASE st[i] = "stopping" /\ st' = [st EXCEPT ![i] = "down"] /\ seen' = seen
    BY <1>2, <2>1, <2>3 DEF LeaderHolds, ReleaseIsOwn, OthersIdle
  <2> QED
    BY <1>17, <2>2, <2>3 DEF ReleaseRead, StillNamed
<1>18. ASSUME NEW i \in Replicas, ReleaseWrite(i) PROVE Goal
  <2>1. /\ st[i] = "stopping" /\ seen[i] # 0 /\ st' = [st EXCEPT ![i] = "down"]
        /\ seen' = [seen EXCEPT ![i] = 0] /\ UNCHANGED syncPass
    BY <1>18 DEF ReleaseWrite, passVars
  <2>2. OthersIdle'
    BY <1>2, <2>1 DEF OthersIdle
  <2>3. CASE lease.version # seen[i] /\ lease' = lease
    BY <1>2, <2>1, <2>2, <2>3 DEF LeaderHolds, ReleaseIsOwn
  <2>4. CASE lease.version = seen[i] /\ lease' = [lease EXCEPT !.holder = Unset]
    <3>1. lease.holder = i
      BY <2>1, <2>4 DEF ReleaseIsOwn
    <3>2. lease'.version = lease.version
      BY <1>2, <2>4
    <3>3. LeaderHolds'
      BY <1>2, <2>1, <3>1 DEF LeaderHolds
    <3>4. ReleaseIsOwn'
      BY <1>2, <2>1, <3>1, <3>2 DEF ReleaseIsOwn
    <3> QED
      BY <2>2, <3>3, <3>4
  <2> QED
    BY <1>18, <2>3, <2>4 DEF ReleaseWrite
<1>19. ASSUME NEW i \in Replicas, Exit(i) PROVE Goal
  BY <1>2, <1>19 DEF Exit, passVars, LeaderHolds, ReleaseIsOwn, OthersIdle
<1>20. ASSUME NEW i \in Replicas, Start(i) PROVE Goal
  BY <1>2, <1>20 DEF Start, LeaderHolds, ReleaseIsOwn, OthersIdle
<1>21. ASSUME UNCHANGED reconcilerVars PROVE Quiet
  BY <1>21 DEF reconcilerVars, leaderVars
<1> HIDE DEF Goal, Quiet
<1>22. Goal
  BY <1>1, <1>3, <1>4, <1>5, <1>6, <1>7, <1>8, <1>9, <1>10, <1>11, <1>12, <1>13, <1>15,
     <1>16, <1>17, <1>18, <1>19, <1>20, <1>21 DEF ReconcilerNext
<1> QED
  BY <1>22 DEF Goal
-----------------------------------------------------------------------------
(* The phases of a pass, field by field. *)

\* What a call of the pass does where it is received.
LEMMA CallOf ==
    ASSUME ReplicaTypeOK, NEW i \in Replicas, NEW c \in Calls(i), Land(c)
    PROVE  LET w == syncPass[i] IN
           /\ w.at = "applying" => /\ status' = [state |-> "applying", hash |-> w.want]
                                   /\ UNCHANGED <<cluster, pluginRevision, quotas>>
           /\ w.at \in {"delete", "prune"} =>
                 /\ c.path \in w.left /\ cluster' = [cluster EXCEPT ![c.path] = Unset]
                 /\ UNCHANGED <<status, pluginRevision, quotas>>
           /\ w.at = "apply" =>
                 /\ c.path \in w.left /\ cluster' = [cluster EXCEPT ![c.path] = w.want]
                 /\ UNCHANGED <<status, pluginRevision, quotas>>
           /\ w.at = "legacy" => /\ cluster' = [cluster EXCEPT ![Legacy] = Unset]
                                 /\ UNCHANGED <<status, pluginRevision, quotas>>
           /\ w.at = "load" => /\ pluginRevision' = w.quota
                               /\ UNCHANGED <<status, cluster, quotas>>
           /\ w.at = "ack" => /\ quotas' = AcknowledgeLimits(Ack(w.quota, "applied"))
                              /\ UNCHANGED <<status, cluster, pluginRevision>>
           /\ w.at = "nack" => /\ quotas' = AcknowledgeLimits(Ack(w.quota, "error"))
                               /\ UNCHANGED <<status, cluster, pluginRevision>>
           /\ w.at = "ready" => /\ status' = [state |-> "ready", hash |-> w.want]
                                /\ UNCHANGED <<cluster, pluginRevision, quotas>>
           /\ w.at = "failure" => /\ status' = [state |-> "error", hash |-> Unset]
                                  /\ UNCHANGED <<cluster, pluginRevision, quotas>>
           /\ w.at \notin {"idle", "store"}
<1> DEFINE w == syncPass[i]
<1>1. w \in PassRecord
  BY DEF ReplicaTypeOK
<1>2. ASSUME NEW p \in Paths, NEW d, c = PutObject(p, d)
      PROVE  /\ c.path = p /\ cluster' = [cluster EXCEPT ![p] = d]
             /\ UNCHANGED <<status, pluginRevision, quotas>>
  BY <1>2 DEF PutObject, Land
<1>3. ASSUME NEW p \in Paths, c = Delete(p)
      PROVE  /\ c.path = p /\ cluster' = [cluster EXCEPT ![p] = Unset]
             /\ UNCHANGED <<status, pluginRevision, quotas>>
  BY <1>3 DEF Delete, Land
<1>4. ASSUME NEW s, NEW h, c = Say(s, h)
      PROVE  status' = [state |-> s, hash |-> h] /\ UNCHANGED <<cluster, pluginRevision, quotas>>
  BY <1>4 DEF Say, Land
<1>5. ASSUME NEW r, c = LoadCall(r)
      PROVE  pluginRevision' = r /\ UNCHANGED <<status, cluster, quotas>>
  BY <1>5 DEF LoadCall, Land
<1>6. ASSUME NEW r, NEW s, c = Ack(r, s)
      PROVE  quotas' = AcknowledgeLimits(Ack(r, s)) /\ UNCHANGED <<status, cluster, pluginRevision>>
  BY <1>6 DEF Ack, Land
<1>7. \A p \in First(w.left) : p \in w.left /\ p \in Paths
  BY <1>1, FirstOfList DEF PassRecord
<1>8. Legacy \in Paths
  BY PathsOfState
<1> HIDE DEF w
<1>9. CASE w.at = "applying"
  <2>1. c = Say("applying", w.want)
    BY <1>9 DEF Calls, w
  <2> QED
    BY <1>4, <1>9, <2>1 DEF w
<1>10. CASE w.at \in {"delete", "prune"}
  <2>1. PICK p \in First(w.left) : c = Delete(p)
    BY <1>10 DEF Calls, w
  <2> QED
    BY <1>3, <1>7, <1>10, <2>1 DEF w
<1>11. CASE w.at = "apply"
  <2>1. PICK p \in First(w.left) : c = PutObject(p, w.want)
    BY <1>11 DEF Calls, w
  <2> QED
    BY <1>2, <1>7, <1>11, <2>1 DEF w
<1>12. CASE w.at = "legacy"
  <2>1. c = Delete(Legacy)
    BY <1>12 DEF Calls, w
  <2> QED
    BY <1>3, <1>8, <1>12, <2>1 DEF w
<1>13. CASE w.at = "load"
  <2>1. c = LoadCall(w.quota)
    BY <1>13 DEF Calls, w
  <2> QED
    BY <1>5, <1>13, <2>1 DEF w
<1>14. CASE w.at = "ack"
  <2>1. c = Ack(w.quota, "applied")
    BY <1>14 DEF Calls, w
  <2> QED
    BY <1>6, <1>14, <2>1 DEF w
<1>15. CASE w.at = "nack"
  <2>1. c = Ack(w.quota, "error")
    BY <1>15 DEF Calls, w
  <2> QED
    BY <1>6, <1>15, <2>1 DEF w
<1>16. CASE w.at = "ready"
  <2>1. c = Say("ready", w.want)
    BY <1>16 DEF Calls, w
  <2> QED
    BY <1>4, <1>16, <2>1 DEF w
<1>17. CASE w.at = "failure"
  <2>1. c = Say("error", Unset)
    BY <1>17 DEF Calls, w
  <2> QED
    BY <1>4, <1>17, <2>1 DEF w
<1>18. w.at \notin {"idle", "store"}
  BY DEF Calls, w
<1> QED
  BY <1>1, <1>9, <1>10, <1>11, <1>12, <1>13, <1>14, <1>15, <1>16, <1>17, <1>18 DEF w, PassRecord

\* The next phase, field by field.
LEMMA FollowingFields ==
    ASSUME NEW i, NEW w \in PassRecord
    PROVE  LET f == Following(i, w) IN
           /\ w.at = "applying" => f.at = "delete" /\ f.left = Deletions(w.want)
           /\ w.at = "delete" => f.at = "apply" /\ f.left = Rendered(w.want)
           /\ w.at = "apply" => f.at = "legacy" /\ f.left = w.left
           /\ w.at = "legacy" => f.at = "prune" /\ f.left = Departed(i, w.want)
           /\ w.at = "prune" => f.at = "store" /\ f.left = w.left
           /\ w.at = "load" => f.at = "ack" /\ f.left = w.left
           /\ w.at = "ack" => f.at = "ready" /\ f.left = w.left
           /\ w.at = "nack" => f.at = "failure" /\ f.left = w.left
           /\ w.at \in {"idle", "store", "ready", "failure"} => f = NoPass
           /\ w.at \notin {"idle", "store", "ready", "failure"} => f.want = w.want /\ f.quota = w.quota
<1>1. CASE w.at = "applying"
  BY <1>1 DEF Following, PassRecord
<1>2. CASE w.at = "delete"
  BY <1>2 DEF Following, PassRecord
<1>3. CASE w.at = "apply"
  BY <1>3 DEF Following, PassRecord
<1>4. CASE w.at = "legacy"
  BY <1>4 DEF Following, PassRecord
<1>5. CASE w.at = "prune"
  BY <1>5 DEF Following, PassRecord
<1>6. CASE w.at = "load"
  BY <1>6 DEF Following, PassRecord
<1>7. CASE w.at = "ack"
  BY <1>7 DEF Following, PassRecord
<1>8. CASE w.at = "nack"
  BY <1>8 DEF Following, PassRecord
<1>9. CASE w.at \in {"idle", "store", "ready", "failure"}
  BY <1>9 DEF Following, PassRecord
<1> QED
  BY <1>1, <1>2, <1>3, <1>4, <1>5, <1>6, <1>7, <1>8, <1>9 DEF PassRecord

\* An error, field by field.
LEMMA ErrorFields ==
    ASSUME NEW w \in PassRecord
    PROVE  LET e == AfterError(w) IN
           /\ w.at = "load" => e.at = "nack" /\ e.left = w.left /\ e.quota = w.quota /\ e.want = w.want
           /\ w.at # "load" => e.at \in {"idle", "failure"} /\ e.left = {}
<1>1. CASE w.at = "load"
  BY <1>1 DEF AfterError, PassRecord
<1>2. CASE w.at \in {"applying", "ready", "failure"}
  BY <1>2 DEF AfterError, PassRecord, NoPass
<1>3. CASE w.at \notin {"load", "applying", "ready", "failure"}
  BY <1>3 DEF AfterError, PassRecord
<1> QED
  BY <1>1, <1>2, <1>3

-----------------------------------------------------------------------------
(* What a ready status says of the cluster. *)

\* At most one replica works.
LEMMA LeaderUnique ==
    ASSUME LeaderHolds, NEW i \in Replicas, NEW j \in Replicas, st[i] = "leader", st[j] = "leader"
    PROVE  i = j
  BY DEF LeaderHolds

\* A call that succeeds keeps what the pass knows of the cluster.
LEMMA LoadAdvances ==
    ASSUME ReconcilerTypeOK, ReplicaTypeOK, NEW i \in Replicas, NEW c \in Calls(i), PassLoads(i), Land(c),
           syncPass' = [syncPass EXCEPT ![i] = Advanced(i, c, @)]
    PROVE  PassLoads(i)'
<1> DEFINE w == syncPass[i]
           a == Advanced(i, c, w)
           e == [w EXCEPT !.left = {}]
<1>1. w \in PassRecord /\ syncPass'[i] = a
  BY DEF ReplicaTypeOK
<1>2. /\ e \in PassRecord /\ e.left = {} /\ e.at = w.at /\ e.want = w.want /\ e.quota = w.quota
  BY <1>1 DEF PassRecord
<1>3. cluster \in [Paths -> RouteSets \cup {Unset, "old"}]
  BY DEF ReconcilerTypeOK
<1>4. /\ Rendered(w.want) \subseteq Paths /\ Deletions(w.want) \subseteq Paths
      /\ Rendered(w.want) \cap Deletions(w.want) = {} /\ KeptRoutes(w.want) = Rendered(w.want)
      /\ Legacy \notin Rendered(w.want) \cup Deletions(w.want) /\ Legacy \in Paths
  BY PathsOfState
<1>5. w.left \subseteq Paths
  BY <1>1 DEF PassRecord
<1>6. CASE w.at \in {"delete", "apply", "prune"} /\ w.left \ {c.path} # {}
  <2>1. /\ a.at = w.at /\ a.want = w.want /\ a.left = w.left \ {c.path}
    <3>1. a = [w EXCEPT !.left = w.left \ {c.path}]
      BY <1>6 DEF Advanced
    <3> HIDE DEF w, a
    <3> QED
      BY <1>1, <3>1 DEF PassRecord
  <2>2. c.path \in w.left /\ status' = status
    BY <1>6, CallOf
  <2>3. /\ w.at \in {"delete", "prune"} => cluster' = [cluster EXCEPT ![c.path] = Unset]
        /\ w.at = "apply" => cluster' = [cluster EXCEPT ![c.path] = w.want]
    BY <1>6, CallOf
  <2> HIDE DEF w, a
  <2>4. CASE w.at = "delete"
    BY <1>1, <1>3, <1>4, <1>5, <2>1, <2>2, <2>3, <2>4 DEF PassLoads, w, Working, Cleared, Applied, Bare, Lists
  <2>5. CASE w.at = "apply"
    BY <1>1, <1>3, <1>4, <1>5, <2>1, <2>2, <2>3, <2>5 DEF PassLoads, w, Working, Cleared, Applied, Bare, Lists
  <2>6. CASE w.at = "prune"
    BY <1>1, <1>3, <1>4, <1>5, <2>1, <2>2, <2>3, <2>6 DEF PassLoads, w, Working, Cleared, Applied, Bare, Lists
  <2> QED
    BY <1>6, <2>4, <2>5, <2>6
<1>7. CASE w.left \ {c.path} = {}
  <2>1. a = Following(i, e)
    BY <1>7 DEF Advanced
  <2>2. /\ w.at = "applying" => a.at = "delete" /\ a.left = Deletions(w.want)
        /\ w.at = "delete" => a.at = "apply" /\ a.left = Rendered(w.want)
        /\ w.at = "apply" => a.at = "legacy" /\ a.left = {}
        /\ w.at = "legacy" => a.at = "prune" /\ a.left = Departed(i, w.want)
        /\ w.at = "prune" => a.at = "store" /\ a.left = {}
        /\ w.at = "load" => a.at = "ack" /\ a.left = {}
        /\ w.at = "ack" => a.at = "ready" /\ a.left = {}
        /\ w.at = "nack" => a.at = "failure" /\ a.left = {}
        /\ w.at \in {"idle", "store", "ready", "failure"} => a.at = "idle" /\ a.left = {}
        /\ w.at \notin {"idle", "store", "ready", "failure"} => a.want = w.want
    <3> HIDE DEF e
    <3> QED
      BY <1>2, <2>1, FollowingFields DEF NoPass
  <2>3. Departed(i, w.want) \cap KeptRoutes(w.want) = {}
    BY DEF Departed
  <2> USE DEF PassLoads, Working, Cleared, Applied, Bare, Lists
  <2>4. CASE w.at = "applying"
    <3>1. status'.state = "applying" /\ cluster' = cluster
      BY <2>4, CallOf
    <3> QED
      BY <1>1, <2>2, <2>4, <3>1
  <2>5. CASE w.at = "delete"
    <3>1. c.path \in w.left /\ status' = status /\ cluster' = [cluster EXCEPT ![c.path] = Unset]
      BY <2>5, CallOf
    <3> HIDE DEF w, a
    <3> QED
      BY <1>1, <1>3, <1>4, <1>5, <1>7, <2>2, <2>5, <3>1 DEF w
  <2>6. CASE w.at = "apply"
    <3>1. c.path \in w.left /\ status' = status /\ cluster' = [cluster EXCEPT ![c.path] = w.want]
      BY <2>6, CallOf
    <3> HIDE DEF w, a
    <3> QED
      BY <1>1, <1>3, <1>4, <1>5, <1>7, <2>2, <2>6, <3>1 DEF w
  <2>7. CASE w.at = "legacy"
    <3>1. status' = status /\ cluster' = [cluster EXCEPT ![Legacy] = Unset]
      BY <2>7, CallOf
    <3> HIDE DEF w, a
    <3> QED
      BY <1>1, <1>3, <1>4, <1>7, <2>2, <2>3, <2>7, <3>1 DEF w
  <2>8. CASE w.at = "prune"
    <3>1. c.path \in w.left /\ status' = status /\ cluster' = [cluster EXCEPT ![c.path] = Unset]
      BY <2>8, CallOf
    <3> HIDE DEF w, a
    <3> QED
      BY <1>1, <1>3, <1>4, <1>5, <1>7, <2>2, <2>8, <3>1 DEF w
  <2>9. CASE w.at \in {"load", "ack", "nack"}
    <3>1. status' = status /\ cluster' = cluster
      BY <2>9, CallOf
    <3> HIDE DEF w, a
    <3> QED
      BY <1>1, <2>2, <2>9, <3>1 DEF w
  <2>10. CASE w.at \in {"idle", "store", "ready", "failure"}
    BY <1>1, <2>2, <2>10
  <2> QED
    BY <1>1, <2>4, <2>5, <2>6, <2>7, <2>8, <2>9, <2>10 DEF PassRecord
<1>8. w.at \notin Lists => w.left = {}
  BY DEF PassLoads
<1> QED
  BY <1>6, <1>7, <1>8 DEF Lists

\* So does a call that fails.
LEMMA LoadFails ==
    ASSUME ReplicaTypeOK, NEW i \in Replicas, NEW c \in Calls(i), PassLoads(i),
           Land(c) \/ UNCHANGED <<cluster, status, pluginRevision, quotas>>,
           syncPass' = [syncPass EXCEPT ![i] = AfterError(@)]
    PROVE  PassLoads(i)'
<1> DEFINE w == syncPass[i]
           e == AfterError(w)
<1>1. w \in PassRecord /\ syncPass'[i] = e
  BY DEF ReplicaTypeOK
<1>2. /\ w.at = "load" => e.at = "nack" /\ e.left = w.left
      /\ w.at # "load" => e.at \in {"idle", "failure"} /\ e.left = {}
  BY <1>1, ErrorFields
<1>3. w.at = "load" => status' = status
  BY CallOf
<1> HIDE DEF w, e
<1> QED
  BY <1>1, <1>2, <1>3 DEF PassLoads, w, Working, Cleared, Applied, Bare, Lists

\* A call keeps what a ready status says.
LEMMA ReadyAfterCall ==
    ASSUME ReplicaTypeOK, NEW i \in Replicas, NEW c \in Calls(i), PassLoads(i), Land(c),
           ~strayed, strayed' = strayed, ReadyIsLoaded
    PROVE  ReadyIsLoaded'
<1> DEFINE w == syncPass[i]
<1>1. w \in PassRecord
  BY DEF ReplicaTypeOK
<1>2. CASE w.at \in {"applying", "failure"}
  <2>1. status'.state # "ready"
    BY <1>2, CallOf
  <2> QED
    BY <2>1 DEF ReadyIsLoaded
<1>3. CASE w.at \in {"delete", "prune", "apply", "legacy", "load", "ack", "nack"}
  <2>1. status' = status
    BY <1>3, CallOf
  <2>2. status.state # "ready"
    BY <1>3 DEF PassLoads, Working, Cleared
  <2> QED
    BY <2>1, <2>2 DEF ReadyIsLoaded
<1>4. CASE w.at = "ready"
  <2>1. status'.hash = w.want /\ cluster' = cluster
    BY <1>4, CallOf
  <2>2. /\ \A p \in Deletions(w.want) \cup {Legacy} : cluster[p] = Unset
        /\ \A p \in Rendered(w.want) : cluster[p] = w.want
    BY <1>4 DEF PassLoads, Cleared, Applied, Bare
  <2> HIDE DEF w
  <2> QED
    BY <2>1, <2>2 DEF ReadyIsLoaded
<1>5. w.at \notin {"idle", "store"}
  BY CallOf
<1> QED
  BY <1>1, <1>2, <1>3, <1>4, <1>5 DEF PassRecord
\* Every step keeps what passes and a ready status say of the cluster.
LEMMA LoadStep ==
    ASSUME ReconcilerTypeOK, ReplicaTypeOK, LeaderHolds, OthersIdle, PassesLoad, ReadyIsLoaded,
           [ReconcilerNext]_reconcilerVars
    PROVE  PassesLoad' /\ ReadyIsLoaded'
<1> DEFINE Goal == PassesLoad' /\ ReadyIsLoaded'
           Rest == /\ UNCHANGED <<cluster, strayed>> /\ (status'.state = "ready" => status' = status)
                   /\ \A j \in Replicas : st'[j] = "leader" =>
                         \/ st[j] = "leader" /\ syncPass'[j] = syncPass[j]
                         \/ syncPass'[j] = NoPass
           Own(i) == /\ st[i] = "leader" /\ UNCHANGED <<st, strayed>>
                     /\ ~strayed => PassLoads(i)' /\ ReadyIsLoaded'
<1>1. Rest => Goal
  <2> SUFFICES ASSUME Rest PROVE Goal
    OBVIOUS
  <2>1. ReadyIsLoaded'
    BY DEF ReadyIsLoaded
  <2>2. ASSUME NEW j \in Replicas, ~strayed, st'[j] = "leader" PROVE PassLoads(j)'
    <3>1. CASE syncPass'[j] = NoPass
      BY <3>1 DEF PassLoads, NoPass, Working, Cleared, Applied, Bare, Lists
    <3>2. CASE st[j] = "leader" /\ syncPass'[j] = syncPass[j]
      <4>1. PassLoads(j)
        BY <2>2, <3>2 DEF PassesLoad
      <4> QED
        BY <3>2, <4>1 DEF PassLoads
    <3> QED
      BY <2>2, <3>1, <3>2
  <2> QED
    BY <2>1, <2>2 DEF PassesLoad
<1>2. ASSUME NEW i \in Replicas, Own(i) PROVE Goal
  <2>1. \A j \in Replicas : st'[j] = "leader" => j = i
    BY <1>2, LeaderUnique
  <2> QED
    BY <1>2, <2>1 DEF PassesLoad, ReadyIsLoaded
<1>3. /\ syncPass = [j \in Replicas |-> syncPass[j]] /\ st = [j \in Replicas |-> st[j]]
      /\ \A j \in Replicas : syncPass[j] \in PassRecord
  BY DEF ReplicaTypeOK
<1>4. ASSUME NEW i \in Replicas, st[i] = "leader", ~strayed PROVE PassLoads(i)
  BY <1>4 DEF PassesLoad
<1>5. ASSUME NEW d \in RouteSets, PutDesired(d) PROVE Rest
  BY <1>5 DEF PutDesired, leaderVars, passVars
<1>6. ASSUME PutPending PROVE Rest
  <2>1. status'.state = "ready" => status' = status
    BY <1>6 DEF PutPending, ReconcilerTypeOK
  <2> QED
    BY <1>6, <2>1 DEF PutPending, leaderVars, passVars
<1>7. ASSUME NEW r \in Revisions, PublishLimits(r) PROVE Rest
  BY <1>7 DEF PublishLimits, leaderVars, passVars
<1>8. ASSUME NEW i \in Replicas, FetchNothing(i) PROVE Rest
  BY <1>8 DEF FetchNothing, leaderVars, passVars
<1>9. ASSUME NEW i \in Replicas, Acquire(i) PROVE Rest
  BY <1>3, <1>9 DEF Acquire, controlVars, OthersIdle
<1>10. ASSUME NEW i \in Replicas, NEW s \in {"lost", "stopping"}, Cancel(i, s), UNCHANGED <<controlVars, cluster>>
       PROVE  Rest
  BY <1>3, <1>10 DEF Cancel, controlVars
<1>11. ASSUME NEW i \in Replicas, Lose(i) PROVE Rest
  BY <1>10, <1>11 DEF Lose
<1>12. ASSUME NEW i \in Replicas, Shutdown(i) PROVE Rest
  BY <1>10, <1>12 DEF Shutdown
<1>13. ASSUME NEW i \in Replicas, ReleaseRead(i) PROVE Rest
  BY <1>3, <1>13 DEF ReleaseRead, controlVars, passVars
<1>14. ASSUME NEW i \in Replicas, ReleaseWrite(i) PROVE Rest
  BY <1>3, <1>14 DEF ReleaseWrite, controlVars, passVars
<1>15. ASSUME NEW i \in Replicas, Exit(i) PROVE Rest
  BY <1>3, <1>15 DEF Exit, controlVars, passVars
<1>16. ASSUME NEW i \in Replicas, Start(i) PROVE Rest
  BY <1>3, <1>16 DEF Start, controlVars
<1>17. ASSUME NEW i \in Replicas, LateCall(i) PROVE Goal
  <2>1. CASE strayed' = TRUE
    BY <2>1 DEF PassesLoad, ReadyIsLoaded
  <2>2. CASE UNCHANGED <<cluster, status, strayed>>
    <3>1. Rest
      BY <1>17, <2>2 DEF LateCall, leaderVars
    <3> QED
      BY <1>1, <3>1
  <2> QED
    BY <1>17, <2>1, <2>2 DEF LateCall
<1>18. ASSUME UNCHANGED reconcilerVars PROVE Rest
  BY <1>18 DEF reconcilerVars
<1>19. ASSUME NEW i \in Replicas, Fetch(i) PROVE Own(i)
  <2>1. syncPass'[i].at = "applying" /\ syncPass'[i].left = {}
    BY <1>3, <1>19 DEF Fetch, Announce, NoPass
  <2>2. /\ st[i] = "leader" /\ UNCHANGED <<st, strayed, status, cluster>>
    BY <1>19 DEF Fetch, controlVars, leaderVars
  <2> QED
    BY <2>1, <2>2 DEF PassLoads, ReadyIsLoaded, Working, Cleared, Applied, Bare, Lists
<1>20. ASSUME NEW i \in Replicas, Unavailable(i) PROVE Own(i)
  <2>1. syncPass'[i].at = "failure" /\ syncPass'[i].left = {}
    BY <1>3, <1>20 DEF Unavailable, PassRecord
  <2>2. /\ st[i] = "leader" /\ UNCHANGED <<st, strayed, status, cluster>>
    BY <1>20 DEF Unavailable, controlVars, leaderVars
  <2> QED
    BY <2>1, <2>2 DEF PassLoads, ReadyIsLoaded, Working, Cleared, Applied, Bare, Lists
<1>21. ASSUME NEW i \in Replicas, NothingToDo(i) PROVE Own(i)
  <2> DEFINE w == syncPass[i]
  <2>1. /\ st[i] = "leader" /\ UNCHANGED <<st, strayed, status, cluster>>
        /\ w.at \in {"delete", "prune"} /\ w.left = {} /\ syncPass'[i] = Following(i, w)
    BY <1>3, <1>21 DEF NothingToDo, controlVars, leaderVars
  <2>2. /\ w.at = "delete" => syncPass'[i].at = "apply" /\ syncPass'[i].left = Rendered(w.want)
        /\ w.at = "prune" => syncPass'[i].at = "store" /\ syncPass'[i].left = {}
        /\ syncPass'[i].want = w.want
    BY <1>3, <2>1, FollowingFields
  <2>3. ~strayed => PassLoads(i)
    BY <1>4, <2>1
  <2> HIDE DEF w
  <2> QED
    BY <2>1, <2>2, <2>3 DEF PassLoads, ReadyIsLoaded, Working, Cleared, Applied, Bare, Lists, w
<1>22. ASSUME NEW i \in Replicas, Store(i) PROVE Own(i)
  <2> DEFINE w == syncPass[i]
  <2>1. /\ st[i] = "leader" /\ UNCHANGED <<st, strayed, status, cluster>> /\ w.at = "store"
    BY <1>22 DEF Store, controlVars, leaderVars
  <2>2. syncPass'[i] \in {[w EXCEPT !.at = "ready"], [w EXCEPT !.at = "load", !.quota = quotas.rev]}
    BY <1>3, <1>22 DEF Store
  <2>3. syncPass'[i].at \in {"ready", "load"} /\ syncPass'[i].want = w.want /\ syncPass'[i].left = w.left
    BY <1>3, <2>2 DEF PassRecord
  <2>4. ~strayed => PassLoads(i)
    BY <1>4, <2>1
  <2> HIDE DEF w
  <2> QED
    BY <2>1, <2>3, <2>4 DEF PassLoads, ReadyIsLoaded, Working, Cleared, Applied, Bare, Lists, w
<1>23. ASSUME NEW i \in Replicas, Call(i) PROVE Own(i)
  <2>1. PICK c \in Calls(i) : CallSucceeds(i, c) \/ CallFails(i, c)
    BY <1>23 DEF Call
  <2>2. st[i] = "leader" /\ UNCHANGED <<st, strayed>>
    BY <1>23 DEF Call, leaderVars
  <2>3. ASSUME ~strayed PROVE PassLoads(i)' /\ ReadyIsLoaded'
    <3>1. PassLoads(i)
      BY <1>4, <2>2, <2>3
    <3>2. CASE CallSucceeds(i, c)
      BY <2>2, <2>3, <3>1, <3>2, LoadAdvances, ReadyAfterCall DEF CallSucceeds
    <3>3. CASE CallFails(i, c)
      <4>1. PassLoads(i)'
        BY <3>1, <3>3, LoadFails DEF CallFails
      <4>2. CASE Land(c)
        BY <2>2, <2>3, <3>1, <4>1, <4>2, ReadyAfterCall
      <4>3. CASE UNCHANGED <<cluster, status, pluginRevision, quotas>>
        BY <2>2, <4>1, <4>3 DEF ReadyIsLoaded
      <4> QED
        BY <3>3, <4>2, <4>3 DEF CallFails
    <3> QED
      BY <2>1, <3>2, <3>3
  <2> QED
    BY <2>2, <2>3
<1> HIDE DEF Goal, Rest, Own
<1>24. Goal
  BY <1>1, <1>2, <1>5, <1>6, <1>7, <1>8, <1>9, <1>11, <1>12, <1>13, <1>14, <1>15, <1>16, <1>17,
     <1>18, <1>19, <1>20, <1>21, <1>22, <1>23 DEF ReconcilerNext
<1> QED
  BY <1>24 DEF Goal
-----------------------------------------------------------------------------
(* What applied limits say of the plugins. *)

\* Every step keeps what passes and applied limits say of the plugins.
LEMMA LimitStep ==
    ASSUME ReconcilerTypeOK, ReplicaTypeOK, LeaderHolds, OthersIdle, PassesLimit, LimitsAreLoaded,
           [ReconcilerNext]_reconcilerVars
    PROVE  PassesLimit' /\ LimitsAreLoaded'
<1> DEFINE Goal == PassesLimit' /\ LimitsAreLoaded'
           Limiting == {"load", "ack", "nack"}
           Rest == /\ UNCHANGED <<pluginRevision, strayed>>
                   /\ quotas' = quotas \/ LimitState' # "applied"
                   /\ \A j \in Replicas : st'[j] = "leader" =>
                         \/ st[j] = "leader" /\ syncPass'[j] = syncPass[j]
                         \/ syncPass'[j].at \notin Limiting
           Own(i) == /\ st[i] = "leader" /\ UNCHANGED <<st, strayed>>
                     /\ ~strayed => PassLimits(i)' /\ LimitsAreLoaded'
<1>1. Rest => Goal
  <2> SUFFICES ASSUME Rest PROVE Goal
    OBVIOUS
  <2>1. LimitState' = "applied" => LimitState = "applied" /\ quotas' = quotas
    BY DEF LimitState
  <2>2. LimitsAreLoaded'
    BY <2>1 DEF LimitsAreLoaded
  <2>3. ASSUME NEW j \in Replicas, ~strayed, st'[j] = "leader" PROVE PassLimits(j)'
    <3>1. CASE syncPass'[j].at \notin Limiting
      BY <3>1 DEF PassLimits
    <3>2. CASE st[j] = "leader" /\ syncPass'[j] = syncPass[j]
      <4>1. PassLimits(j)
        BY <2>3, <3>2 DEF PassesLimit
      <4> QED
        BY <2>1, <3>2, <4>1 DEF PassLimits
    <3> QED
      BY <2>3, <3>1, <3>2
  <2> QED
    BY <2>2, <2>3 DEF PassesLimit
<1>2. ASSUME NEW i \in Replicas, Own(i) PROVE Goal
  <2>1. \A j \in Replicas : st'[j] = "leader" => j = i
    BY <1>2, LeaderUnique
  <2> QED
    BY <1>2, <2>1 DEF PassesLimit, LimitsAreLoaded
<1>3. /\ syncPass = [j \in Replicas |-> syncPass[j]] /\ st = [j \in Replicas |-> st[j]]
      /\ \A j \in Replicas : syncPass[j] \in PassRecord
  BY DEF ReplicaTypeOK
<1>4. ASSUME NEW i \in Replicas, st[i] = "leader", ~strayed PROVE PassLimits(i)
  BY <1>4 DEF PassesLimit
<1>5. ASSUME NEW d \in RouteSets, PutDesired(d) PROVE Rest
  BY <1>5 DEF PutDesired, leaderVars, passVars
<1>6. ASSUME PutPending PROVE Rest
  BY <1>6 DEF PutPending, leaderVars, passVars
<1>7. ASSUME NEW r \in Revisions, PublishLimits(r) PROVE Rest
  <2>1. quotas' = quotas \/ LimitState' # "applied"
    BY <1>7 DEF PublishLimits, LimitState, ReconcilerTypeOK
  <2> QED
    BY <1>7, <2>1 DEF PublishLimits, leaderVars, passVars
<1>8. ASSUME NEW i \in Replicas, FetchNothing(i) PROVE Rest
  BY <1>8 DEF FetchNothing, leaderVars, passVars
<1>9. ASSUME NEW i \in Replicas, Acquire(i) PROVE Rest
  <2>1. syncPass[i].at = "idle"
    BY <1>9 DEF Acquire, OthersIdle, NoPass
  <2> QED
    BY <1>3, <1>9, <2>1 DEF Acquire, controlVars
<1>10. ASSUME NEW i \in Replicas, NEW s \in {"lost", "stopping"}, Cancel(i, s),
              UNCHANGED <<controlVars, pluginRevision>>
       PROVE  Rest
  BY <1>3, <1>10 DEF Cancel, controlVars
<1>11. ASSUME NEW i \in Replicas, Lose(i) PROVE Rest
  BY <1>10, <1>11 DEF Lose
<1>12. ASSUME NEW i \in Replicas, Shutdown(i) PROVE Rest
  BY <1>10, <1>12 DEF Shutdown
<1>13. ASSUME NEW i \in Replicas, ReleaseRead(i) PROVE Rest
  BY <1>3, <1>13 DEF ReleaseRead, controlVars, passVars
<1>14. ASSUME NEW i \in Replicas, ReleaseWrite(i) PROVE Rest
  BY <1>3, <1>14 DEF ReleaseWrite, controlVars, passVars
<1>15. ASSUME NEW i \in Replicas, Exit(i) PROVE Rest
  BY <1>3, <1>15 DEF Exit, controlVars, passVars
<1>16. ASSUME NEW i \in Replicas, Start(i) PROVE Rest
  BY <1>3, <1>16 DEF Start, controlVars
<1>17. ASSUME NEW i \in Replicas, LateCall(i) PROVE Goal
  <2>1. CASE strayed' = TRUE
    BY <2>1 DEF PassesLimit, LimitsAreLoaded
  <2>2. CASE UNCHANGED <<pluginRevision, quotas, strayed>>
    <3>1. Rest
      BY <1>17, <2>2 DEF LateCall, leaderVars
    <3> QED
      BY <1>1, <3>1
  <2> QED
    BY <1>17, <2>1, <2>2 DEF LateCall
<1>18. ASSUME UNCHANGED reconcilerVars PROVE Rest
  BY <1>18 DEF reconcilerVars
<1>19. ASSUME NEW i \in Replicas, Fetch(i) PROVE Rest
  <2>1. syncPass'[i].at = "applying"
    BY <1>3, <1>19 DEF Fetch, Announce, NoPass
  <2> QED
    BY <1>3, <1>19, <2>1 DEF Fetch, controlVars, leaderVars
<1>20. ASSUME NEW i \in Replicas, Unavailable(i) PROVE Rest
  <2>1. syncPass'[i].at = "failure"
    BY <1>3, <1>20 DEF Unavailable, PassRecord
  <2> QED
    BY <1>3, <1>20, <2>1 DEF Unavailable, controlVars, leaderVars
<1>21. ASSUME NEW i \in Replicas, NothingToDo(i) PROVE Rest
  <2>1. syncPass'[i].at \in {"apply", "store"}
    BY <1>3, <1>21, FollowingFields DEF NothingToDo
  <2> QED
    BY <1>3, <1>21, <2>1 DEF NothingToDo, controlVars, leaderVars
<1>22. ASSUME NEW i \in Replicas, Store(i) PROVE Own(i)
  <2>1. /\ st[i] = "leader" /\ UNCHANGED <<st, strayed, quotas, pluginRevision>>
    BY <1>22 DEF Store, controlVars, leaderVars
  <2>2. CASE syncPass'[i] = [syncPass[i] EXCEPT !.at = "ready"]
    <3>1. syncPass'[i].at = "ready"
      BY <1>3, <2>2 DEF PassRecord
    <3> QED
      BY <2>1, <3>1 DEF PassLimits, LimitsAreLoaded, LimitState
  <2>3. CASE syncPass'[i] = [syncPass[i] EXCEPT !.at = "load", !.quota = quotas.rev]
    <3>1. syncPass'[i].at = "load" /\ syncPass'[i].quota = quotas.rev
      BY <1>3, <2>3 DEF PassRecord
    <3> QED
      BY <2>1, <3>1 DEF PassLimits, LimitsAreLoaded, LimitState
  <2> QED
    BY <1>3, <1>22, <2>2, <2>3 DEF Store
<1>23. ASSUME NEW i \in Replicas, Call(i) PROVE Own(i)
  <2> DEFINE w == syncPass[i]
             v == syncPass'[i]
  <2>1. PICK c \in Calls(i) : CallSucceeds(i, c) \/ CallFails(i, c)
    BY <1>23 DEF Call
  <2>2. st[i] = "leader" /\ UNCHANGED <<st, strayed>>
    BY <1>23 DEF Call, leaderVars
  <2>3. ASSUME ~strayed PROVE PassLimits(i)' /\ LimitsAreLoaded'
    <3>1. PassLimits(i) /\ (LimitState = "applied" => pluginRevision = quotas.rev)
      BY <1>4, <2>2, <2>3 DEF LimitsAreLoaded
    <3>2. Land(c) \/ UNCHANGED <<cluster, status, pluginRevision, quotas>>
      BY <2>1 DEF CallSucceeds, CallFails
    <3>3. /\ v.at \in Limiting => w.at \in Limiting /\ v.quota = w.quota
          /\ v.at = "ack" => w.at \in {"load", "ack"} /\ Land(c)
      <4>1. CASE CallFails(i, c)
        <5>1. v = AfterError(w)
          BY <1>3, <4>1 DEF CallFails
        <5> QED
          BY <1>3, <5>1, ErrorFields
      <4>2. CASE CallSucceeds(i, c)
        <5>1. v = Advanced(i, c, w) /\ Land(c)
          BY <1>3, <4>2 DEF CallSucceeds
        <5>2. CASE v = [w EXCEPT !.left = w.left \ {c.path}]
          BY <1>3, <5>1, <5>2 DEF PassRecord
        <5>3. CASE v = Following(i, [w EXCEPT !.left = {}])
          <6> DEFINE e == [w EXCEPT !.left = {}]
          <6>1. e \in PassRecord /\ e.at = w.at /\ e.quota = w.quota
            BY <1>3 DEF PassRecord
          <6> HIDE DEF e
          <6>2. v = Following(i, e)
            BY <5>3 DEF e
          <6>3. e.at \in {"idle", "applying", "delete", "apply", "legacy", "prune", "store",
                          "load", "ack", "nack", "ready", "failure"}
            BY <6>1 DEF PassRecord
          <6> HIDE DEF v
          <6>4. e.at \notin {"load", "ack", "nack"} => v.at \notin Limiting
            BY <6>1, <6>2, <6>3, FollowingFields DEF NoPass
          <6>5. /\ e.at = "load" => v.at = "ack" /\ v.quota = w.quota
                /\ e.at \in {"ack", "nack"} => v.at \notin Limiting
            BY <6>1, <6>2, FollowingFields
          <6> QED
            BY <5>1, <6>1, <6>4, <6>5
        <5> QED
          BY <5>1, <5>2, <5>3 DEF Advanced
      <4> QED
        BY <2>1, <4>1, <4>2
    <3> HIDE DEF v
    <3>4. CASE UNCHANGED <<cluster, status, pluginRevision, quotas>> /\ ~Land(c)
      BY <2>2, <3>1, <3>3, <3>4 DEF PassLimits, LimitsAreLoaded, LimitState, v
    <3>5. CASE Land(c) /\ w.at = "load"
      <4>1. pluginRevision' = w.quota /\ quotas' = quotas
        BY <3>5, CallOf
      <4> QED
        BY <2>2, <3>1, <3>3, <3>5, <4>1 DEF PassLimits, LimitsAreLoaded, LimitState, v
    <3>6. CASE Land(c) /\ w.at = "ack"
      <4>1. quotas' = AcknowledgeLimits(Ack(w.quota, "applied")) /\ pluginRevision' = pluginRevision
        BY <3>6, CallOf
      <4>2. pluginRevision = w.quota
        BY <3>1, <3>6 DEF PassLimits
      <4>3. CASE quotas.rev = w.quota
        <5>1. quotas' = [quotas EXCEPT !.state = "applied", !.observed = w.quota]
          BY <4>1, <4>3 DEF AcknowledgeLimits, Ack
        <5>2. quotas'.rev = quotas.rev
          BY <5>1 DEF ReconcilerTypeOK
        <5> QED
          BY <2>2, <3>3, <4>1, <4>2, <4>3, <5>2 DEF PassLimits, LimitsAreLoaded, v
      <4>4. CASE quotas.rev # w.quota
        <5>1. quotas' = quotas
          BY <4>1, <4>4 DEF AcknowledgeLimits, Ack
        <5> QED
          BY <2>2, <3>1, <3>3, <3>6, <4>1, <4>2, <5>1 DEF PassLimits, LimitsAreLoaded, LimitState, v
      <4> QED
        BY <4>3, <4>4
    <3>7. CASE Land(c) /\ w.at = "nack"
      <4>1. quotas' = AcknowledgeLimits(Ack(w.quota, "error")) /\ pluginRevision' = pluginRevision
        BY <3>7, CallOf
      <4>2. quotas' = quotas \/ LimitState' = "error"
        BY <4>1 DEF AcknowledgeLimits, Ack, ReconcilerTypeOK, LimitState
      <4> QED
        BY <2>2, <3>1, <3>3, <3>7, <4>1, <4>2 DEF PassLimits, LimitsAreLoaded, LimitState, v
    <3>8. CASE Land(c) /\ w.at \notin Limiting
      <4>1. UNCHANGED <<pluginRevision, quotas>>
        BY <1>3, <3>8, CallOf DEF PassRecord
      <4> QED
        BY <2>2, <3>1, <3>3, <3>8, <4>1 DEF PassLimits, LimitsAreLoaded, LimitState, v
    <3> QED
      BY <3>2, <3>4, <3>5, <3>6, <3>7, <3>8
  <2> QED
    BY <2>2, <2>3
<1> HIDE DEF Goal, Rest, Own
<1>24. Goal
  BY <1>1, <1>2, <1>5, <1>6, <1>7, <1>8, <1>9, <1>11, <1>12, <1>13, <1>14, <1>15, <1>16, <1>17,
     <1>18, <1>19, <1>20, <1>21, <1>22, <1>23 DEF ReconcilerNext
<1> QED
  BY <1>24 DEF Goal
-----------------------------------------------------------------------------
(* What the inventory accounts for. *)

\* What a write to one path does to the occupied paths.
LEMMA OccupiedAfter ==
    ASSUME ReconcilerTypeOK, NEW p \in Paths, NEW d, cluster' = [cluster EXCEPT ![p] = d]
    PROVE  /\ Occupied' \subseteq Occupied \cup {p}
           /\ d = Unset => Occupied' \subseteq Occupied \ {p}
           /\ p = Legacy => Occupied' = Occupied
<1>1. \A q \in Paths : cluster'[q] = IF q = p THEN d ELSE cluster[q]
  BY DEF ReconcilerTypeOK
<1> QED
  BY <1>1 DEF Occupied

\* A call that succeeds keeps the account of a pass.
LEMMA InventoryAdvances ==
    ASSUME ReconcilerTypeOK, ReplicaTypeOK, NEW i \in Replicas, NEW c \in Calls(i), PassLoads(i),
           PassInventory(i), Land(c), UNCHANGED <<memory, file>>,
           syncPass' = [syncPass EXCEPT ![i] = Advanced(i, c, @)]
    PROVE  PassInventory(i)'
<1> DEFINE w == syncPass[i]
           a == Advanced(i, c, w)
           e == [w EXCEPT !.left = {}]
<1>1. w \in PassRecord /\ syncPass'[i] = a
  BY DEF ReplicaTypeOK
<1>2. /\ e \in PassRecord /\ e.left = {} /\ e.at = w.at /\ e.want = w.want
  BY <1>1 DEF PassRecord
<1>3. KeptRoutes(w.want) = Rendered(w.want) /\ Legacy \in Paths
  BY PathsOfState
<1>4. w.left \subseteq Paths
  BY <1>1 DEF PassRecord
<1>5. w.at \notin Lists => w.left = {}
  BY DEF PassLoads
<1>6. CASE w.left \ {c.path} # {}
  <2>1. /\ a.at = w.at /\ a.want = w.want /\ a.left = w.left \ {c.path}
    <3>1. a = [w EXCEPT !.left = w.left \ {c.path}]
      BY <1>6 DEF Advanced
    <3> HIDE DEF w, a
    <3> QED
      BY <1>1, <3>1 DEF PassRecord
  <2>2. c.path \in w.left
    BY <1>5, <1>6, CallOf DEF Lists
  <2>3. CASE w.at \in {"delete", "prune"}
    <3>1. Occupied' \subseteq Occupied \ {c.path}
      <4>1. cluster' = [cluster EXCEPT ![c.path] = Unset]
        BY <2>3, CallOf
      <4> QED
        BY <1>4, <2>2, <4>1, OccupiedAfter
    <3> HIDE DEF w, a
    <3> QED
      BY <1>1, <2>1, <2>3, <3>1 DEF PassInventory, w
  <2>4. CASE w.at = "apply"
    <3>1. Occupied' \subseteq Occupied \cup {c.path}
      <4>1. cluster' = [cluster EXCEPT ![c.path] = w.want]
        BY <2>4, CallOf
      <4> QED
        BY <1>4, <2>2, <4>1, OccupiedAfter
    <3>2. c.path \in KeptRoutes(w.want)
      BY <1>3, <2>2, <2>4 DEF PassLoads
    <3>3. Occupied' \subseteq (UNION file[i]) \cup KeptRoutes(w.want)
      <4>1. Occupied \subseteq (UNION file[i]) \cup KeptRoutes(w.want)
        BY <2>4 DEF PassInventory
      <4> QED
        BY <3>1, <3>2, <4>1
    <3>4. /\ \A j \in Replicas \ {i} : file'[j] = {}
          /\ memory'[i] = {} \/ memory'[i] = file'[i]
      BY DEF PassInventory
    <3> HIDE DEF w, a
    <3> QED
      BY <1>1, <2>1, <2>4, <3>3, <3>4 DEF PassInventory
  <2> QED
    BY <1>5, <1>6, <2>3, <2>4 DEF Lists
<1>7. CASE w.left \ {c.path} = {}
  <2>1. a = Following(i, e)
    BY <1>7 DEF Advanced
  <2>2. /\ w.at = "applying" => a.at = "delete"
        /\ w.at = "delete" => a.at = "apply"
        /\ w.at = "apply" => a.at = "legacy"
        /\ w.at = "legacy" => a.at = "prune" /\ a.left = Departed(i, w.want)
        /\ w.at = "prune" => a.at = "store"
        /\ w.at = "load" => a.at = "ack"
        /\ w.at = "ack" => a.at = "ready"
        /\ w.at = "nack" => a.at = "failure"
        /\ w.at \in {"idle", "store", "ready", "failure"} => a.at = "idle"
        /\ w.at \notin {"idle", "store", "ready", "failure"} => a.want = w.want
    <3> HIDE DEF e
    <3> QED
      BY <1>2, <2>1, FollowingFields DEF NoPass
  <2>3. CASE w.at \in {"applying", "load", "ack", "nack", "ready", "failure"}
    <3>1. Occupied' = Occupied
      BY <2>3, CallOf DEF Occupied
    <3> HIDE DEF w, a
    <3> QED
      BY <1>1, <2>2, <2>3, <3>1 DEF PassInventory, w
  <2>4. CASE w.at \in {"delete", "prune"}
    <3>1. c.path \in w.left /\ cluster' = [cluster EXCEPT ![c.path] = Unset]
      BY <2>4, CallOf
    <3>2. Occupied' \subseteq Occupied \ {c.path}
      BY <1>4, <3>1, OccupiedAfter
    <3> HIDE DEF w, a
    <3> QED
      BY <1>1, <1>7, <2>2, <2>4, <3>2 DEF PassInventory, w
  <2>5. CASE w.at = "apply"
    <3>1. c.path \in w.left /\ cluster' = [cluster EXCEPT ![c.path] = w.want]
      BY <2>5, CallOf
    <3>2. Occupied' \subseteq Occupied \cup {c.path}
      BY <1>4, <3>1, OccupiedAfter
    <3>3. c.path \in KeptRoutes(w.want)
      BY <1>3, <2>5, <3>1 DEF PassLoads
    <3>4. Occupied' \subseteq (UNION file[i]) \cup KeptRoutes(w.want)
      <4>1. Occupied \subseteq (UNION file[i]) \cup KeptRoutes(w.want)
        BY <2>5 DEF PassInventory
      <4> QED
        BY <3>2, <3>3, <4>1
    <3>5. /\ \A j \in Replicas \ {i} : file'[j] = {}
          /\ memory'[i] = {} \/ memory'[i] = file'[i]
      BY DEF PassInventory
    <3> HIDE DEF w, a
    <3> QED
      BY <1>1, <2>2, <2>5, <3>4, <3>5 DEF PassInventory
  <2>6. CASE w.at = "legacy"
    <3>1. cluster' = [cluster EXCEPT ![Legacy] = Unset]
      BY <2>6, CallOf
    <3>2. Occupied' = Occupied
      BY <1>3, <3>1, OccupiedAfter
    <3>3. UNION file[i] \subseteq Departed(i, w.want) \cup KeptRoutes(w.want)
      BY DEF Departed, LoadApplied, PassInventory
    <3>4. Occupied' \subseteq Departed(i, w.want) \cup KeptRoutes(w.want)
      <4>1. Occupied \subseteq (UNION file[i]) \cup KeptRoutes(w.want)
        BY <2>6 DEF PassInventory
      <4> QED
        BY <3>2, <3>3, <4>1
    <3>5. /\ \A j \in Replicas \ {i} : file'[j] = {}
          /\ memory'[i] = {} \/ memory'[i] = file'[i]
      BY DEF PassInventory
    <3> HIDE DEF w, a
    <3> QED
      BY <1>1, <2>2, <2>6, <3>4, <3>5 DEF PassInventory
  <2>7. w.at \notin {"idle", "store"}
    BY CallOf
  <2> QED
    BY <1>1, <2>3, <2>4, <2>5, <2>6, <2>7 DEF PassRecord
<1> QED
  BY <1>6, <1>7

\* A call that fails before or after the changes of the cluster keeps it too.
LEMMA InventoryFails ==
    ASSUME ReplicaTypeOK, NEW i \in Replicas, NEW c \in Calls(i), PassInventory(i),
           Land(c) \/ UNCHANGED <<cluster, status, pluginRevision, quotas>>,
           ~Applying(syncPass[i]), UNCHANGED <<memory, file>>,
           syncPass' = [syncPass EXCEPT ![i] = AfterError(@)]
    PROVE  PassInventory(i)' /\ cluster' = cluster
<1> DEFINE w == syncPass[i]
           e == AfterError(w)
<1>1. w \in PassRecord /\ syncPass'[i] = e
  BY DEF ReplicaTypeOK
<1>2. /\ w.at = "load" => e.at = "nack" /\ e.want = w.want
      /\ w.at # "load" => e.at \in {"idle", "failure"}
  BY <1>1, ErrorFields
<1>3. w.at \in {"applying", "load", "ack", "nack", "ready", "failure"} \/ UNCHANGED cluster
  BY <1>1, CallOf DEF PassRecord, Applying
<1>4. cluster' = cluster
  BY <1>3, CallOf
<1>5. Occupied' = Occupied
  BY <1>4 DEF Occupied
<1>6. w.at \notin {"apply", "legacy", "prune", "store"}
  BY DEF Applying
<1> HIDE DEF w, e
<1> QED
  BY <1>1, <1>2, <1>4, <1>5, <1>6 DEF PassInventory, w
\* A call keeps what a ready status says of the departed.
LEMMA DepartedAfterCall ==
    ASSUME ReplicaTypeOK, NEW i \in Replicas, NEW c \in Calls(i), PassLoads(i), PassInventory(i), Land(c),
           ~strayed, ~broken, DepartedArePruned
    PROVE  DepartedArePruned'
<1> DEFINE w == syncPass[i]
<1>1. w \in PassRecord
  BY DEF ReplicaTypeOK
<1>2. CASE w.at \in {"applying", "failure"}
  <2>1. status'.state # "ready"
    BY <1>2, CallOf
  <2> QED
    BY <2>1 DEF DepartedArePruned
<1>3. CASE w.at \in {"delete", "prune", "apply", "legacy", "load", "ack", "nack"}
  <2>1. status' = status
    BY <1>3, CallOf
  <2>2. status.state # "ready"
    BY <1>3 DEF PassLoads, Working, Cleared
  <2> QED
    BY <2>1, <2>2 DEF DepartedArePruned
<1>4. CASE w.at = "ready"
  <2>1. status'.hash = w.want /\ cluster' = cluster
    BY <1>4, CallOf
  <2>2. Occupied \subseteq KeptRoutes(w.want)
    BY <1>4 DEF PassInventory
  <2>3. cluster[Legacy] = Unset
    BY <1>4 DEF PassLoads, Cleared, Applied, Bare
  <2> HIDE DEF w
  <2> QED
    BY <2>1, <2>2, <2>3 DEF DepartedArePruned, Occupied
<1>5. w.at \notin {"idle", "store"}
  BY CallOf
<1> QED
  BY <1>1, <1>2, <1>3, <1>4, <1>5 DEF PassRecord

\* Every step keeps what files, passes and a ready status say of the cluster.
LEMMA InventoryStep ==
    ASSUME ReconcilerTypeOK, ReplicaTypeOK, LeaderHolds, OthersIdle, PassesLoad, Inventory,
           DepartedArePruned, [ReconcilerNext]_reconcilerVars
    PROVE  Inventory' /\ DepartedArePruned'
<1> DEFINE Goal == Inventory' /\ DepartedArePruned'
           Remembered == \A j \in Replicas : memory[j] = {} \/ memory[j] = file[j]
           Files == UNION (UNION {file[j] : j \in Replicas})
           Rest == /\ UNCHANGED <<cluster, strayed, broken, file>>
                   /\ status'.state = "ready" => status' = status
                   /\ \A j \in Replicas : memory'[j] \in {{}, memory[j]}
                   /\ \A j \in Replicas : st'[j] = "leader" <=> st[j] = "leader"
                   /\ \A j \in Replicas : st'[j] = "leader" => syncPass'[j] = syncPass[j]
           Own(i) == /\ st[i] = "leader" /\ UNCHANGED <<st, strayed>>
                     /\ ~strayed /\ ~broken' => PassInventory(i)' /\ Remembered' /\ DepartedArePruned'
<1>1. Rest => Goal
  <2> SUFFICES ASSUME Rest PROVE Goal
    OBVIOUS
  <2>1. DepartedArePruned'
    BY DEF DepartedArePruned
  <2>2. Occupied' = Occupied
    BY DEF Occupied
  <2>3. ASSUME NEW j \in Replicas, ~strayed, ~broken, st'[j] = "leader" PROVE PassInventory(j)'
    <3>1. PassInventory(j)
      BY <2>3 DEF Inventory
    <3>2. syncPass'[j] = syncPass[j] /\ memory'[j] \in {{}, memory[j]} /\ file' = file
      BY <2>3
    <3> QED
      BY <2>2, <3>1, <3>2 DEF PassInventory
  <2>4. ASSUME ~strayed, ~broken PROVE Remembered'
    <3>1. Remembered
      BY <2>4 DEF Inventory
    <3> QED
      BY <3>1
  <2>5. ASSUME ~strayed, ~broken, \A j \in Replicas : st'[j] # "leader" PROVE Occupied' \subseteq Files'
    <3>1. Occupied \subseteq Files
      BY <2>5 DEF Inventory
    <3> QED
      BY <2>2, <3>1
  <2> QED
    BY <2>1, <2>3, <2>4, <2>5 DEF Inventory
<1>2. ASSUME NEW i \in Replicas, Own(i) PROVE Goal
  <2>1. \A j \in Replicas : st'[j] = "leader" => j = i
    BY <1>2, LeaderUnique
  <2>2. st'[i] = "leader"
    BY <1>2
  <2>3. CASE strayed \/ broken'
    BY <1>2, <2>3 DEF Inventory, DepartedArePruned
  <2>4. CASE ~strayed /\ ~broken'
    BY <1>2, <2>1, <2>2, <2>4 DEF Inventory
  <2> QED
    BY <2>3, <2>4
<1>3. /\ syncPass = [j \in Replicas |-> syncPass[j]] /\ st = [j \in Replicas |-> st[j]]
      /\ memory = [j \in Replicas |-> memory[j]] /\ file = [j \in Replicas |-> file[j]]
      /\ \A j \in Replicas : syncPass[j] \in PassRecord
  BY DEF ReplicaTypeOK
<1>4. ASSUME NEW i \in Replicas, st[i] = "leader", ~strayed, ~broken
      PROVE  PassLoads(i) /\ PassInventory(i) /\ Remembered
  BY <1>4 DEF PassesLoad, Inventory
<1>5. ASSUME NEW d \in RouteSets, PutDesired(d) PROVE Rest
  BY <1>5 DEF PutDesired, leaderVars, passVars
<1>6. ASSUME PutPending PROVE Rest
  <2>1. status'.state = "ready" => status' = status
    BY <1>6 DEF PutPending, ReconcilerTypeOK
  <2> QED
    BY <1>6, <2>1 DEF PutPending, leaderVars, passVars
<1>7. ASSUME NEW r \in Revisions, PublishLimits(r) PROVE Rest
  BY <1>7 DEF PublishLimits, leaderVars, passVars
<1>8. ASSUME NEW i \in Replicas, FetchNothing(i) PROVE Rest
  BY <1>8 DEF FetchNothing, leaderVars, passVars
<1>9. ASSUME NEW i \in Replicas, Acquire(i) PROVE Goal
  <2>1. /\ UNCHANGED <<status, cluster, strayed, file, memory, syncPass>> /\ st[i] = "follower"
        /\ st' = [st EXCEPT ![i] = "leader"]
        /\ broken' = (broken \/ \E j \in Replicas \ {i} : file[j] # {})
    BY <1>9 DEF Acquire, controlVars
  <2>2. CASE strayed \/ broken'
    BY <2>1, <2>2 DEF Inventory, DepartedArePruned
  <2>3. CASE ~strayed /\ ~broken'
    <3>1. ~broken /\ \A j \in Replicas \ {i} : file[j] = {}
      BY <2>1, <2>3
    <3>2. \A j \in Replicas : st[j] # "leader"
      BY <1>9, <2>1 DEF Acquire, LeaderHolds
    <3>3. Occupied \subseteq Files /\ Remembered
      BY <2>3, <3>1, <3>2 DEF Inventory
    <3>4. Occupied \subseteq UNION file[i]
      BY <3>1, <3>3
    <3>5. syncPass'[i].at = "idle"
      BY <2>1 DEF OthersIdle, NoPass
    <3>6. Occupied' = Occupied
      BY <2>1 DEF Occupied
    <3>7. PassInventory(i)'
      BY <2>1, <3>1, <3>3, <3>4, <3>5, <3>6 DEF PassInventory
    <3>8. \A j \in Replicas : st'[j] = "leader" => j = i
      BY <1>3, <2>1, <3>2
    <3>9. st'[i] = "leader"
      BY <1>3, <2>1
    <3>10. DepartedArePruned'
      BY <2>1, <3>1 DEF DepartedArePruned
    <3> QED
      BY <2>1, <3>3, <3>7, <3>8, <3>9, <3>10 DEF Inventory
  <2> QED
    BY <2>2, <2>3
<1>10. ASSUME NEW i \in Replicas, NEW s \in {"lost", "stopping"}, Cancel(i, s), UNCHANGED <<controlVars, cluster>>
       PROVE  Goal
  <2>1. /\ UNCHANGED <<status, cluster, strayed, file, memory>> /\ st' = [st EXCEPT ![i] = s]
        /\ broken' = (broken \/ Applying(syncPass[i]))
        /\ syncPass' = [syncPass EXCEPT ![i] = NoPass]
    BY <1>10 DEF Cancel, controlVars
  <2>2. CASE strayed \/ broken'
    BY <2>1, <2>2 DEF Inventory, DepartedArePruned
  <2>3. CASE ~strayed /\ ~broken' /\ st[i] # "leader"
    <3>1. broken' = broken
      BY <2>1, <2>3 DEF ReplicaTypeOK
    <3>2. \A j \in Replicas : (st'[j] = "leader" <=> st[j] = "leader") /\ (st'[j] = "leader" => syncPass'[j] = syncPass[j])
      BY <1>3, <2>1, <2>3
    <3>3. Rest
      BY <2>1, <3>1, <3>2
    <3> QED
      BY <1>1, <3>3
  <2>4. CASE ~strayed /\ ~broken' /\ st[i] = "leader"
    <3>1. ~broken /\ ~Applying(syncPass[i])
      BY <2>1, <2>4
    <3>2. PassInventory(i) /\ Remembered
      BY <1>4, <2>4, <3>1
    <3>3. Occupied \subseteq UNION file[i]
      BY <3>1, <3>2 DEF PassInventory, Applying
    <3>4. Occupied' \subseteq Files'
      BY <2>1, <3>3 DEF Occupied
    <3>5. \A j \in Replicas : st'[j] # "leader"
      BY <1>3, <2>1, <2>4, LeaderUnique
    <3>6. DepartedArePruned'
      BY <2>1, <3>1 DEF DepartedArePruned
    <3> QED
      BY <2>1, <3>2, <3>4, <3>5, <3>6 DEF Inventory
  <2> QED
    BY <2>2, <2>3, <2>4
<1>11. ASSUME NEW i \in Replicas, Lose(i) PROVE Goal
  BY <1>10, <1>11 DEF Lose
<1>12. ASSUME NEW i \in Replicas, Shutdown(i) PROVE Goal
  BY <1>10, <1>12 DEF Shutdown
<1>13. ASSUME NEW i \in Replicas, ReleaseRead(i) PROVE Rest
  BY <1>3, <1>13 DEF ReleaseRead, controlVars, passVars
<1>14. ASSUME NEW i \in Replicas, ReleaseWrite(i) PROVE Rest
  BY <1>3, <1>14 DEF ReleaseWrite, controlVars, passVars
<1>15. ASSUME NEW i \in Replicas, Exit(i) PROVE Rest
  BY <1>3, <1>15 DEF Exit, controlVars, passVars
<1>16. ASSUME NEW i \in Replicas, Start(i) PROVE Goal
  <2>1. CASE broken' = TRUE
    BY <2>1 DEF Inventory, DepartedArePruned
  <2>2. CASE UNCHANGED <<file, broken>>
    <3>1. Rest
      BY <1>3, <1>16, <2>2 DEF Start, controlVars
    <3> QED
      BY <1>1, <3>1
  <2> QED
    BY <1>16, <2>1, <2>2 DEF Start
<1>17. ASSUME NEW i \in Replicas, LateCall(i) PROVE Goal
  <2>1. CASE strayed' = TRUE
    BY <2>1 DEF Inventory, DepartedArePruned
  <2>2. CASE UNCHANGED <<cluster, status, strayed>>
    <3>1. Rest
      BY <1>17, <2>2 DEF LateCall, leaderVars
    <3> QED
      BY <1>1, <3>1
  <2> QED
    BY <1>17, <2>1, <2>2 DEF LateCall
<1>18. ASSUME UNCHANGED reconcilerVars PROVE Rest
  BY <1>18 DEF reconcilerVars
<1>19. ASSUME NEW i \in Replicas, Fetch(i) PROVE Own(i)
  <2>1. syncPass[i].at = "idle" /\ syncPass'[i].at = "applying"
    BY <1>3, <1>19 DEF Fetch, Announce, NoPass
  <2>2. /\ st[i] = "leader" /\ UNCHANGED <<st, strayed, broken, status, cluster, memory, file>>
    BY <1>19 DEF Fetch, controlVars, leaderVars
  <2>3. Occupied' = Occupied
    BY <2>2 DEF Occupied
  <2>4. ASSUME ~strayed, ~broken PROVE PassInventory(i)' /\ Remembered'
    <3>1. PassInventory(i) /\ Remembered
      BY <1>4, <2>2, <2>4
    <3> QED
      BY <2>1, <2>2, <2>3, <3>1 DEF PassInventory
  <2>5. DepartedArePruned'
    BY <2>2 DEF DepartedArePruned
  <2> QED
    BY <2>2, <2>4, <2>5
<1>20. ASSUME NEW i \in Replicas, Unavailable(i) PROVE Own(i)
  <2>1. syncPass[i].at \in {"idle", "delete"} /\ syncPass'[i].at = "failure"
    BY <1>3, <1>20 DEF Unavailable, PassRecord
  <2>2. /\ st[i] = "leader" /\ UNCHANGED <<st, strayed, broken, status, cluster, memory, file>>
    BY <1>20 DEF Unavailable, controlVars, leaderVars
  <2>3. Occupied' = Occupied
    BY <2>2 DEF Occupied
  <2>4. ASSUME ~strayed, ~broken PROVE PassInventory(i)' /\ Remembered'
    <3>1. PassInventory(i) /\ Remembered
      BY <1>4, <2>2, <2>4
    <3> QED
      BY <2>1, <2>2, <2>3, <3>1 DEF PassInventory
  <2>5. DepartedArePruned'
    BY <2>2 DEF DepartedArePruned
  <2> QED
    BY <2>2, <2>4, <2>5
<1>21. ASSUME NEW i \in Replicas, NothingToDo(i) PROVE Own(i)
  <2> DEFINE w == syncPass[i]
  <2>1. /\ st[i] = "leader" /\ UNCHANGED <<st, strayed, broken, status, cluster, memory, file>>
        /\ w.at \in {"delete", "prune"} /\ w.left = {} /\ syncPass'[i] = Following(i, w)
    BY <1>3, <1>21 DEF NothingToDo, controlVars, leaderVars
  <2>2. /\ w.at = "delete" => syncPass'[i].at = "apply"
        /\ w.at = "prune" => syncPass'[i].at = "store"
        /\ syncPass'[i].want = w.want
    BY <1>3, <2>1, FollowingFields
  <2>3. Occupied' = Occupied
    BY <2>1 DEF Occupied
  <2>4. ASSUME ~strayed, ~broken PROVE PassInventory(i)' /\ Remembered'
    <3>1. PassInventory(i) /\ Remembered
      BY <1>4, <2>1, <2>4
    <3> HIDE DEF w
    <3> QED
      BY <2>1, <2>2, <2>3, <3>1 DEF PassInventory, w
  <2>5. DepartedArePruned'
    BY <2>1 DEF DepartedArePruned
  <2> QED
    BY <2>1, <2>4, <2>5
<1>22. ASSUME NEW i \in Replicas, Store(i) PROVE Own(i)
  <2> DEFINE w == syncPass[i]
             K == KeptRoutes(w.want)
  <2>1. /\ st[i] = "leader" /\ UNCHANGED <<st, strayed, broken, status, cluster>> /\ w.at = "store"
        /\ memory' = [memory EXCEPT ![i] = {K}] /\ file' = [file EXCEPT ![i] = {K}]
    BY <1>22 DEF Store, StoreApplied, controlVars, leaderVars
  <2>2. syncPass'[i] \in {[w EXCEPT !.at = "ready"], [w EXCEPT !.at = "load", !.quota = quotas.rev]}
    BY <1>3, <1>22 DEF Store
  <2>3. syncPass'[i].at \in {"ready", "load"} /\ syncPass'[i].want = w.want
    BY <1>3, <2>2 DEF PassRecord
  <2>4. Occupied' = Occupied
    BY <2>1 DEF Occupied
  <2>5. /\ memory'[i] = {K} /\ file'[i] = {K}
        /\ \A j \in Replicas \ {i} : memory'[j] = memory[j] /\ file'[j] = file[j]
    BY <1>3, <2>1
  <2>6. ASSUME ~strayed, ~broken PROVE PassInventory(i)' /\ Remembered'
    <3>1. PassInventory(i) /\ Remembered
      BY <1>4, <2>1, <2>6
    <3>2. Occupied \subseteq K /\ \A j \in Replicas \ {i} : file[j] = {}
      BY <2>1, <3>1 DEF PassInventory
    <3>3. UNION file'[i] = K
      BY <2>5
    <3>4. Remembered'
      BY <2>5, <3>1
    <3>5. K = KeptRoutes(syncPass'[i].want)
      BY <2>3
    <3> HIDE DEF K, w
    <3> QED
      BY <2>3, <2>4, <2>5, <3>2, <3>3, <3>4, <3>5 DEF PassInventory
  <2>7. DepartedArePruned'
    BY <2>1 DEF DepartedArePruned
  <2> QED
    BY <2>1, <2>6, <2>7
<1>23. ASSUME NEW i \in Replicas, Call(i) PROVE Own(i)
  <2>1. PICK c \in Calls(i) : CallSucceeds(i, c) \/ CallFails(i, c)
    BY <1>23 DEF Call
  <2>2. st[i] = "leader" /\ UNCHANGED <<st, strayed, memory, file>>
    BY <1>23 DEF Call, leaderVars
  <2>3. ASSUME ~strayed, ~broken' PROVE PassInventory(i)' /\ Remembered' /\ DepartedArePruned'
    <3>1. ~broken
      BY <2>1, <2>3 DEF CallSucceeds, CallFails
    <3>2. PassLoads(i) /\ PassInventory(i) /\ Remembered
      BY <1>4, <2>2, <2>3, <3>1
    <3>3. Remembered'
      BY <2>2, <3>2
    <3>4. CASE CallSucceeds(i, c)
      BY <2>2, <2>3, <3>1, <3>2, <3>3, <3>4, InventoryAdvances, DepartedAfterCall DEF CallSucceeds
    <3>5. CASE CallFails(i, c)
      <4>1. ~Applying(syncPass[i])
        BY <2>3, <3>5 DEF CallFails
      <4>2. PassInventory(i)' /\ cluster' = cluster
        BY <2>2, <3>2, <3>5, <4>1, InventoryFails DEF CallFails
      <4>3. CASE Land(c)
        BY <2>3, <3>1, <3>2, <3>3, <4>2, <4>3, DepartedAfterCall
      <4>4. CASE UNCHANGED <<cluster, status, pluginRevision, quotas>>
        BY <2>2, <3>1, <3>3, <4>2, <4>4 DEF DepartedArePruned
      <4> QED
        BY <3>5, <4>3, <4>4 DEF CallFails
    <3> QED
      BY <2>1, <3>4, <3>5
  <2> QED
    BY <2>2, <2>3
<1> HIDE DEF Goal, Rest, Own
<1>24. Goal
  BY <1>1, <1>2, <1>5, <1>6, <1>7, <1>8, <1>9, <1>11, <1>12, <1>13, <1>14, <1>15, <1>16, <1>17,
     <1>18, <1>19, <1>20, <1>21, <1>22, <1>23 DEF ReconcilerNext
<1> QED
  BY <1>24 DEF Goal
-----------------------------------------------------------------------------
(* The theorems. *)

LEMMA InitInductive ==
    ASSUME ReconcilerInit PROVE ReconcilerInductive
<1>1. ReconcilerTypeOK
  BY DEF ReconcilerInit, ReconcilerTypeOK
<1>2. NoPass \in PassRecord
  BY DEF NoPass, PassRecord, RouteBodies, QuotaBodies
<1>3. ReplicaTypeOK
  BY <1>2 DEF ReconcilerInit, ReplicaTypeOK
<1>4. /\ \A i \in Replicas : st[i] = "follower" /\ seen[i] = 0 /\ syncPass[i] = NoPass /\ memory[i] = {}
      /\ status.state = "pending" /\ quotas.state = "pending" /\ lease.version = 0
  BY DEF ReconcilerInit
<1>5. LeaderHolds /\ ReleaseIsOwn /\ OthersIdle
  BY <1>4 DEF LeaderHolds, ReleaseIsOwn, OthersIdle
<1>6. PassesLoad /\ ReadyIsLoaded /\ PassesLimit /\ LimitsAreLoaded /\ DepartedArePruned
  BY <1>4 DEF PassesLoad, ReadyIsLoaded, PassesLimit, LimitsAreLoaded, LimitState, DepartedArePruned
<1>7. Occupied = {}
  BY DEF ReconcilerInit, Occupied
<1>8. Inventory
  BY <1>4, <1>7 DEF Inventory
<1> QED
  BY <1>1, <1>3, <1>5, <1>6, <1>8 DEF ReconcilerInductive

LEMMA StepInductive ==
    ASSUME ReconcilerInductive, [ReconcilerNext]_reconcilerVars PROVE ReconcilerInductive'
<1> USE DEF ReconcilerInductive
<1>1. ReconcilerTypeOK' /\ ReplicaTypeOK'
  BY TypeStep
<1>2. LeaderHolds' /\ ReleaseIsOwn' /\ OthersIdle'
  BY LeaseStep
<1>3. PassesLoad' /\ ReadyIsLoaded'
  BY LoadStep
<1>4. PassesLimit' /\ LimitsAreLoaded'
  BY LimitStep
<1>5. Inventory' /\ DepartedArePruned'
  BY InventoryStep
<1> QED
  BY <1>1, <1>2, <1>3, <1>4, <1>5

\* The strengthened invariant of the reconciler holds in every reachable state.
THEOREM ReconcilerSafe == ReconcilerSpec => []ReconcilerInductive
<1>1. ReconcilerInit => ReconcilerInductive
  BY InitInductive
<1>2. ReconcilerInductive /\ [ReconcilerNext]_reconcilerVars => ReconcilerInductive'
  BY StepInductive
<1> QED
  BY <1>1, <1>2, PTL DEF ReconcilerSpec

\* A ready status means that the routes it names are loaded and the others
\* gone, and applied limits are what the plugins run (Sync, Apply,
\* syncGatewayLimits, with the provisos of the properties).
THEOREM ReconcilerCorrect == ReconcilerSpec => []ReconcilerInvariant
<1>1. ReconcilerInductive => ReconcilerInvariant
  BY DEF ReconcilerInductive, ReconcilerInvariant
<1> QED
  BY <1>1, ReconcilerSafe, PTL

\* Two replicas never work at the same time (runLeaderElection, guardedRelease).
THEOREM LeaderIsUnique == ReconcilerSpec => []OneLeader
<1>1. ASSUME LeaderHolds PROVE OneLeader
  <2> DEFINE L == {i \in Replicas : st[i] = "leader"}
  <2>1. L \subseteq {lease.holder}
    BY <1>1 DEF LeaderHolds
  <2>2. IsFiniteSet({lease.holder}) /\ Cardinality({lease.holder}) = 1
    BY FS_Singleton
  <2>3. Cardinality(L) <= Cardinality({lease.holder})
    BY <2>1, <2>2, FS_Subset
  <2>4. Cardinality(L) <= 1
    BY <2>2, <2>3
  <2> QED
    BY <2>4 DEF OneLeader
<1>2. ReconcilerInductive => OneLeader
  BY <1>1 DEF ReconcilerInductive
<1> QED
  BY <1>2, ReconcilerSafe, PTL


-----------------------------------------------------------------------------
(* The gateway operator: the inductive invariant                           *)

Hashes ==
    UNION {[dep : Nat, policy : Nat, secret : {0, 1}, routes : [q -> {"on", "off"}]] : q \in SUBSET ModelRoutes}

DeploymentRow == [mark : Nat, value : Nat, rv : Nat, applied : BOOLEAN, snapshot : Hashes \cup {NoHash}]
RouteRow      == [here : BOOLEAN, mark : Nat, value : {"on", "off"}, finalizer : BOOLEAN, deleting : BOOLEAN]
RouteRows     == [ModelRoutes -> RouteRow]

DeploymentWork ==
    [phase : {"dep", "routes", "policies", "apply", "failed", "status"}, rv : Nat,
     dep : DeploymentRow \cup {Unread}, routes : RouteRows \cup {Unread}, hash : Hashes \cup {NoHash}]

RouteWork ==
    [phase : {"dep", "routes", "policies", "apply", "failed"}, route : ModelRoutes, deleting : BOOLEAN, finalizer : BOOLEAN,
     early : SUBSET DeploymentRow,
     dep : DeploymentRow \cup {Unread}, routes : RouteRows \cup {Unread}, hash : Hashes \cup {NoHash}]

OperatorRows ==
    /\ direct \in BOOLEAN /\ next \in 1 .. Len(Publications) + 1
    /\ deployment \in DeploymentRow /\ routeObjects \in RouteRows
    /\ policyObject \in [mark : Nat, value : Nat] /\ credentialSecret \in {0, 1}
    /\ appliedEver \subseteq Hashes /\ ingresses \in [ModelRoutes -> Hashes \cup {NoHash}]
    /\ DOMAIN worker = Reconcilers
    /\ worker["deployment"] \in DeploymentWork \cup {IdleWork}
    /\ worker["route"] \in RouteWork \cup {IdleWork}

\* Objects carry what their publication says; a status that says applied names a
\* hash that was applied.
Published(mark) == mark \in 1 .. Len(Publications)

DeploymentOK(d) ==
    /\ d \in DeploymentRow
    /\ d.applied => d.snapshot \in appliedEver
    /\ ~direct => Published(d.mark) /\ d.value = Publications[d.mark].dep

RoutesOK(rs) ==
    /\ rs \in RouteRows
    /\ ~direct => \A r \in ModelRoutes : Published(rs[r].mark) /\ rs[r].value = Publications[rs[r].mark].routes[r]

PolicyOK == ~direct => Published(policyObject.mark) /\ policyObject.value = Publications[policyObject.mark].policy

HashOK(h) == h \in Hashes /\ (~direct => \E n \in 1 .. Len(Publications) : h \in Contents(n))

\* What a worker has read or rendered so far.
SnapshotOK(w) ==
    /\ w.phase \in {"routes", "policies", "apply", "failed", "status"} => DeploymentOK(w.dep)
    /\ w.phase = "policies" => RoutesOK(w.routes)
    /\ w.phase = "apply" => HashOK(w.hash)
    /\ w.phase = "status" => w.hash \in appliedEver

\* What the route worker knows of its route stays so until it lets it go.
RouteWorkOK(w) ==
    w.phase # "idle" =>
        /\ \A d \in w.early : DeploymentOK(d)
        /\ w.deleting => w.early # {} /\ routeObjects[w.route].deleting
        /\ w.deleting \/ w.finalizer => routeObjects[w.route].here /\ routeObjects[w.route].finalizer
        /\ w.phase # "dep" => w.deleting \/ w.finalizer
        /\ w.deleting /\ w.phase = "policies" => w.routes[w.route].deleting
        /\ w.deleting /\ w.phase = "apply" => w.route \notin DOMAIN w.hash.routes

RouteOK(r) ==
    /\ routeObjects[r].here => routeObjects[r].mark <= next
    /\ routeObjects[r].here /\ routeObjects[r].deleting => routeObjects[r].finalizer
    /\ ~routeObjects[r].here => ~routeObjects[r].finalizer \/ \E h \in appliedEver : r \notin DOMAIN h.routes
    /\ ingresses[r] # NoHash =>
           /\ routeObjects[r].here /\ routeObjects[r].finalizer
           /\ ingresses[r] \in appliedEver /\ Serves(ingresses[r], r)

OperatorInductive ==
    /\ OperatorRows
    /\ deployment.mark <= next /\ DeploymentOK(deployment) /\ RoutesOK(routeObjects) /\ PolicyOK
    /\ \A h \in appliedEver : HashOK(h)
    /\ \A c \in Reconcilers : SnapshotOK(worker[c])
    /\ RouteWorkOK(worker["route"])
    /\ \A r \in ModelRoutes : RouteOK(r)

LEMMA PublicationFacts ==
    /\ Len(Publications) \in Nat \ {0}
    /\ \A n \in 1 .. Len(Publications) :
          /\ Publications[n].dep \in Nat /\ Publications[n].policy \in Nat
          /\ \A r \in ModelRoutes : Publications[n].routes[r] \in {"on", "off"}
<1> DEFINE Row == [dep : Nat, policy : Nat, routes : [ModelRoutes -> {"on", "off"}]]
<1>1. Publications \in Seq(Row) /\ Publications # <<>>
  BY OperatorAssumption
<1> HIDE DEF Row
<1>2. Len(Publications) \in Nat \ {0} /\ \A n \in 1 .. Len(Publications) : Publications[n] \in Row
  BY <1>1
<1> QED BY <1>2 DEF Row

LEMMA IdleFacts == IdleWork.phase = "idle"
BY DEF IdleWork

LEMMA OperatorInductiveIsEnough == OperatorInductive => OperatorInvariant
<1> SUFFICES ASSUME OperatorInductive PROVE OperatorInvariant
    OBVIOUS
<1>1. OperatorTypeOK
  <2>1. \A c \in Reconcilers : worker[c].phase \in {"idle", "dep", "routes", "policies", "apply", "failed", "status"}
    BY IdleFacts DEF OperatorInductive, OperatorRows, Reconcilers, DeploymentWork, RouteWork
  <2> QED BY <2>1 DEF OperatorInductive, OperatorRows, OperatorTypeOK, RouteOK
<1>2. NoMixture
  <2> SUFFICES ASSUME ~direct, NEW h \in appliedEver \cup {ingresses[r] : r \in ModelRoutes}, h # NoHash
               PROVE  \E n \in 1 .. Len(Publications) : h \in Contents(n)
      BY DEF NoMixture
  <2>1. h \in appliedEver
    BY DEF OperatorInductive, RouteOK
  <2> QED BY <2>1 DEF OperatorInductive, HashOK
<1>3. IngressFollowsAggregate
  BY DEF OperatorInductive, RouteOK, IngressFollowsAggregate
<1>4. DeletionAfterAggregate
  BY DEF OperatorInductive, RouteOK, DeletionAfterAggregate
<1> QED BY <1>1, <1>2, <1>3, <1>4 DEF OperatorInvariant

LEMMA OperatorStarts == OperatorInit => OperatorInductive
<1> SUFFICES ASSUME OperatorInit PROVE OperatorInductive
    OBVIOUS
<1>0. direct \in BOOLEAN /\ 1 \in 1 .. Len(Publications) /\ Len(Publications) \in Nat
  BY OperatorAssumption, PublicationFacts DEF OperatorInit
<1> DEFINE mark == IF direct THEN 0 ELSE 1
           dep  == [mark |-> mark, value |-> Publications[1].dep, rv |-> 0, applied |-> FALSE, snapshot |-> NoHash]
           Obj(r) == [here |-> TRUE, mark |-> mark, value |-> Publications[1].routes[r], finalizer |-> FALSE, deleting |-> FALSE]
<1>1. mark \in Nat /\ (~direct => mark = 1) /\ mark <= next /\ next \in 1 .. Len(Publications) + 1
  BY <1>0 DEF OperatorInit
<1>2. deployment = dep /\ routeObjects = [r \in ModelRoutes |-> Obj(r)]
      /\ policyObject = [mark |-> mark, value |-> Publications[1].policy]
  BY DEF OperatorInit
<1> HIDE DEF mark
<1>3. dep \in DeploymentRow /\ dep.mark = mark /\ dep.value = Publications[1].dep /\ ~dep.applied
  BY <1>0, <1>1, PublicationFacts DEF DeploymentRow
<1>4. ASSUME NEW r \in ModelRoutes
      PROVE  Obj(r) \in RouteRow /\ Obj(r).mark = mark /\ Obj(r).value = Publications[1].routes[r] /\ ~Obj(r).finalizer /\ ~Obj(r).deleting
             /\ Obj(r).here
  BY <1>0, <1>1, <1>4, PublicationFacts DEF RouteRow
<1> HIDE DEF dep
<1>5. deployment \in DeploymentRow /\ deployment.mark <= next /\ DeploymentOK(deployment)
  BY <1>0, <1>1, <1>2, <1>3 DEF DeploymentOK, Published
<1>6. routeObjects \in RouteRows /\ \A r \in ModelRoutes : routeObjects[r] = Obj(r)
  BY <1>2, <1>4 DEF RouteRows
<1> HIDE DEF Obj
<1>7. RoutesOK(routeObjects)
  BY <1>0, <1>1, <1>4, <1>6 DEF RoutesOK, Published
<1>8. PolicyOK /\ policyObject \in [mark : Nat, value : Nat]
  BY <1>0, <1>1, <1>2, PublicationFacts DEF PolicyOK, Published
<1>9. appliedEver = {} /\ ingresses = [r \in ModelRoutes |-> NoHash] /\ worker = [c \in Reconcilers |-> IdleWork] /\ credentialSecret = 0
  BY DEF OperatorInit
<1>10. OperatorRows
  BY <1>0, <1>1, <1>5, <1>6, <1>8, <1>9 DEF OperatorRows, Reconcilers
<1>11. \A c \in Reconcilers : SnapshotOK(worker[c])
  BY <1>9, IdleFacts DEF SnapshotOK
<1>12. RouteWorkOK(worker["route"])
  BY <1>9, IdleFacts DEF RouteWorkOK, Reconcilers
<1>13. \A r \in ModelRoutes : RouteOK(r)
  BY <1>1, <1>4, <1>6, <1>9 DEF RouteOK
<1> QED BY <1>5, <1>7, <1>8, <1>9, <1>10, <1>11, <1>12, <1>13 DEF OperatorInductive

\* What is known of a deployment, a list of routes or a hash that was read stays
\* known, for applied hashes are only added.
LEMMA KnownStays ==
    ASSUME appliedEver \subseteq appliedEver', direct' = direct
    PROVE  /\ \A d : DeploymentOK(d) => DeploymentOK(d)'
           /\ \A rs : RoutesOK(rs) => RoutesOK(rs)'
           /\ \A h : HashOK(h) => HashOK(h)'
           /\ \A w : SnapshotOK(w) => SnapshotOK(w)'
<1>1. \A d : DeploymentOK(d) => DeploymentOK(d)'
  BY DEF DeploymentOK
<1>2. \A rs : RoutesOK(rs) => RoutesOK(rs)'
  BY DEF RoutesOK
<1>3. \A h : HashOK(h) => HashOK(h)'
  BY DEF HashOK
<1> QED BY <1>1, <1>2, <1>3 DEF SnapshotOK

\* The route worker, as far as its route allows.
LEMMA RouteWorkStays ==
    ASSUME OperatorInductive, appliedEver \subseteq appliedEver', direct' = direct, worker'["route"] = worker["route"],
           \A r \in ModelRoutes :
               /\ routeObjects[r].deleting => routeObjects'[r].deleting
               /\ routeObjects[r].here /\ routeObjects[r].finalizer => routeObjects'[r].here /\ routeObjects'[r].finalizer
    PROVE  RouteWorkOK(worker["route"])'
<1>1. PICK w : w = worker["route"]
  OBVIOUS
<1>2. RouteWorkOK(w) /\ (w.phase # "idle" => w.route \in ModelRoutes)
  BY <1>1, IdleFacts DEF OperatorInductive, OperatorRows, RouteWork
<1>3. RouteWorkOK(w)'
  BY <1>2, KnownStays DEF RouteWorkOK
<1> QED BY <1>1, <1>3 DEF RouteWorkOK

\* A step of the relay, of an administrator or of the secret: the workers rest.
LEMMA EnvironmentKeeps ==
    ASSUME OperatorInductive, UNCHANGED <<direct, worker, appliedEver, ingresses>>,
           next' \in 1 .. Len(Publications) + 1, next <= next',
           deployment' \in DeploymentRow, deployment'.mark <= next', DeploymentOK(deployment)',
           RoutesOK(routeObjects)', PolicyOK', policyObject' \in [mark : Nat, value : Nat], credentialSecret' \in {0, 1},
           \A r \in ModelRoutes :
               /\ routeObjects[r].deleting => routeObjects'[r].deleting
               /\ routeObjects[r].here /\ routeObjects[r].finalizer => routeObjects'[r].here /\ routeObjects'[r].finalizer
               /\ routeObjects'[r].here => routeObjects'[r].mark <= next'
               /\ routeObjects'[r].here /\ routeObjects'[r].deleting => routeObjects'[r].finalizer
               /\ ~routeObjects'[r].here => ~routeObjects'[r].finalizer \/ (~routeObjects[r].here /\ routeObjects[r].finalizer)
    PROVE  OperatorInductive'
<1>1. \A c \in Reconcilers : SnapshotOK(worker[c])'
  BY KnownStays DEF OperatorInductive, SnapshotOK, Reconcilers
<1>2. RouteWorkOK(worker["route"])'
  BY RouteWorkStays
<1>3. \A r \in ModelRoutes : RouteOK(r)'
  BY DEF OperatorInductive, RouteOK
<1>4. OperatorRows'
  BY DEF OperatorInductive, OperatorRows, RoutesOK
<1>5. \A h \in appliedEver' : HashOK(h)'
  BY KnownStays DEF OperatorInductive
<1> QED BY <1>1, <1>2, <1>3, <1>4, <1>5 DEF OperatorInductive

LEMMA RouteSet ==
    ASSUME routeObjects \in RouteRows, NEW r \in ModelRoutes, NEW row \in RouteRow, routeObjects' = [routeObjects EXCEPT ![r] = row]
    PROVE  /\ routeObjects' \in RouteRows /\ routeObjects'[r] = row
           /\ \A q \in ModelRoutes \ {r} : routeObjects'[q] = routeObjects[q]
BY DEF RouteRows

LEMMA RouteFacts ==
    ASSUME OperatorInductive, NEW r \in ModelRoutes
    PROVE  routeObjects \in RouteRows /\ routeObjects[r] \in RouteRow
BY DEF OperatorInductive, OperatorRows, RouteRows

LEMMA NextFacts == OperatorInductive => next \in Nat /\ next <= next
BY PublicationFacts DEF OperatorInductive, OperatorRows

LEMMA RelayRouteKeeps ==
    ASSUME OperatorInductive, NEW r \in ModelRoutes, RelayRoute(r)
    PROVE  OperatorInductive'
<1> DEFINE half == [routeObjects[r] EXCEPT !.mark = next]
           row  == [half EXCEPT !.value = Publications[next].routes[r]]
<1>0. /\ UNCHANGED <<direct, next, worker, appliedEver, ingresses, deployment, policyObject, credentialSecret>>
      /\ next \in 1 .. Len(Publications) /\ routeObjects[r].here /\ next \in Nat
  BY NextFacts, PublicationFacts DEF RelayRoute, crVars, OperatorInductive, OperatorRows
<1>1. routeObjects' = [routeObjects EXCEPT ![r] = row]
  BY RouteFacts DEF RelayRoute, RouteRows
<1>2. /\ half \in RouteRow /\ half.mark = next /\ half.here /\ half.finalizer = routeObjects[r].finalizer
      /\ half.deleting = routeObjects[r].deleting
  BY <1>0, RouteFacts DEF RouteRow
<1> HIDE DEF half
<1>3. /\ row \in RouteRow /\ row.mark = next /\ row.here /\ row.finalizer = routeObjects[r].finalizer
      /\ row.deleting = routeObjects[r].deleting /\ row.value = Publications[next].routes[r]
  BY <1>0, <1>2, PublicationFacts DEF RouteRow
<1> HIDE DEF row
<1>4. /\ routeObjects' \in RouteRows /\ routeObjects'[r] = row
      /\ \A q \in ModelRoutes \ {r} : routeObjects'[q] = routeObjects[q]
  BY <1>1, <1>3, RouteFacts, RouteSet
<1>5. RoutesOK(routeObjects)'
  BY <1>0, <1>3, <1>4 DEF OperatorInductive, RoutesOK, Published
<1>6. DeploymentOK(deployment)' /\ PolicyOK'
  BY <1>0 DEF OperatorInductive, DeploymentOK, PolicyOK
<1>7. \A q \in ModelRoutes :
          /\ routeObjects[q].deleting => routeObjects'[q].deleting
          /\ routeObjects[q].here /\ routeObjects[q].finalizer => routeObjects'[q].here /\ routeObjects'[q].finalizer
          /\ routeObjects'[q].here => routeObjects'[q].mark <= next'
          /\ routeObjects'[q].here /\ routeObjects'[q].deleting => routeObjects'[q].finalizer
          /\ ~routeObjects'[q].here => ~routeObjects'[q].finalizer \/ (~routeObjects[q].here /\ routeObjects[q].finalizer)
  BY <1>0, <1>3, <1>4 DEF OperatorInductive, RouteOK
<1> QED BY <1>0, <1>5, <1>6, <1>7, EnvironmentKeeps DEF OperatorInductive, OperatorRows

LEMMA OtherRelayKeeps ==
    ASSUME OperatorInductive, RelayPolicy \/ RelayAggregate \/ RotateSecret
    PROVE  OperatorInductive'
<1>0. UNCHANGED <<direct, worker, appliedEver, ingresses, routeObjects>>
  BY DEF RelayPolicy, RelayAggregate, RotateSecret
<1>1. RoutesOK(routeObjects)'
  BY <1>0 DEF OperatorInductive, RoutesOK
<1>2. /\ next' \in 1 .. Len(Publications) + 1 /\ next <= next' /\ next \in Nat /\ next' \in Nat
  BY NextFacts, PublicationFacts DEF OperatorInductive, OperatorRows, RelayPolicy, RelayAggregate, RotateSecret
<1>3. credentialSecret' \in {0, 1}
  BY DEF OperatorInductive, OperatorRows, RelayPolicy, RelayAggregate, RotateSecret
<1>4. PolicyOK' /\ policyObject' \in [mark : Nat, value : Nat]
  <2>1. CASE RelayPolicy
    <3>1. next \in 1 .. Len(Publications)
      BY <1>2, <2>1, PublicationFacts DEF RelayPolicy
    <3>2. policyObject' = [mark |-> next, value |-> Publications[next].policy]
      BY <2>1 DEF RelayPolicy
    <3> QED BY <1>0, <1>2, <3>1, <3>2, PublicationFacts DEF PolicyOK, Published
  <2>2. CASE ~RelayPolicy
    BY <1>0, <2>2 DEF RelayAggregate, RotateSecret, OperatorInductive, OperatorRows, PolicyOK
  <2> QED BY <2>1, <2>2
<1>5. deployment' \in DeploymentRow /\ deployment'.mark <= next' /\ DeploymentOK(deployment)'
  <2>0. deployment \in DeploymentRow /\ deployment.mark <= next /\ DeploymentOK(deployment)
    BY DEF OperatorInductive, OperatorRows
  <2>1. CASE RelayAggregate
    <3> DEFINE one == [deployment EXCEPT !.mark = next]
               two == [one EXCEPT !.value = Publications[next].dep]
               row == [two EXCEPT !.rv = deployment.rv + 1]
    <3>0. deployment' = row
      BY <2>0, <2>1 DEF RelayAggregate, DeploymentRow
    <3>1. next' = next + 1 /\ next \in 1 .. Len(Publications)
      BY <2>1, PublicationFacts DEF RelayAggregate, OperatorInductive, OperatorRows
    <3>2. one \in DeploymentRow /\ one.mark = next /\ one.applied = deployment.applied /\ one.snapshot = deployment.snapshot
          /\ one.rv = deployment.rv
      BY <1>2, <2>0 DEF DeploymentRow
    <3> HIDE DEF one
    <3>3. two \in DeploymentRow /\ two.mark = next /\ two.applied = deployment.applied /\ two.snapshot = deployment.snapshot
          /\ two.value = Publications[next].dep /\ two.rv = deployment.rv
      BY <3>1, <3>2, PublicationFacts DEF DeploymentRow
    <3> HIDE DEF two
    <3>4. row \in DeploymentRow /\ row.mark = next /\ row.applied = deployment.applied /\ row.snapshot = deployment.snapshot
          /\ row.value = Publications[next].dep
      BY <2>0, <3>3 DEF DeploymentRow
    <3> HIDE DEF row
    <3> QED BY <1>0, <1>2, <2>0, <3>0, <3>1, <3>4 DEF DeploymentOK, Published
  <2>2. CASE ~RelayAggregate
    <3>1. deployment' = deployment /\ next' = next
      BY <2>2 DEF RelayPolicy, RotateSecret
    <3> QED BY <1>0, <2>0, <3>1 DEF DeploymentOK
  <2> QED BY <2>1, <2>2
<1>6. \A q \in ModelRoutes :
          /\ routeObjects'[q].here => routeObjects'[q].mark <= next'
          /\ routeObjects'[q].here /\ routeObjects'[q].deleting => routeObjects'[q].finalizer
          /\ ~routeObjects'[q].here => ~routeObjects'[q].finalizer \/ (~routeObjects[q].here /\ routeObjects[q].finalizer)
  <2> SUFFICES ASSUME NEW q \in ModelRoutes
               PROVE  /\ routeObjects[q].here => routeObjects[q].mark <= next'
                      /\ routeObjects[q].here /\ routeObjects[q].deleting => routeObjects[q].finalizer
      BY <1>0
  <2>1. routeObjects[q].mark \in Nat
    BY RouteFacts DEF RouteRow
  <2> QED BY <1>2, <2>1 DEF OperatorInductive, RouteOK
<1> QED BY <1>0, <1>1, <1>2, <1>3, <1>4, <1>5, <1>6, EnvironmentKeeps

LEMMA AdministratorKeeps ==
    ASSUME OperatorInductive, NEW r \in ModelRoutes, DeleteRoute(r) \/ \E v \in {"on", "off"} : EditRoute(r, v)
    PROVE  OperatorInductive'
<1>0. /\ UNCHANGED <<direct, next, worker, appliedEver, ingresses, deployment, policyObject, credentialSecret>>
      /\ routeObjects[r].here
  BY DEF DeleteRoute, EditRoute, crVars
<1>1. PICK row \in RouteRow :
          /\ routeObjects' = [routeObjects EXCEPT ![r] = row]
          /\ row.mark = routeObjects[r].mark /\ row.finalizer = routeObjects[r].finalizer
          /\ \/ row.value = routeObjects[r].value /\ row.deleting /\ row.here = routeObjects[r].finalizer
             \/ direct /\ row.deleting = routeObjects[r].deleting /\ row.here
  <2>1. CASE DeleteRoute(r)
    <3> DEFINE half == [routeObjects[r] EXCEPT !.deleting = TRUE]
               row  == [half EXCEPT !.here = routeObjects[r].finalizer]
    <3>1. routeObjects' = [routeObjects EXCEPT ![r] = row]
      BY <2>1, RouteFacts DEF DeleteRoute, RouteRows
    <3>2. half \in RouteRow /\ half.deleting /\ half.mark = routeObjects[r].mark /\ half.value = routeObjects[r].value
          /\ half.finalizer = routeObjects[r].finalizer
      BY RouteFacts DEF RouteRow
    <3> HIDE DEF half
    <3>3. row \in RouteRow /\ row.deleting /\ row.mark = routeObjects[r].mark /\ row.value = routeObjects[r].value
          /\ row.finalizer = routeObjects[r].finalizer /\ row.here = routeObjects[r].finalizer
      BY <3>2, RouteFacts DEF RouteRow
    <3> HIDE DEF row
    <3> QED BY <3>1, <3>3
  <2>2. CASE \E v \in {"on", "off"} : EditRoute(r, v)
    <3>1. PICK v \in {"on", "off"} : EditRoute(r, v)
      BY <2>2
    <3> DEFINE row == [routeObjects[r] EXCEPT !.value = v]
    <3>2. routeObjects' = [routeObjects EXCEPT ![r] = row] /\ direct
      BY <3>1, RouteFacts DEF EditRoute, RouteRows
    <3>3. row \in RouteRow /\ row.deleting = routeObjects[r].deleting /\ row.mark = routeObjects[r].mark
          /\ row.finalizer = routeObjects[r].finalizer /\ row.here
      BY <1>0, RouteFacts DEF RouteRow
    <3> HIDE DEF row
    <3> QED BY <3>2, <3>3
  <2> QED BY <2>1, <2>2
<1>4. /\ routeObjects' \in RouteRows /\ routeObjects'[r] = row
      /\ \A q \in ModelRoutes \ {r} : routeObjects'[q] = routeObjects[q]
  BY <1>1, RouteFacts, RouteSet
<1>5. RoutesOK(routeObjects)'
  BY <1>0, <1>1, <1>4 DEF OperatorInductive, RoutesOK, Published
<1>6. DeploymentOK(deployment)' /\ PolicyOK'
  BY <1>0 DEF OperatorInductive, DeploymentOK, PolicyOK
<1>7. \A q \in ModelRoutes :
          /\ routeObjects[q].deleting => routeObjects'[q].deleting
          /\ routeObjects[q].here /\ routeObjects[q].finalizer => routeObjects'[q].here /\ routeObjects'[q].finalizer
          /\ routeObjects'[q].here => routeObjects'[q].mark <= next'
          /\ routeObjects'[q].here /\ routeObjects'[q].deleting => routeObjects'[q].finalizer
          /\ ~routeObjects'[q].here => ~routeObjects'[q].finalizer \/ (~routeObjects[q].here /\ routeObjects[q].finalizer)
  BY <1>0, <1>1, <1>4 DEF OperatorInductive, RouteOK
<1>8. next <= next'
  BY <1>0, NextFacts
<1> QED BY <1>0, <1>5, <1>6, <1>7, <1>8, EnvironmentKeeps DEF OperatorInductive, OperatorRows

\* A step of a worker.
LEMMA WorkerMoves ==
    ASSUME OperatorInductive, UNCHANGED <<direct, next, policyObject, credentialSecret>>,
           appliedEver \subseteq appliedEver', \A h \in appliedEver' : HashOK(h)',
           NEW c \in Reconcilers, NEW w, worker' = [worker EXCEPT ![c] = w],
           c = "deployment" => w \in DeploymentWork \cup {IdleWork},
           c = "route" => w \in RouteWork \cup {IdleWork} /\ RouteWorkOK(w)',
           SnapshotOK(w)',
           c # "route" => routeObjects' = routeObjects,
           deployment' \in DeploymentRow, deployment'.mark <= next, DeploymentOK(deployment)', RoutesOK(routeObjects)',
           ingresses' \in [ModelRoutes -> Hashes \cup {NoHash}],
           \A r \in ModelRoutes : RouteOK(r)'
    PROVE  OperatorInductive'
<1>1. DOMAIN worker = Reconcilers /\ DOMAIN worker' = Reconcilers /\ worker'[c] = w
      /\ \A d \in Reconcilers \ {c} : worker'[d] = worker[d]
  BY DEF OperatorInductive, OperatorRows
<1>2. \A d \in Reconcilers : SnapshotOK(worker[d])'
  <2> SUFFICES ASSUME NEW d \in Reconcilers PROVE SnapshotOK(worker[d])'
      OBVIOUS
  <2>1. PICK x : x = worker'[d]
    OBVIOUS
  <2>2. SnapshotOK(x)'
    <3>1. CASE d = c
      BY <1>1, <2>1, <3>1
    <3>2. CASE d # c
      <4>1. SnapshotOK(x)
        BY <1>1, <2>1, <3>2 DEF OperatorInductive
      <4> QED BY <4>1, KnownStays
    <3> QED BY <3>1, <3>2
  <2> QED BY <2>1, <2>2 DEF SnapshotOK
<1>3. RouteWorkOK(worker["route"])'
  <2>1. CASE c = "route"
    BY <1>1, <2>1 DEF RouteWorkOK
  <2>2. CASE c # "route"
    <3>1. worker'["route"] = worker["route"]
      BY <1>1, <2>2 DEF Reconcilers
    <3> QED BY <2>2, <3>1, RouteWorkStays
  <2> QED BY <2>1, <2>2
<1>4. OperatorRows'
  <2>1. worker'["deployment"] \in DeploymentWork \cup {IdleWork} /\ worker'["route"] \in RouteWork \cup {IdleWork}
    BY <1>1 DEF OperatorInductive, OperatorRows, Reconcilers
  <2>2. appliedEver' \subseteq Hashes /\ routeObjects' \in RouteRows
    BY DEF HashOK, RoutesOK
  <2> QED BY <1>1, <2>1, <2>2 DEF OperatorInductive, OperatorRows
<1>5. PolicyOK'
  BY DEF OperatorInductive, PolicyOK
<1> QED BY <1>2, <1>3, <1>4, <1>5 DEF OperatorInductive

\* A step of a worker that only changes what the worker holds.
LEMMA WorkerReads ==
    ASSUME OperatorInductive,
           UNCHANGED <<direct, next, policyObject, credentialSecret, deployment, routeObjects, ingresses, appliedEver>>,
           NEW c \in Reconcilers, NEW w, worker' = [worker EXCEPT ![c] = w],
           c = "deployment" => w \in DeploymentWork \cup {IdleWork},
           c = "route" => w \in RouteWork \cup {IdleWork} /\ RouteWorkOK(w),
           SnapshotOK(w)
    PROVE  OperatorInductive'
<1>1. SnapshotOK(w)' /\ \A h \in appliedEver' : HashOK(h)'
  BY KnownStays DEF OperatorInductive
<1>2. RouteWorkOK(w) => RouteWorkOK(w)'
  BY KnownStays DEF RouteWorkOK
<1>3. DeploymentOK(deployment)' /\ RoutesOK(routeObjects)'
  BY DEF OperatorInductive, DeploymentOK, RoutesOK
<1>4. \A r \in ModelRoutes : RouteOK(r)'
  BY DEF OperatorInductive, RouteOK
<1> QED BY <1>1, <1>2, <1>3, <1>4, WorkerMoves DEF OperatorInductive, OperatorRows

LEMMA BeginDeploymentKeeps ==
    ASSUME OperatorInductive, BeginDeployment
    PROVE  OperatorInductive'
<1>1. PICK w : w = [phase |-> "dep", rv |-> deployment.rv, dep |-> Unread, routes |-> Unread, hash |-> NoHash]
  OBVIOUS
<1>2. worker' = [worker EXCEPT !["deployment"] = w]
  BY <1>1 DEF BeginDeployment, WorkOn
<1>3. w \in DeploymentWork /\ w.phase = "dep"
  BY <1>1 DEF DeploymentWork, OperatorInductive, OperatorRows, DeploymentRow
<1>4. SnapshotOK(w)
  BY <1>3 DEF SnapshotOK
<1> QED BY <1>2, <1>3, <1>4, WorkerReads DEF BeginDeployment, crVars, Reconcilers

LEMMA BeginRouteKeeps ==
    ASSUME OperatorInductive, NEW r \in ModelRoutes, BeginRoute(r)
    PROVE  OperatorInductive'
<1>0. routeObjects[r] \in RouteRow /\ deployment \in DeploymentRow /\ DeploymentOK(deployment) /\ RouteOK(r)
  BY RouteFacts DEF OperatorInductive, OperatorRows
<1>1. PICK gone \in BOOLEAN, fin \in BOOLEAN : gone = routeObjects[r].deleting /\ fin = routeObjects[r].finalizer
  BY <1>0 DEF RouteRow
<1>2. PICK early \in SUBSET DeploymentRow : early = IF gone THEN {deployment} ELSE {}
  BY <1>0
<1>3. PICK w : w = [phase |-> "dep", route |-> r, deleting |-> gone, finalizer |-> fin, early |-> early,
                    dep |-> Unread, routes |-> Unread, hash |-> NoHash]
  OBVIOUS
<1>4. worker' = [worker EXCEPT !["route"] = w]
  BY <1>1, <1>2, <1>3 DEF BeginRoute, WorkOn
<1>5. w \in RouteWork /\ w.phase = "dep" /\ w.route = r /\ w.deleting = gone /\ w.finalizer = fin /\ w.early = early
  BY <1>3 DEF RouteWork
<1>6. SnapshotOK(w)
  BY <1>5 DEF SnapshotOK
<1>7. RouteWorkOK(w)
  <2>1. routeObjects[r].here
    BY DEF BeginRoute
  <2> QED BY <1>0, <1>1, <1>2, <1>5, <2>1 DEF RouteWorkOK, RouteOK
<1> QED BY <1>4, <1>5, <1>6, <1>7, WorkerReads DEF BeginRoute, crVars, Reconcilers

\* A worker under way, whichever it is.
LEMMA WorkFacts ==
    ASSUME OperatorInductive, NEW c \in Reconcilers, NEW w, w = worker[c], w.phase # "idle"
    PROVE  /\ c = "deployment" => w \in DeploymentWork
           /\ c = "route" => w \in RouteWork /\ RouteWorkOK(w)
           /\ SnapshotOK(w)
BY IdleFacts DEF OperatorInductive, OperatorRows, Reconcilers

LEMMA ReadDeploymentKeeps ==
    ASSUME OperatorInductive, NEW c \in Reconcilers, ReadDeployment(c)
    PROVE  OperatorInductive'
<1>1. PICK w : w = worker[c]
  OBVIOUS
<1>2. w.phase = "dep" /\ (c = "route" => ~NeedsFinalizer(w))
  BY <1>1 DEF ReadDeployment
<1>3. /\ c = "deployment" => w \in DeploymentWork
      /\ c = "route" => w \in RouteWork /\ RouteWorkOK(w)
  BY <1>1, <1>2, WorkFacts
<1>4. deployment \in DeploymentRow /\ DeploymentOK(deployment)
  BY DEF OperatorInductive, OperatorRows
<1>5. PICK half : half = [w EXCEPT !.phase = "routes"]
  OBVIOUS
<1>6. PICK new : new = [half EXCEPT !.dep = deployment]
  OBVIOUS
<1>7. worker' = [worker EXCEPT ![c] = new]
  BY <1>1, <1>5, <1>6 DEF ReadDeployment, WorkOn
<1>8. /\ c = "deployment" => half \in DeploymentWork /\ half.phase = "routes"
      /\ c = "route" =>
             /\ half \in RouteWork /\ half.phase = "routes"
             /\ half.route = w.route /\ half.deleting = w.deleting /\ half.finalizer = w.finalizer /\ half.early = w.early
  BY <1>3, <1>5 DEF DeploymentWork, RouteWork
<1>9. /\ c = "deployment" => new \in DeploymentWork /\ new.phase = "routes" /\ new.dep = deployment
      /\ c = "route" =>
             /\ new \in RouteWork /\ new.phase = "routes" /\ new.dep = deployment
             /\ new.route = w.route /\ new.deleting = w.deleting /\ new.finalizer = w.finalizer /\ new.early = w.early
  BY <1>4, <1>6, <1>8 DEF DeploymentWork, RouteWork
<1>10. SnapshotOK(new)
  BY <1>4, <1>9 DEF SnapshotOK, Reconcilers
<1>11. c = "route" => RouteWorkOK(new)
  BY <1>2, <1>3, <1>9 DEF RouteWorkOK, NeedsFinalizer
<1> QED BY <1>7, <1>9, <1>10, <1>11, WorkerReads DEF ReadDeployment, crVars

LEMMA ListRoutesKeeps ==
    ASSUME OperatorInductive, NEW c \in Reconcilers, ListRoutes(c)
    PROVE  OperatorInductive'
<1>1. PICK w : w = worker[c]
  OBVIOUS
<1>2. w.phase = "routes"
  BY <1>1 DEF ListRoutes
<1>3. /\ c = "deployment" => w \in DeploymentWork
      /\ c = "route" => w \in RouteWork /\ RouteWorkOK(w)
      /\ DeploymentOK(w.dep)
  BY <1>1, <1>2, WorkFacts DEF SnapshotOK
<1>4. routeObjects \in RouteRows /\ RoutesOK(routeObjects)
  BY DEF OperatorInductive, OperatorRows
<1>5. PICK half : half = [w EXCEPT !.phase = "policies"]
  OBVIOUS
<1>6. PICK new : new = [half EXCEPT !.routes = routeObjects]
  OBVIOUS
<1>7. worker' = [worker EXCEPT ![c] = new]
  BY <1>1, <1>5, <1>6 DEF ListRoutes, WorkOn
<1>8. /\ c = "deployment" => half \in DeploymentWork /\ half.phase = "policies" /\ half.dep = w.dep
      /\ c = "route" =>
             /\ half \in RouteWork /\ half.phase = "policies" /\ half.dep = w.dep
             /\ half.route = w.route /\ half.deleting = w.deleting /\ half.finalizer = w.finalizer /\ half.early = w.early
  BY <1>3, <1>5 DEF DeploymentWork, RouteWork
<1>9. /\ c = "deployment" => new \in DeploymentWork /\ new.phase = "policies" /\ new.dep = w.dep /\ new.routes = routeObjects
      /\ c = "route" =>
             /\ new \in RouteWork /\ new.phase = "policies" /\ new.dep = w.dep /\ new.routes = routeObjects
             /\ new.route = w.route /\ new.deleting = w.deleting /\ new.finalizer = w.finalizer /\ new.early = w.early
  BY <1>4, <1>6, <1>8 DEF DeploymentWork, RouteWork
<1>10. SnapshotOK(new)
  BY <1>3, <1>4, <1>9 DEF SnapshotOK, Reconcilers
<1>11. c = "route" => RouteWorkOK(new)
  BY <1>2, <1>3, <1>9 DEF RouteWorkOK
<1> QED BY <1>7, <1>9, <1>10, <1>11, WorkerReads DEF ListRoutes, crVars

\* What is rendered from a consistent snapshot is of one publication, and leaves
\* out the routes that were being deleted.
LEMMA HashIsOfOnePublication ==
    ASSUME OperatorInductive, NEW d, NEW rs, DeploymentOK(d), RoutesOK(rs), Consistent(d, rs, policyObject)
    PROVE  /\ HashOK(Hash(d, rs, policyObject))
           /\ \A r \in ModelRoutes : rs[r].deleting => r \notin DOMAIN Hash(d, rs, policyObject).routes
<1> DEFINE live == {q \in ModelRoutes : rs[q].here /\ ~rs[q].deleting}
           shown == [r \in live |-> rs[r].value]
           h == [dep |-> d.value, policy |-> policyObject.value, secret |-> credentialSecret, routes |-> shown]
<1>1. Hash(d, rs, policyObject) = h
  BY DEF Hash
<1>2. live \in SUBSET ModelRoutes /\ shown \in [live -> {"on", "off"}] /\ d.value \in Nat /\ d.mark \in Nat
      /\ policyObject.value \in Nat /\ credentialSecret \in {0, 1}
      /\ \A r \in ModelRoutes : rs[r].deleting => r \notin live
  BY DEF DeploymentOK, DeploymentRow, RoutesOK, RouteRows, RouteRow, OperatorInductive, OperatorRows
<1>3. ~direct => /\ Published(d.mark) /\ d.value = Publications[d.mark].dep
                 /\ policyObject.value = Publications[d.mark].policy
                 /\ shown = [r \in live |-> Publications[d.mark].routes[r]]
  BY DEF DeploymentOK, RoutesOK, OperatorInductive, PolicyOK, Consistent
<1>4. DOMAIN shown = live
  OBVIOUS
<1> HIDE DEF live, shown
<1>5. h \in Hashes
  BY <1>2 DEF Hashes
<1>6. ~direct => h \in Contents(d.mark) /\ d.mark \in 1 .. Len(Publications)
  <2> SUFFICES ASSUME ~direct PROVE h \in Contents(d.mark) /\ d.mark \in 1 .. Len(Publications)
      OBVIOUS
  <2>1. h = [dep |-> Publications[d.mark].dep, policy |-> Publications[d.mark].policy, secret |-> credentialSecret,
             routes |-> [r \in live |-> Publications[d.mark].routes[r]]]
    BY <1>3
  <2>2. h = Content(d.mark, credentialSecret, live)
    BY <2>1 DEF Content
  <2> HIDE DEF h
  <2>3. h \in Contents(d.mark)
    BY <1>2, <2>2 DEF Contents
  <2> QED BY <1>3, <2>3 DEF Published
<1>7. h.routes = shown
  OBVIOUS
<1> HIDE DEF h
<1> QED BY <1>1, <1>2, <1>4, <1>5, <1>6, <1>7 DEF HashOK

LEMMA RenderKeeps ==
    ASSUME OperatorInductive, NEW c \in Reconcilers, Render(c)
    PROVE  OperatorInductive'
<1>1. PICK w : w = worker[c]
  OBVIOUS
<1>2. w.phase = "policies"
  BY <1>1 DEF Render
<1>3. /\ c = "deployment" => w \in DeploymentWork
      /\ c = "route" => w \in RouteWork /\ RouteWorkOK(w)
      /\ DeploymentOK(w.dep) /\ RoutesOK(w.routes)
  BY <1>1, <1>2, WorkFacts DEF SnapshotOK
<1>4. PICK ok \in BOOLEAN : ok <=> Consistent(w.dep, w.routes, policyObject)
  OBVIOUS
<1>5. PICK hash : hash = IF ok THEN Hash(w.dep, w.routes, policyObject) ELSE NoHash
  OBVIOUS
<1>6. hash \in Hashes \cup {NoHash} /\ (ok => HashOK(hash) /\ \A r \in ModelRoutes : w.routes[r].deleting => r \notin DOMAIN hash.routes)
  BY <1>3, <1>4, <1>5, HashIsOfOnePublication DEF HashOK
<1>7. PICK half : half = [w EXCEPT !.phase = IF ok THEN "apply" ELSE "failed"]
  OBVIOUS
<1>8. PICK full : full = [half EXCEPT !.routes = Unread]
  OBVIOUS
<1>9. PICK new : new = [full EXCEPT !.hash = hash]
  OBVIOUS
<1>10. worker' = [worker EXCEPT ![c] = new]
  BY <1>1, <1>4, <1>5, <1>7, <1>8, <1>9 DEF Render, WorkOn
<1> DEFINE phase == IF ok THEN "apply" ELSE "failed"
<1>11. /\ c = "deployment" => half \in DeploymentWork /\ half.phase = phase /\ half.dep = w.dep
       /\ c = "route" =>
             /\ half \in RouteWork /\ half.phase = phase /\ half.dep = w.dep
             /\ half.route = w.route /\ half.deleting = w.deleting /\ half.finalizer = w.finalizer /\ half.early = w.early
  BY <1>3, <1>7 DEF DeploymentWork, RouteWork
<1>p. phase = IF ok THEN "apply" ELSE "failed"
  OBVIOUS
<1> HIDE DEF phase
<1>12. /\ c = "deployment" => full \in DeploymentWork /\ full.phase = phase /\ full.dep = w.dep
       /\ c = "route" =>
             /\ full \in RouteWork /\ full.phase = phase /\ full.dep = w.dep
             /\ full.route = w.route /\ full.deleting = w.deleting /\ full.finalizer = w.finalizer /\ full.early = w.early
  BY <1>8, <1>11 DEF DeploymentWork, RouteWork
<1>13. /\ c = "deployment" => new \in DeploymentWork /\ new.phase = phase /\ new.dep = w.dep /\ new.hash = hash
       /\ c = "route" =>
             /\ new \in RouteWork /\ new.phase = phase /\ new.dep = w.dep /\ new.hash = hash
             /\ new.route = w.route /\ new.deleting = w.deleting /\ new.finalizer = w.finalizer /\ new.early = w.early
  BY <1>6, <1>9, <1>12 DEF DeploymentWork, RouteWork
<1>14. SnapshotOK(new)
  BY <1>3, <1>6, <1>p, <1>13 DEF SnapshotOK, Reconcilers
<1>15. c = "route" => RouteWorkOK(new)
  <2>1. c = "route" => w.route \in ModelRoutes
    BY <1>3 DEF RouteWork
  <2> QED BY <1>2, <1>3, <1>6, <1>p, <1>13, <2>1 DEF RouteWorkOK
<1> QED BY <1>10, <1>13, <1>14, <1>15, WorkerReads DEF Render, crVars

LEMMA ApplyAggregateKeeps ==
    ASSUME OperatorInductive, NEW ok \in BOOLEAN, ApplyAggregate(ok)
    PROVE  OperatorInductive'
<1>1. PICK w : w = worker["deployment"]
  OBVIOUS
<1>2. w.phase = "apply"
  BY <1>1 DEF ApplyAggregate
<1>3. w \in DeploymentWork /\ DeploymentOK(w.dep) /\ HashOK(w.hash)
  BY <1>1, <1>2, WorkFacts DEF SnapshotOK, Reconcilers
<1>4. PICK new : new = [w EXCEPT !.phase = IF ok THEN "status" ELSE "failed"]
  OBVIOUS
<1>5. worker' = [worker EXCEPT !["deployment"] = new]
  BY <1>1, <1>4 DEF ApplyAggregate, WorkOn
<1>6. new \in DeploymentWork /\ new.phase = (IF ok THEN "status" ELSE "failed") /\ new.dep = w.dep /\ new.hash = w.hash
  BY <1>3, <1>4 DEF DeploymentWork
<1>8. /\ UNCHANGED <<direct, next, policyObject, credentialSecret, deployment, routeObjects, ingresses>>
      /\ appliedEver \subseteq appliedEver' /\ appliedEver' \subseteq appliedEver \cup {w.hash}
      /\ ok => w.hash \in appliedEver'
  BY <1>1 DEF ApplyAggregate, crVars
<1>9. SnapshotOK(new)' /\ \A h \in appliedEver' : HashOK(h)'
  <2>1. DeploymentOK(w.dep)'
    BY <1>3, <1>8, KnownStays
  <2>2. SnapshotOK(new)'
    BY <1>6, <1>8, <2>1 DEF SnapshotOK
  <2> QED BY <1>3, <1>8, <2>2, KnownStays DEF OperatorInductive
<1>10. DeploymentOK(deployment)' /\ RoutesOK(routeObjects)'
  BY <1>8 DEF OperatorInductive, DeploymentOK, RoutesOK
<1>11. \A r \in ModelRoutes : RouteOK(r)'
  BY <1>8 DEF OperatorInductive, RouteOK
<1> QED BY <1>5, <1>6, <1>8, <1>9, <1>10, <1>11, WorkerMoves DEF OperatorInductive, OperatorRows, Reconcilers

LEMMA DeploymentStatusKeeps ==
    ASSUME OperatorInductive, DeploymentStatus
    PROVE  OperatorInductive'
<1>0. deployment \in DeploymentRow /\ DeploymentOK(deployment) /\ deployment.mark <= next /\ next \in Nat
  BY NextFacts DEF OperatorInductive, OperatorRows
<1>1. PICK w : w = worker["deployment"]
  OBVIOUS
<1>2. w.phase \in {"status", "failed"}
  BY <1>1 DEF DeploymentStatus
<1>3. w \in DeploymentWork /\ (w.phase = "status" => w.hash \in appliedEver)
  BY <1>1, <1>2, WorkFacts DEF SnapshotOK, Reconcilers
<1>4. PICK ok \in BOOLEAN : ok <=> w.phase = "status"
  OBVIOUS
<1>5. PICK snapshot \in Hashes \cup {NoHash} : snapshot = (IF ok THEN w.hash ELSE deployment.snapshot) /\ (ok => snapshot \in appliedEver)
  BY <1>0, <1>3, <1>4 DEF DeploymentRow, OperatorInductive, OperatorRows
<1>6. PICK half : half = [deployment EXCEPT !.applied = ok]
  OBVIOUS
<1>7. PICK full : full = [half EXCEPT !.snapshot = snapshot]
  OBVIOUS
<1>8. PICK new : new = [full EXCEPT !.rv = full.rv + 1]
  OBVIOUS
<1>9. deployment' \in {deployment, new}
  BY <1>1, <1>4, <1>5, <1>6, <1>7, <1>8 DEF DeploymentStatus
<1>10. half \in DeploymentRow /\ half.applied = ok /\ half.mark = deployment.mark /\ half.value = deployment.value
  BY <1>0, <1>6 DEF DeploymentRow
<1>11. full \in DeploymentRow /\ full.applied = ok /\ full.snapshot = snapshot
       /\ full.mark = deployment.mark /\ full.value = deployment.value
  BY <1>7, <1>10 DEF DeploymentRow
<1>12. new \in DeploymentRow /\ new.applied = ok /\ new.snapshot = snapshot
       /\ new.mark = deployment.mark /\ new.value = deployment.value
  BY <1>8, <1>11 DEF DeploymentRow
<1>13. DeploymentOK(new) /\ DeploymentOK(deployment)
  BY <1>0, <1>5, <1>12 DEF DeploymentOK
<1>14. /\ UNCHANGED <<direct, next, policyObject, credentialSecret, routeObjects, ingresses, appliedEver>>
       /\ worker' = [worker EXCEPT !["deployment"] = IdleWork]
  BY DEF DeploymentStatus, WorkOn, crVars
<1>15. /\ deployment' \in DeploymentRow /\ deployment'.mark <= next /\ DeploymentOK(deployment)'
  BY <1>0, <1>9, <1>12, <1>13, <1>14 DEF DeploymentOK
<1>16. /\ RoutesOK(routeObjects)'
       /\ \A h \in appliedEver' : HashOK(h)'
       /\ \A r \in ModelRoutes : RouteOK(r)'
  BY <1>14, KnownStays DEF OperatorInductive, RoutesOK, RouteOK
<1>17. PICK idle : idle = IdleWork /\ SnapshotOK(idle)'
  BY IdleFacts DEF SnapshotOK
<1> QED BY <1>14, <1>15, <1>16, <1>17, WorkerMoves DEF OperatorInductive, OperatorRows, Reconcilers

\* The route worker is done: only its route's object and ingress may have changed.
LEMMA RouteWorkerEnds ==
    ASSUME OperatorInductive, UNCHANGED <<direct, next, policyObject, credentialSecret, deployment, appliedEver>>,
           worker' = [worker EXCEPT !["route"] = IdleWork],
           RoutesOK(routeObjects)', ingresses' \in [ModelRoutes -> Hashes \cup {NoHash}],
           \A r \in ModelRoutes : RouteOK(r)'
    PROVE  OperatorInductive'
<1>1. PICK idle : idle = IdleWork /\ SnapshotOK(idle)' /\ RouteWorkOK(idle)'
  BY IdleFacts DEF SnapshotOK, RouteWorkOK
<1>2. DeploymentOK(deployment)' /\ \A h \in appliedEver' : HashOK(h)'
  BY KnownStays DEF OperatorInductive, DeploymentOK
<1> QED BY <1>1, <1>2, WorkerMoves DEF OperatorInductive, OperatorRows, Reconcilers

LEMMA EnsureFinalizerKeeps ==
    ASSUME OperatorInductive, EnsureFinalizer
    PROVE  OperatorInductive'
<1>1. PICK w : w = worker["route"]
  OBVIOUS
<1>2. w \in RouteWork /\ w.phase = "dep"
  BY <1>1, WorkFacts DEF EnsureFinalizer, Reconcilers
<1>3. PICK r \in ModelRoutes : r = w.route
  BY <1>2 DEF RouteWork
<1>4. routeObjects \in RouteRows /\ routeObjects[r] \in RouteRow /\ RoutesOK(routeObjects) /\ \A q \in ModelRoutes : RouteOK(q)
  BY RouteFacts DEF OperatorInductive
<1>5. PICK b \in BOOLEAN : b <=> routeObjects[r].finalizer \/ routeObjects[r].here
  OBVIOUS
<1>b. b = (routeObjects[r].finalizer \/ routeObjects[r].here)
  BY <1>4, <1>5 DEF RouteRow
<1>6. PICK row : row = [routeObjects[r] EXCEPT !.finalizer = b]
  OBVIOUS
<1>7. routeObjects' = [routeObjects EXCEPT ![r] = row]
  BY <1>1, <1>3, <1>4, <1>b, <1>6 DEF EnsureFinalizer, RouteRows
<1>8. /\ row \in RouteRow /\ row.here = routeObjects[r].here /\ row.mark = routeObjects[r].mark
      /\ row.value = routeObjects[r].value /\ row.finalizer = b
  BY <1>4, <1>6 DEF RouteRow
<1>9. /\ routeObjects' \in RouteRows /\ routeObjects'[r] = row
      /\ \A q \in ModelRoutes \ {r} : routeObjects'[q] = routeObjects[q]
  BY <1>4, <1>7, <1>8, RouteSet
<1>10. /\ UNCHANGED <<direct, next, policyObject, credentialSecret, deployment, appliedEver, ingresses>>
       /\ worker' = [worker EXCEPT !["route"] = IdleWork]
  BY DEF EnsureFinalizer, WorkOn, crVars
<1>11. RoutesOK(routeObjects)'
  BY <1>4, <1>8, <1>9, <1>10 DEF RoutesOK
<1>12. \A q \in ModelRoutes : RouteOK(q)'
  BY <1>4, <1>5, <1>8, <1>9, <1>10 DEF RouteOK
<1> QED BY <1>10, <1>11, <1>12, RouteWorkerEnds DEF OperatorInductive, OperatorRows

LEMMA WithdrawIngressKeeps ==
    ASSUME OperatorInductive, WithdrawIngress
    PROVE  OperatorInductive'
<1>1. /\ UNCHANGED <<direct, next, policyObject, credentialSecret, deployment, appliedEver, routeObjects>>
      /\ worker' = [worker EXCEPT !["route"] = IdleWork]
      /\ ingresses' \in {ingresses, [ingresses EXCEPT ![worker["route"].route] = NoHash]}
  BY DEF WithdrawIngress, WorkOn, crVars
<1>2. ingresses \in [ModelRoutes -> Hashes \cup {NoHash}]
  BY DEF OperatorInductive, OperatorRows
<1>3. /\ ingresses' \in [ModelRoutes -> Hashes \cup {NoHash}]
      /\ \A q \in ModelRoutes : ingresses'[q] \in {ingresses[q], NoHash}
  BY <1>1, <1>2
<1>4. RoutesOK(routeObjects)'
  BY <1>1 DEF OperatorInductive, RoutesOK
<1>5. \A q \in ModelRoutes : RouteOK(q)'
  BY <1>1, <1>3 DEF OperatorInductive, RouteOK
<1> QED BY <1>1, <1>3, <1>4, <1>5, RouteWorkerEnds

\* The aggregate that a finished route follows has been applied.
LEMMA MatchedIsApplied ==
    ASSUME OperatorInductive, NEW w, w = worker["route"], w.phase = "apply", AggregateMatches(w)
    PROVE  /\ w \in RouteWork /\ RouteWorkOK(w) /\ w.hash \in appliedEver /\ w.hash \in Hashes
<1>1. w \in RouteWork /\ RouteWorkOK(w) /\ DeploymentOK(w.dep) /\ HashOK(w.hash)
  BY WorkFacts DEF SnapshotOK, Reconcilers
<1>2. PICK d : DeploymentOK(d) /\ d.applied /\ d.snapshot = w.hash
  <2>1. CASE w.deleting
    BY <1>1, <2>1 DEF AggregateMatches, RouteWorkOK
  <2>2. CASE ~w.deleting
    BY <1>1, <2>2 DEF AggregateMatches
  <2> QED BY <2>1, <2>2
<1> QED BY <1>1, <1>2 DEF DeploymentOK, HashOK

LEMMA ApplyIngressKeeps ==
    ASSUME OperatorInductive, ApplyIngress
    PROVE  OperatorInductive'
<1>1. PICK w : w = worker["route"]
  OBVIOUS
<1>2. w.phase = "apply" /\ AggregateMatches(w) /\ ~w.deleting
  BY <1>1 DEF ApplyIngress
<1>3. w \in RouteWork /\ RouteWorkOK(w) /\ w.hash \in appliedEver /\ w.hash \in Hashes
  BY <1>1, <1>2, MatchedIsApplied
<1>4. PICK r \in ModelRoutes : r = w.route
  BY <1>3 DEF RouteWork
<1>5. PICK hash : hash = IF Serves(w.hash, r) THEN w.hash ELSE NoHash
  OBVIOUS
<1>6. /\ UNCHANGED <<direct, next, policyObject, credentialSecret, deployment, appliedEver, routeObjects>>
      /\ worker' = [worker EXCEPT !["route"] = IdleWork]
      /\ ingresses' = [ingresses EXCEPT ![r] = hash]
  BY <1>1, <1>4, <1>5 DEF ApplyIngress, WorkOn, crVars
<1>7. ingresses \in [ModelRoutes -> Hashes \cup {NoHash}]
  BY DEF OperatorInductive, OperatorRows
<1>8. /\ ingresses' \in [ModelRoutes -> Hashes \cup {NoHash}] /\ ingresses'[r] = hash
      /\ \A q \in ModelRoutes \ {r} : ingresses'[q] = ingresses[q]
  BY <1>3, <1>5, <1>6, <1>7
<1>9. RoutesOK(routeObjects)'
  BY <1>6 DEF OperatorInductive, RoutesOK
<1>10. routeObjects[r].here /\ routeObjects[r].finalizer
  BY <1>2, <1>3, <1>4 DEF RouteWorkOK
<1>11. \A q \in ModelRoutes : RouteOK(q)'
  BY <1>3, <1>5, <1>6, <1>8, <1>10 DEF OperatorInductive, RouteOK
<1> QED BY <1>6, <1>8, <1>9, <1>11, RouteWorkerEnds

LEMMA FinalizeKeeps ==
    ASSUME OperatorInductive, Finalize
    PROVE  OperatorInductive'
<1>1. PICK w : w = worker["route"]
  OBVIOUS
<1>2. w.phase = "apply" /\ AggregateMatches(w) /\ w.deleting
  BY <1>1 DEF Finalize
<1>3. w \in RouteWork /\ RouteWorkOK(w) /\ w.hash \in appliedEver /\ w.hash \in Hashes
  BY <1>1, <1>2, MatchedIsApplied
<1>4. PICK r \in ModelRoutes : r = w.route
  BY <1>3 DEF RouteWork
<1>5. routeObjects \in RouteRows /\ routeObjects[r] \in RouteRow /\ RoutesOK(routeObjects) /\ \A q \in ModelRoutes : RouteOK(q)
  BY RouteFacts DEF OperatorInductive
<1>6. PICK row : row = [routeObjects[r] EXCEPT !.here = FALSE]
  OBVIOUS
<1>7. /\ UNCHANGED <<direct, next, policyObject, credentialSecret, deployment, appliedEver>>
      /\ worker' = [worker EXCEPT !["route"] = IdleWork]
      /\ ingresses' = [ingresses EXCEPT ![r] = NoHash]
      /\ routeObjects' = [routeObjects EXCEPT ![r] = row]
  BY <1>1, <1>4, <1>5, <1>6 DEF Finalize, WorkOn, crVars, RouteRows
<1>8. row \in RouteRow /\ ~row.here /\ row.mark = routeObjects[r].mark /\ row.value = routeObjects[r].value
  BY <1>5, <1>6 DEF RouteRow
<1>9. /\ routeObjects' \in RouteRows /\ routeObjects'[r] = row
      /\ \A q \in ModelRoutes \ {r} : routeObjects'[q] = routeObjects[q]
  BY <1>5, <1>7, <1>8, RouteSet
<1>10. ingresses \in [ModelRoutes -> Hashes \cup {NoHash}]
  BY DEF OperatorInductive, OperatorRows
<1>11. /\ ingresses' \in [ModelRoutes -> Hashes \cup {NoHash}] /\ ingresses'[r] = NoHash
       /\ \A q \in ModelRoutes \ {r} : ingresses'[q] = ingresses[q]
  BY <1>7, <1>10
<1>12. RoutesOK(routeObjects)'
  BY <1>5, <1>7, <1>8, <1>9 DEF RoutesOK
<1>13. r \notin DOMAIN w.hash.routes
  BY <1>2, <1>3, <1>4 DEF RouteWorkOK
<1>14. \A q \in ModelRoutes : RouteOK(q)'
  BY <1>3, <1>5, <1>7, <1>8, <1>9, <1>11, <1>13 DEF RouteOK
<1> QED BY <1>7, <1>11, <1>12, <1>14, RouteWorkerEnds

LEMMA OperatorStep == OperatorInductive /\ [OperatorNext]_operatorVars => OperatorInductive'
<1> SUFFICES ASSUME OperatorInductive, [OperatorNext]_operatorVars
             PROVE  OperatorInductive'
    OBVIOUS
<1>1. CASE Environment
  BY <1>1, OtherRelayKeeps, RelayRouteKeeps, AdministratorKeeps DEF Environment
<1>2. CASE ApplyAggregate(FALSE)
  BY <1>2, ApplyAggregateKeeps
<1>3. CASE \E c \in Reconcilers : ReconcileStep(c)
  <2>1. PICK c \in Reconcilers : ReconcileStep(c)
    BY <1>3
  <2>2. CASE ReadDeployment(c) \/ ListRoutes(c) \/ Render(c)
    BY <2>2, ReadDeploymentKeeps, ListRoutesKeeps, RenderKeeps
  <2>3. CASE ApplyAggregate(TRUE) \/ DeploymentStatus
    BY <2>3, ApplyAggregateKeeps, DeploymentStatusKeeps
  <2>4. CASE EnsureFinalizer \/ WithdrawIngress \/ ApplyIngress \/ Finalize
    BY <2>4, EnsureFinalizerKeeps, WithdrawIngressKeeps, ApplyIngressKeeps, FinalizeKeeps
  <2> QED BY <2>1, <2>2, <2>3, <2>4 DEF ReconcileStep
<1>4. CASE BeginDeployment
  BY <1>4, BeginDeploymentKeeps
<1>5. CASE \E r \in ModelRoutes : BeginRoute(r)
  BY <1>5, BeginRouteKeeps
<1>6. CASE UNCHANGED operatorVars
  <2>1. UNCHANGED <<direct, next, policyObject, credentialSecret, deployment, routeObjects, ingresses, appliedEver, worker>>
    BY <1>6 DEF operatorVars
  <2>2. OperatorRows' /\ (deployment.mark <= next)'
    BY <2>1 DEF OperatorInductive, OperatorRows
  <2>3. DeploymentOK(deployment)' /\ RoutesOK(routeObjects)' /\ PolicyOK'
    BY <2>1 DEF OperatorInductive, DeploymentOK, RoutesOK, PolicyOK
  <2>4. (\A h \in appliedEver : HashOK(h))' /\ (\A c \in Reconcilers : SnapshotOK(worker[c]))'
    BY <2>1 DEF OperatorInductive, DeploymentOK, RoutesOK, HashOK, SnapshotOK
  <2>5. RouteWorkOK(worker["route"])'
    BY <2>1 DEF OperatorInductive, DeploymentOK, RouteWorkOK
  <2>6. (\A r \in ModelRoutes : RouteOK(r))'
    BY <2>1 DEF OperatorInductive, RouteOK
  <2> QED BY <2>2, <2>3, <2>4, <2>5, <2>6 DEF OperatorInductive
<1> QED BY <1>1, <1>2, <1>3, <1>4, <1>5, <1>6 DEF OperatorNext

\* The operator: whatever is applied renders the content of one publication, an
\* ingress follows an aggregate that was applied, and a route goes only after one
\* without it (Runtime.snapshot, consistentPublication and reconcileApplied).
THEOREM OperatorAppliesOnePublication == OperatorSpec => []OperatorInvariant
<1>1. OperatorSpec => []OperatorInductive
  BY OperatorStarts, OperatorStep, PTL DEF OperatorSpec
<1> QED BY <1>1, OperatorInductiveIsEnough, PTL
==============================================================================
