----------------------------- MODULE MCResources -----------------------------
(***************************************************************************)
(* What the deployment hands to people, to agents and to the gateway, part *)
(* by part: a behaviour is one of delegated role and team writes, agents   *)
(* and their data scope, asset executions, skills, control deliveries at   *)
(* the client, published secrets, cached credentials, the gateway          *)
(* operator or the evidence about the gateway fleet; the others rest.      *)
(***************************************************************************)
EXTENDS RoleDelegation, AgentDirectory, AssetExecution, SkillSync, ControlInbox,
        SecretPublisher, CredentialCache, GatewayOperator, FleetEvidence, TLC

VARIABLE part

ASSUME FirstAssumption ==
    /\ {"roles.write", "users.write", "teams.write", "audit.read"} \subseteq Permissions
    /\ {"lead", "spare"} \subseteq Roles /\ {"a", "b"} \subseteq Teams

\* An administrator, a delegate and a person who may become a member.
FirstRoles ==
    [r \in Roles |->
        CASE r = "lead"  -> [here |-> TRUE, enabled |-> TRUE, perms |-> {"roles.write", "users.write", "teams.write"}]
          [] r = "spare" -> [here |-> TRUE, enabled |-> TRUE, perms |-> {"audit.read"}]
          [] r = "owner" -> [here |-> TRUE, enabled |-> TRUE, perms |-> Permissions]
          [] OTHER       -> NoRoleRow]
FirstTeams ==
    [t \in Teams |-> IF t = "a" THEN [here |-> TRUE, enabled |-> FALSE, defaults |-> {"spare"}]
                                ELSE [here |-> TRUE, enabled |-> TRUE, defaults |-> {}]]
FirstMembers ==
    [u \in People |-> CASE u = "root" -> [here |-> TRUE, roles |-> {}, teams |-> {}]
                        [] u = "del"  -> [here |-> TRUE, roles |-> {"lead"}, teams |-> {"a", "b"}]
                        [] OTHER      -> NoMember]

ResourcesInit ==
    /\ part \in {"delegation", "agents", "assets", "skills", "inbox", "secrets", "cache",
                 "operator", "fleet"}
    /\ DelegationStart(FirstRoles, FirstTeams, FirstMembers)
    /\ AgentInit /\ AssetsInit /\ SyncInit /\ InboxInit /\ PublisherInit /\ CacheInit
    /\ OperatorInit /\ FleetInit
    /\ part # "operator" => direct = CHOOSE d \in DirectModes : TRUE
    /\ part # "fleet" => wanted = CHOOSE s \in Snapshots : TRUE

\* Assets use SSH material, the publisher and the client API keys; the cache is
\* checked with one more edit than the others.
Only(some) == \A c \in Creds \ some : ~cred'[c].here
FewerEdits == secretEdits' < MaxSecretEdits

\* New agents are interchangeable: each creator makes one of its own, and one of
\* the two only makes residents.
AgentOf   == CHOOSE f \in [Creators -> AgentIds \ FirstResidents] : \A c, d \in Creators : f[c] = f[d] => c = d
Copier    == CHOOSE c \in Creators : TRUE
OwnAgents == \A c \in Creators : making'[c] = NoMaking \/
                 (making'[c].agent = AgentOf[c] /\ (c = Copier \/ ~making'[c].ephemeral))

\* A credential is rotated, a write fails, an object is edited or deleted, one of them.
Deleted == {r \in ModelRoutes : routeObjects'[r].deleting}
OneDisturbance == rotations' + applyFailures' + directEdits' + Cardinality(Deleted) <= 1

skillVars   == <<registryVars, syncVars>>
gatewayVars == <<operatorVars, fleetVars>>

ResourcesNext ==
    /\ UNCHANGED part
    /\ \/ /\ part = "delegation" /\ DelegationNext
          /\ UNCHANGED <<agentVars, assetVars, skillVars, inboxVars, publisherVars, cacheVars, credentialVars,
                         gatewayVars>>
       \/ /\ part = "agents" /\ AgentNext /\ OwnAgents
          /\ UNCHANGED <<delegationVars, assetVars, skillVars, inboxVars, publisherVars, cacheVars, credentialVars,
                         gatewayVars>>
       \/ /\ part = "assets" /\ AssetNext /\ Only(Creds \ ApiKeys) /\ FewerEdits
          /\ UNCHANGED <<delegationVars, agentVars, skillVars, inboxVars, publisherVars, cacheVars, gatewayVars>>
       \/ /\ part = "skills" /\ SyncNext
          /\ UNCHANGED <<delegationVars, agentVars, assetVars, inboxVars, publisherVars, cacheVars, credentialVars,
                         gatewayVars>>
       \/ /\ part = "inbox" /\ InboxNext
          /\ UNCHANGED <<delegationVars, agentVars, assetVars, skillVars, publisherVars, cacheVars, credentialVars,
                         gatewayVars>>
       \/ /\ part = "secrets" /\ PublisherNext /\ Only(ApiKeys) /\ FewerEdits
          /\ UNCHANGED <<delegationVars, agentVars, assetVars, skillVars, inboxVars, cacheVars, gatewayVars>>
       \/ /\ part = "cache" /\ CacheNext /\ Only(ApiKeys)
          /\ UNCHANGED <<delegationVars, agentVars, assetVars, skillVars, inboxVars, publisherVars, gatewayVars>>
       \/ /\ UNCHANGED <<delegationVars, agentVars, assetVars, skillVars, inboxVars, publisherVars, cacheVars,
                         credentialVars>>
          /\ \/ part = "operator" /\ OperatorNext /\ OneDisturbance /\ UNCHANGED fleetVars
             \/ part = "fleet" /\ FleetNext /\ UNCHANGED operatorVars

ResourcesSpec ==
    /\ ResourcesInit
    /\ [][ResourcesNext]_<<part, delegationVars, agentVars, assetVars, skillVars, inboxVars, publisherVars,
                           cacheVars, credentialVars, gatewayVars>>

-----------------------------------------------------------------------------
(* The credential rows have their types; a publisher that is ready has     *)
(* delivered them; the client uses material of the current revision.       *)
CredentialInvariant == CredentialsTypeOK /\ ReadyMeansDelivered /\ UsesAreFresh

(* What no step of these parts may do: let a delegate give what it does    *)
(* not hold, change a recorded success, lose telemetry, touch a Secret of  *)
(* another owner, or issue evidence of a fleet that did not match.         *)
ResourceSteps ==
    /\ DelegatesGiveWhatTheyHold
    /\ SuccessIsImmutable /\ TelemetryIsNotLost
    /\ ForeignSecretsUntouched
    /\ EvidenceIsReal /\ []FleetTypeOK

-----------------------------------------------------------------------------
(* Values of constants. *)

\* The requests of the delegate differ in nothing but their names, nor do patches.
RequestSymmetry == Permutations(Requests) \cup Permutations(Patches)

\* One field at a time: switched on or off, or replaced.
MCRoleUpdates == {<<{TRUE}, {}>>, <<{FALSE}, {}>>} \cup {<<{}, {ps}>> : ps \in PermissionSets}
MCTeamUpdates == {<<{TRUE}, {}>>} \cup {<<{}, {rs}>> : rs \in RoleSets}

\* a over b over c.
MCParentOf == [t \in Departments |-> CASE t = "b" -> "a" [] t = "c" -> "b" [] OTHER -> Top]

Rule(kind, subject, team) ==
    [kind |-> kind, subject |-> subject, team |-> team, window |-> "open", frozen |-> FALSE]

MCFirstRules == {Rule("explicit_deny", <<"user", "u">>, "c")}
MCRuleInputs == {Rule("exception_grant", <<"user", "u">>, "b"), Rule("explicit_deny", <<"team", "b">>, "c")}

\* A resident agent of team c and an ephemeral one that copies u.
MCAgentInputs == {[ephemeral |-> FALSE, teams |-> {"c"}, from |-> Nobody],
                  [ephemeral |-> TRUE, teams |-> {"b"}, from |-> "u"]}

Publication(dep, policy, content) ==
    [dep |-> dep, policy |-> policy, routes |-> [r \in ModelRoutes |-> content]]

\* A publication that switches the route on.
MCSwitchedOn == <<Publication(1, 1, "off"), Publication(2, 2, "on")>>

\* One route replaced by the other, with another plugin.
MCSnapshots ==
    {[routes |-> {"a"}, forbidden |-> {"b"}, plugin |-> 1],
     [routes |-> {"b"}, forbidden |-> {"a"}, plugin |-> 2]}
=============================================================================
