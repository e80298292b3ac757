--------------------------- MODULE RoleDelegation ---------------------------
(***************************************************************************)
(* Roles, teams and who may hand them out (control-service                 *)
(* httpapi/rbac_handlers.go, admin_users.go, server.go, repository/rbac.go,*)
(* repository/identity.go).                                                *)
(*                                                                         *)
(* Administrators may do everything. Any other user manages roles, teams   *)
(* and memberships as a delegate, with the permissions of the roles it     *)
(* holds, and must not hand out what it does not hold. A request is        *)
(* authorised by reads of its own and committed by a later transaction:    *)
(* other requests commit in between. Where a team stands in the hierarchy, *)
(* and the grants that name a role or a team, are in SubjectGrants. No     *)
(* team is built in here: a built-in one is never deleted.                 *)
(***************************************************************************)
EXTENDS Naturals

CONSTANTS
    People,          \* user accounts, whether created or not
    Administrators,  \* those with is_admin
    Roles,
    BuiltIn,         \* the built-in roles
    Teams,
    Permissions,
    PermissionSets,  \* the permissions a request may ask for
    RoleUpdates,     \* the <<enabled, perms>> an update may carry
    RoleSets,        \* the roles a request may ask for
    TeamUpdates,     \* the <<enabled, defaults>> an update may carry
    TeamSets,        \* the teams a request may ask for
    Requests,
    MaxCommits       \* bound on the transactions that commit

\* An optional field of a request: the set of its value, empty when left out.
Optional(S) == {{}} \cup {{x} : x \in S}
Given(new, old) == IF new = {} THEN old ELSE CHOOSE x \in new : TRUE

ASSUME DelegationAssumption ==
    /\ Administrators \subseteq People
    /\ BuiltIn \subseteq Roles
    /\ PermissionSets \subseteq SUBSET Permissions
    /\ RoleUpdates \subseteq Optional(BOOLEAN) \X Optional(SUBSET Permissions)
    /\ TeamUpdates \subseteq Optional(BOOLEAN) \X Optional(SUBSET Roles)
    /\ RoleSets \subseteq SUBSET Roles
    /\ TeamSets \subseteq SUBSET Teams
    /\ MaxCommits \in Nat

VARIABLES
    roles,    \* [here, enabled, perms] by role
    teams,    \* [here, enabled, defaults] by team
    members,  \* [here, roles, teams] by user
    calls,    \* the requests that are authorised and not committed
    given,    \* auxiliary: the permissions administrators have handed out
    commits   \* how many transactions have committed

delegationVars == <<roles, teams, members, calls, given, commits>>

NoRoleRow == [here |-> FALSE, enabled |-> FALSE, perms |-> {}]
NoTeamRow == [here |-> FALSE, enabled |-> FALSE, defaults |-> {}]
NoMember  == [here |-> FALSE, roles |-> {}, teams |-> {}]
NoCall    == [kind |-> "none"]

-----------------------------------------------------------------------------
(* What a user holds. *)

\* The view user_effective_roles, in any contents of the tables.
RolesHeld(rs, ts, m) ==
    {r \in Roles : /\ rs[r].here /\ rs[r].enabled
                   /\ r \in m.roles \/ \E t \in m.teams : ts[t].enabled /\ r \in ts[t].defaults}

PermissionsHeld(rs, ts, m) == UNION {rs[r].perms : r \in RolesHeld(rs, ts, m)}

\* UserPermissionIDs.
UserPermissionIDs(u) == PermissionsHeld(roles, teams, members[u])

Admin(u) == u \in Administrators

\* requiredAdminPermission.
RequiredAdminPermission(kind) ==
    CASE kind \in {"createRole", "updateRole", "deleteRole"} -> "roles.write"
      [] kind \in {"createTeam", "updateTeam", "deleteTeam"} -> "teams.write"
      [] OTHER                                               -> "users.write"

\* requireAdmin: what a request needs to reach its handler.
RequireAdmin(u, kind) ==
    members[u].here /\ (Admin(u) \/ RequiredAdminPermission(kind) \in UserPermissionIDs(u))

\* Mutant: whoever may write roles may write any permission.
AnyPermission(u, perms) == TRUE

\* authorizeDelegatedPermissions, permissionSubset.
AuthorizeDelegatedPermissions(u, perms) == Admin(u) \/ perms \subseteq UserPermissionIDs(u)

\* authorizeRoleGrant and roleGrantAllowed: a role that is not found is skipped.
AuthorizeRoleGrant(u, rs) ==
    \/ Admin(u)
    \/ \A r \in {x \in rs : roles[x].here} :
           r \notin BuiltIn /\ roles[r].perms \subseteq UserPermissionIDs(u)

\* authorizeTeamGrant and teamGrantAllowed.
AuthorizeTeamGrant(u, ts) ==
    \/ Admin(u)
    \/ \A t \in ts : t \in members[u].teams /\ AuthorizeRoleGrant(u, teams[t].defaults)

\* authorizeTeamDefaults.
AuthorizeTeamDefaults(u, defaults) == \A rs \in defaults : AuthorizeRoleGrant(u, rs)

-----------------------------------------------------------------------------
(* The first part of a request: its checks. *)

Accept(q, by, kind, args) ==
    /\ calls[q] = NoCall /\ commits < MaxCommits
    /\ RequireAdmin(by, kind)
    /\ calls' = [calls EXCEPT ![q] = [kind |-> kind, by |-> by, args |-> args, calm |-> TRUE]]
    /\ UNCHANGED <<roles, teams, members, given, commits>>

\* createRole: generateIdentifier has found r free.
AskCreateRole(q, by, r, perms) ==
    /\ ~roles[r].here
    /\ AuthorizeDelegatedPermissions(by, perms)
    /\ Accept(q, by, "createRole", [role |-> r, perms |-> perms])

\* updateRole.
AskUpdateRole(q, by, r, enabled, perms) ==
    /\ enabled # {} \/ perms # {}
    /\ \A ps \in perms : AuthorizeDelegatedPermissions(by, ps)
    /\ Accept(q, by, "updateRole", [role |-> r, enabled |-> enabled, perms |-> perms])

AskDeleteRole(q, by, r) == Accept(q, by, "deleteRole", [role |-> r])

\* createTeam.
AskCreateTeam(q, by, t, defaults) ==
    /\ ~teams[t].here
    /\ AuthorizeTeamDefaults(by, defaults)
    /\ Accept(q, by, "createTeam", [team |-> t, defaults |-> defaults])

\* updateTeam: enabling a team hands out the defaults that it has.
MayEnable(by, t, enabled, defaults) ==
    \/ Admin(by) \/ enabled # {TRUE} \/ defaults # {}
    \/ teams[t].here /\ AuthorizeRoleGrant(by, teams[t].defaults)

AskUpdateTeam(q, by, t, enabled, defaults) ==
    /\ enabled # {} \/ defaults # {}
    /\ AuthorizeTeamDefaults(by, defaults)
    /\ MayEnable(by, t, enabled, defaults)
    /\ Accept(q, by, "updateTeam", [team |-> t, enabled |-> enabled, defaults |-> defaults])

AskDeleteTeam(q, by, t) == Accept(q, by, "deleteTeam", [team |-> t])

\* userMembershipProblem, and the checks of replaceUserRBAC: at least one of each.
MembershipGiven(rs, ts) == rs # {} /\ ts # {}

\* replaceUserRBAC, and createUser and every row of importUsers for a new user.
AskMembership(q, by, kind, u, rs, ts) ==
    /\ MembershipGiven(rs, ts)
    /\ AuthorizeRoleGrant(by, rs)
    /\ AuthorizeTeamGrant(by, ts)
    /\ Accept(q, by, kind, [user |-> u, roles |-> rs, teams |-> ts])

-----------------------------------------------------------------------------
(* The second part: the transaction. *)

\* Everything that commits disturbs the requests that are still under way.
Done(q) ==
    /\ calls' = [p \in Requests |-> IF p = q \/ calls[p] = NoCall THEN NoCall
                                    ELSE [calls[p] EXCEPT !.calm = FALSE]]
    /\ commits' = commits + 1

\* Auxiliary: what an administrator has written counts as handed out.
Gives(q, perms) == given' = IF Admin(calls[q].by) THEN given \cup perms ELSE given

RolePerms(rs) == UNION {roles[r].perms : r \in rs}

Pending(q, kind) == calls[q] # NoCall /\ calls[q].kind = kind /\ commits < MaxCommits

\* CreateRole.
CreateRole(q) ==
    LET a == calls[q].args IN
    /\ Pending(q, "createRole") /\ ~roles[a.role].here
    /\ roles' = [roles EXCEPT ![a.role] = [here |-> TRUE, enabled |-> TRUE, perms |-> a.perms]]
    /\ Gives(q, a.perms) /\ Done(q)
    /\ UNCHANGED <<teams, members>>

\* UpdateRole: the permissions are replaced when they are given.
UpdateRole(q) ==
    LET a == calls[q].args IN
    /\ Pending(q, "updateRole") /\ roles[a.role].here /\ a.role \notin BuiltIn
    /\ roles' = [roles EXCEPT ![a.role].enabled = Given(a.enabled, @), ![a.role].perms = Given(a.perms, @)]
    /\ Gives(q, Given(a.perms, {})) /\ Done(q)
    /\ UNCHANGED <<teams, members>>

\* The foreign key of user_role_bindings cascades.
Unbound(m, r) == [m EXCEPT !.roles = @ \ {r}]

\* DeleteRole: refused while it is a team default, bindings go with it.
DeleteRole(q) ==
    LET r == calls[q].args.role IN
    /\ Pending(q, "deleteRole") /\ roles[r].here /\ r \notin BuiltIn
    /\ \A t \in Teams : r \notin teams[t].defaults
    /\ roles' = [roles EXCEPT ![r] = NoRoleRow]
    /\ members' = [u \in People |-> Unbound(members[u], r)]
    /\ Done(q)
    /\ UNCHANGED <<teams, given>>

\* replaceTeamDefaultRoles: every role must exist.
DefaultsExist(defaults) == \A rs \in defaults : \A r \in rs : roles[r].here

\* CreateTeam.
CreateTeam(q) ==
    LET a == calls[q].args IN
    /\ Pending(q, "createTeam") /\ ~teams[a.team].here /\ DefaultsExist(a.defaults)
    /\ teams' = [teams EXCEPT ![a.team] =
           [here |-> TRUE, enabled |-> TRUE, defaults |-> Given(a.defaults, {})]]
    /\ Gives(q, RolePerms(Given(a.defaults, {}))) /\ Done(q)
    /\ UNCHANGED <<roles, members>>

\* UpdateTeam.
UpdateTeam(q) ==
    LET a == calls[q].args IN
    /\ Pending(q, "updateTeam") /\ teams[a.team].here /\ DefaultsExist(a.defaults)
    /\ teams' = [teams EXCEPT ![a.team].enabled = Given(a.enabled, @), ![a.team].defaults = Given(a.defaults, @)]
    /\ Gives(q, RolePerms(Given(a.defaults, teams[a.team].defaults))) /\ Done(q)
    /\ UNCHANGED <<roles, members>>

\* DeleteTeam: memberships and defaults go with it.
DeleteTeam(q) ==
    LET t == calls[q].args.team IN
    /\ Pending(q, "deleteTeam") /\ teams[t].here
    /\ teams' = [teams EXCEPT ![t] = NoTeamRow]
    /\ members' = [u \in People |-> [members[u] EXCEPT !.teams = @ \ {t}]]
    /\ Done(q)
    /\ UNCHANGED <<roles, given>>

\* ReplaceUserRBAC, CreateUser: every role and team must exist.
SetMembership(q, kind) ==
    LET a == calls[q].args IN
    /\ Pending(q, kind)
    /\ members[a.user].here = (kind = "replaceUserRBAC")
    /\ \A r \in a.roles : roles[r].here
    /\ \A t \in a.teams : teams[t].here
    /\ members' = [members EXCEPT ![a.user] = [here |-> TRUE, roles |-> a.roles, teams |-> a.teams]]
    /\ Gives(q, RolePerms(a.roles \cup UNION {teams[t].defaults : t \in a.teams})) /\ Done(q)
    /\ UNCHANGED <<roles, teams>>

\* The transaction is refused, or the request is given up.
Abandon(q) ==
    /\ calls[q] # NoCall
    /\ calls' = [calls EXCEPT ![q] = NoCall]
    /\ UNCHANGED <<roles, teams, members, given, commits>>

-----------------------------------------------------------------------------

Ask(q, by) ==
    \/ \E r \in Roles \ BuiltIn :
           \/ \E perms \in PermissionSets : AskCreateRole(q, by, r, perms)
           \/ \E x \in RoleUpdates : AskUpdateRole(q, by, r, x[1], x[2])
           \/ AskDeleteRole(q, by, r)
    \/ \E t \in Teams :
           \/ \E rs \in Optional(RoleSets) : AskCreateTeam(q, by, t, rs)
           \/ \E x \in TeamUpdates : AskUpdateTeam(q, by, t, x[1], x[2])
           \/ AskDeleteTeam(q, by, t)
    \/ \E u \in People \ Administrators, rs \in RoleSets, ts \in TeamSets :
           AskMembership(q, by, IF members[u].here THEN "replaceUserRBAC" ELSE "createUser", u, rs, ts)

Commit(q) ==
    \/ CreateRole(q) \/ UpdateRole(q) \/ DeleteRole(q)
    \/ CreateTeam(q) \/ UpdateTeam(q) \/ DeleteTeam(q)
    \/ SetMembership(q, "replaceUserRBAC") \/ SetMembership(q, "createUser")

DelegationNext == \E q \in Requests : (\E by \in People : Ask(q, by)) \/ Commit(q) \/ Abandon(q)

\* The tables a deployment starts from.
DelegationStart(rs, ts, ms) ==
    /\ roles = rs /\ teams = ts /\ members = ms
    /\ calls = [q \in Requests |-> NoCall]
    /\ given = (UNION {PermissionsHeld(rs, ts, ms[u]) : u \in People \ Administrators})
               \cup (UNION {rs[r].perms : r \in Roles \ BuiltIn})
    /\ commits = 0

-----------------------------------------------------------------------------

\* Type correctness. Bindings and defaults name roles and teams that exist.
DelegationTypeOK ==
    /\ roles \in [Roles -> [here : BOOLEAN, enabled : BOOLEAN, perms : SUBSET Permissions]]
    /\ teams \in [Teams -> [here : BOOLEAN, enabled : BOOLEAN, defaults : SUBSET Roles]]
    /\ members \in [People -> [here : BOOLEAN, roles : SUBSET Roles, teams : SUBSET Teams]]
    /\ given \subseteq Permissions
    /\ commits \in 0..MaxCommits
    /\ \A u \in People : /\ \A r \in members[u].roles : roles[r].here
                         /\ \A t \in members[u].teams : teams[t].here
    /\ \A t \in Teams : \A r \in teams[t].defaults : roles[r].here

\* Any tables a deployment may start from.
DelegationInit == DelegationTypeOK /\ DelegationStart(roles, teams, members)

DelegationSpec == DelegationInit /\ [][DelegationNext]_delegationVars

\* However the requests of delegates interleave, nobody who is not an
\* administrator ever holds a permission that no administrator handed out.
HeldWasGiven ==
    \A u \in People \ Administrators : UserPermissionIDs(u) \subseteq given

\* A delegate's request that nothing disturbs after its checks gives nobody a
\* permission that the delegate does not hold; switching a role on is the
\* exception, updateRole looks only at the permissions that it is given.
DelegatesGiveWhatTheyHold ==
    [][\A q \in Requests :
           (/\ calls[q] # NoCall /\ calls'[q] = NoCall /\ commits' > commits
            /\ ~Admin(calls[q].by) /\ calls[q].calm
            /\ ~(calls[q].kind = "updateRole" /\ calls[q].args.enabled = {TRUE}))
           => \A u \in People :
                  PermissionsHeld(roles', teams', members'[u])
                      \subseteq UserPermissionIDs(u) \cup UserPermissionIDs(calls[q].by)]_delegationVars

\* The types, and that nobody holds what no administrator handed out.
DelegationInvariant ==
    /\ DelegationTypeOK
    /\ HeldWasGiven
=============================================================================
