--------------------------- MODULE DirectoryProofs ---------------------------
(***************************************************************************)
(* Proofs about the directory: that delegates hand out only what was       *)
(* handed out to them, for all sets of people, roles, teams, permissions   *)
(* and requests; and that an agent stays within the scope it was made      *)
(* from, for all trees of teams, sets of rules and requests.               *)
(***************************************************************************)
EXTENDS RoleDelegation, AgentDirectory, FiniteSetTheorems, WellFoundedInduction, TLAPS

------------------------------------------------------------------------------
(* Delegation: the inductive invariant                                     *)

RoleKinds == {"createRole", "updateRole", "deleteRole"}
TeamKinds == {"createTeam", "updateTeam", "deleteTeam"}
UserKinds == {"replaceUserRBAC", "createUser"}

OwnRoles == Roles \ BuiltIn

Args ==
    [role : OwnRoles, perms : SUBSET Permissions]
    \cup [role : OwnRoles, enabled : Optional(BOOLEAN), perms : Optional(SUBSET Permissions)]
    \cup [role : OwnRoles]
    \cup [team : Teams, defaults : Optional(SUBSET Roles)]
    \cup [team : Teams, enabled : Optional(BOOLEAN), defaults : Optional(SUBSET Roles)]
    \cup [team : Teams]
    \cup [user : People \ Administrators, roles : SUBSET Roles, teams : SUBSET Teams]

Call == [kind : RoleKinds \cup TeamKinds \cup UserKinds, by : People, args : Args, calm : BOOLEAN]

\* The arguments are those of the request.
ArgsFit(c) ==
    /\ c.kind \in RoleKinds => c.args.role \in OwnRoles
    /\ c.kind = "createRole" => c.args.perms \in SUBSET Permissions
    /\ c.kind = "updateRole" => /\ c.args.enabled \in Optional(BOOLEAN)
                                /\ c.args.perms \in Optional(SUBSET Permissions)
    /\ c.kind \in TeamKinds => c.args.team \in Teams
    /\ c.kind \in {"createTeam", "updateTeam"} => c.args.defaults \in Optional(SUBSET Roles)
    /\ c.kind = "updateTeam" => c.args.enabled \in Optional(BOOLEAN)
    /\ c.kind \in UserKinds => /\ c.args.user \in People \ Administrators
                               /\ c.args.roles \in SUBSET Roles
                               /\ c.args.teams \in SUBSET Teams

CallsTyped ==
    /\ calls \in [Requests -> Call \cup {NoCall}]
    /\ \A q \in Requests : calls[q] # NoCall => ArgsFit(calls[q])

\* A role that exists has only permissions in g; a team has only such defaults.
RoleWithin(rs, g, r)     == rs[r].here => rs[r].perms \subseteq g
TeamWithin(rs, ts, g, t) == \A r \in ts[t].defaults : RoleWithin(rs, g, r)

\* The roles that are not built in are written by administrators, or by delegates
\* within what they hold.
OwnRolesWithin == \A r \in OwnRoles : roles[r].perms \subseteq given

\* What the request c writes is within g, in tables with the roles rs and teams ts.
CallWithin(rs, ts, g, c) ==
    /\ c.kind = "createRole" => c.args.perms \subseteq g
    /\ c.kind = "updateRole" => \A ps \in c.args.perms : ps \subseteq g
    /\ c.kind \in {"createTeam", "updateTeam"} =>
          \A d \in c.args.defaults : \A r \in d : RoleWithin(rs, g, r)
    /\ c.kind = "updateTeam" /\ c.args.enabled = {TRUE} /\ c.args.defaults = {} =>
          TeamWithin(rs, ts, g, c.args.team)
    /\ c.kind \in UserKinds =>
          /\ \A r \in c.args.roles : RoleWithin(rs, g, r)
          /\ \A t \in c.args.teams : TeamWithin(rs, ts, g, t)

\* A delegate's request stays within what administrators have handed out although
\* others commit after its checks, and while nothing does, within what it holds.
CallsWithin ==
    \A q \in Requests : calls[q] # NoCall /\ ~Admin(calls[q].by) =>
        /\ CallWithin(roles, teams, given, calls[q])
        /\ calls[q].calm => CallWithin(roles, teams, UserPermissionIDs(calls[q].by), calls[q])

DelegationInductive ==
    /\ DelegationTypeOK
    /\ CallsTyped
    /\ OwnRolesWithin
    /\ HeldWasGiven
    /\ CallsWithin

------------------------------------------------------------------------------
(* Rows, optional fields and requests                                      *)

RoleRow   == [here : BOOLEAN, enabled : BOOLEAN, perms : SUBSET Permissions]
TeamRow   == [here : BOOLEAN, enabled : BOOLEAN, defaults : SUBSET Roles]
MemberRow == [here : BOOLEAN, roles : SUBSET Roles, teams : SUBSET Teams]

TablesTyped ==
    /\ roles \in [Roles -> RoleRow]
    /\ teams \in [Teams -> TeamRow]
    /\ members \in [People -> MemberRow]

BindingsExist ==
    /\ \A u \in People : /\ \A r \in members[u].roles : roles[r].here
                         /\ \A t \in members[u].teams : teams[t].here
    /\ \A t \in Teams : \A r \in teams[t].defaults : roles[r].here

LEMMA DelegationTypeParts ==
    DelegationTypeOK <=> /\ TablesTyped /\ BindingsExist
                         /\ given \subseteq Permissions /\ commits \in 0..MaxCommits
  BY DEF DelegationTypeOK, TablesTyped, BindingsExist, RoleRow, TeamRow, MemberRow

LEMMA OptionalGiven ==
    ASSUME NEW S, NEW new \in Optional(S), NEW old
    PROVE  \/ new = {} /\ Given(new, old) = old
           \/ \E x \in S : new = {x} /\ Given(new, old) = x
<1>1. CASE new = {}
  BY <1>1 DEF Given
<1>2. CASE \E x \in S : new = {x}
  BY <1>2 DEF Given
<1> QED
  BY <1>1, <1>2 DEF Optional

LEMMA CallFields ==
    ASSUME NEW c \in Call
    PROVE  /\ c # NoCall /\ c.kind \in RoleKinds \cup TeamKinds \cup UserKinds /\ c.by \in People
           /\ LET d == [c EXCEPT !.calm = FALSE]
              IN  d \in Call /\ d.kind = c.kind /\ d.by = c.by /\ d.args = c.args /\ d.calm = FALSE
<1>1. c.kind \in RoleKinds \cup TeamKinds \cup UserKinds /\ c.by \in People
  BY DEF Call
<1>2. c # NoCall
  BY <1>1 DEF NoCall, RoleKinds, TeamKinds, UserKinds
<1>3. LET d == [c EXCEPT !.calm = FALSE]
      IN  d \in Call /\ d.kind = c.kind /\ d.by = c.by /\ d.args = c.args /\ d.calm = FALSE
  BY DEF Call
<1> QED
  BY <1>1, <1>2, <1>3

\* After a commit the other requests are as they were, but disturbed.
LEMMA OthersDisturbed ==
    ASSUME CallsTyped, NEW q \in Requests, Done(q)
    PROVE  /\ CallsTyped'
           /\ calls'[q] = NoCall
           /\ \A p \in Requests : calls'[p] # NoCall =>
                 /\ calls[p] # NoCall /\ calls'[p].by = calls[p].by /\ calls'[p].calm = FALSE
                 /\ calls'[p].kind = calls[p].kind /\ calls'[p].args = calls[p].args
<1>1. calls' = [p \in Requests |-> IF p = q \/ calls[p] = NoCall THEN NoCall
                                   ELSE [calls[p] EXCEPT !.calm = FALSE]]
  BY DEF Done
<1>2. \A p \in Requests : calls[p] # NoCall => calls[p] \in Call /\ ArgsFit(calls[p])
  BY DEF CallsTyped
<1>3. ASSUME NEW p \in Requests
      PROVE  /\ calls'[p] \in Call \cup {NoCall}
             /\ calls'[p] # NoCall =>
                 /\ calls[p] # NoCall /\ calls'[p].by = calls[p].by /\ calls'[p].calm = FALSE
                 /\ calls'[p].kind = calls[p].kind /\ calls'[p].args = calls[p].args
  <2>1. CASE p = q \/ calls[p] = NoCall
    BY <1>1, <1>3, <2>1
  <2>2. CASE ~(p = q \/ calls[p] = NoCall)
    <3>1. calls[p] \in Call /\ calls'[p] = [calls[p] EXCEPT !.calm = FALSE]
      BY <1>1, <1>2, <1>3, <2>2
    <3> QED
      BY <2>2, <3>1, CallFields
  <2> QED
    BY <2>1, <2>2
<1>4. calls'[q] = NoCall
  BY <1>1
<1>5. \A p \in Requests : calls'[p] # NoCall => ArgsFit(calls'[p])
  BY <1>2, <1>3 DEF ArgsFit
<1>6. calls' \in [Requests -> Call \cup {NoCall}]
  BY <1>1, <1>3
<1> QED
  BY <1>3, <1>4, <1>5, <1>6 DEF CallsTyped

------------------------------------------------------------------------------
(* What a transaction adds to what people hold                             *)

\* Every difference that a step makes to what u can hold is within g.
RolesMove(g) ==
    \A r \in Roles :
        \/ roles'[r].perms \subseteq g
        \/ /\ roles'[r].perms = roles[r].perms
           /\ roles'[r].here /\ roles'[r].enabled => roles[r].here /\ roles[r].enabled

TeamsMove(g) ==
    \A t \in Teams :
        \/ TeamWithin(roles', teams', g, t)
        \/ /\ teams'[t].defaults \subseteq teams[t].defaults
           /\ teams'[t].enabled => teams[t].enabled

MembersMove(g) ==
    \A u \in People :
        /\ \A r \in members'[u].roles : r \in members[u].roles \/ RoleWithin(roles', g, r)
        /\ \A t \in members'[u].teams : t \in members[u].teams \/ TeamWithin(roles', teams', g, t)

LEMMA HeldWithin ==
    ASSUME TablesTyped, TablesTyped', NEW g, NEW u \in People, UserPermissionIDs(u) \subseteq g,
           RolesMove(g), TeamsMove(g), MembersMove(g)
    PROVE  PermissionsHeld(roles', teams', members'[u]) \subseteq g
<1> SUFFICES ASSUME NEW r \in RolesHeld(roles', teams', members'[u])
             PROVE  roles'[r].perms \subseteq g
  BY DEF PermissionsHeld
<1>1. /\ r \in Roles /\ roles'[r].here /\ roles'[r].enabled
      /\ r \in members'[u].roles
         \/ \E t \in members'[u].teams : teams'[t].enabled /\ r \in teams'[t].defaults
  BY DEF RolesHeld
<1>2. ASSUME roles[r].here, roles[r].enabled, roles'[r].perms = roles[r].perms,
             r \in RolesHeld(roles, teams, members[u])
      PROVE  roles'[r].perms \subseteq g
  BY <1>2 DEF UserPermissionIDs, PermissionsHeld
<1>3. \/ roles'[r].perms \subseteq g
      \/ roles[r].here /\ roles[r].enabled /\ roles'[r].perms = roles[r].perms
  BY <1>1 DEF RolesMove
<1>4. CASE r \in members'[u].roles
  <2>1. r \in members[u].roles \/ RoleWithin(roles', g, r)
    BY <1>4 DEF MembersMove
  <2>2. CASE RoleWithin(roles', g, r)
    BY <1>1, <2>2 DEF RoleWithin
  <2>3. CASE r \in members[u].roles
    BY <1>1, <1>2, <1>3, <2>3 DEF RolesHeld
  <2> QED
    BY <2>1, <2>2, <2>3
<1>5. ASSUME NEW t \in members'[u].teams, teams'[t].enabled, r \in teams'[t].defaults
      PROVE  roles'[r].perms \subseteq g
  <2>0. t \in Teams
    BY DEF TablesTyped, MemberRow
  <2>1. CASE TeamWithin(roles', teams', g, t)
    BY <1>1, <1>5, <2>1 DEF TeamWithin, RoleWithin
  <2>2. CASE ~TeamWithin(roles', teams', g, t)
    <3>1. t \in members[u].teams
      BY <2>2 DEF MembersMove
    <3>2. teams[t].enabled /\ r \in teams[t].defaults
      BY <1>5, <2>0, <2>2 DEF TeamsMove
    <3> QED
      BY <1>1, <1>2, <1>3, <3>1, <3>2 DEF RolesHeld
  <2> QED
    BY <2>1, <2>2
<1> QED
  BY <1>1, <1>4, <1>5

------------------------------------------------------------------------------
(* One transaction                                                         *)

\* Switching a role on hands out its permissions, whatever the request carries.
SwitchedWithin(g, c) ==
    c.kind = "updateRole" /\ c.args.enabled = {TRUE} => roles[c.args.role].perms \subseteq g

\* Tables stay well formed, built-in roles as they are, and what people can hold
\* moves within whatever the request is within.
CommitFits(q) ==
    /\ TablesTyped' /\ BindingsExist'
    /\ \A r \in BuiltIn : roles'[r] = roles[r]
    /\ \A g : CallWithin(roles, teams, g, calls[q]) /\ SwitchedWithin(g, calls[q]) =>
          RolesMove(g) /\ TeamsMove(g) /\ MembersMove(g)

LEMMA RowBooleans ==
    ASSUME TablesTyped
    PROVE  /\ \A r \in Roles : roles[r] \in RoleRow /\ roles[r].perms \subseteq Permissions
           /\ \A t \in Teams : teams[t] \in TeamRow /\ teams[t].defaults \subseteq Roles
           /\ \A u \in People : members[u] \in MemberRow /\ members[u].roles \subseteq Roles
                                /\ members[u].teams \subseteq Teams
  BY DEF TablesTyped, RoleRow, TeamRow, MemberRow

LEMMA CreateRoleFits ==
    ASSUME TablesTyped, BindingsExist, CallsTyped, NEW q \in Requests, CreateRole(q)
    PROVE  CommitFits(q)
<1> DEFINE a == calls[q].args
           row == [here |-> TRUE, enabled |-> TRUE, perms |-> a.perms]
<1>1. /\ calls[q].kind = "createRole" /\ roles' = [roles EXCEPT ![a.role] = row]
      /\ teams' = teams /\ members' = members /\ ~roles[a.role].here
  BY DEF CreateRole, Pending
<1>2. a.role \in OwnRoles /\ a.perms \in SUBSET Permissions
  BY <1>1 DEF CallsTyped, ArgsFit, RoleKinds, CreateRole, Pending
<1>3. row \in RoleRow /\ row.here /\ row.perms = a.perms
  BY <1>2 DEF RoleRow
<1> HIDE DEF row
<1>4. \A r \in Roles : roles'[r] = IF r = a.role THEN row ELSE roles[r]
  BY <1>1 DEF TablesTyped
<1>5. TablesTyped'
  BY <1>1, <1>3 DEF TablesTyped
<1>6. BindingsExist'
  BY <1>1, <1>3, <1>4, RowBooleans DEF BindingsExist
<1>7. \A r \in BuiltIn : roles'[r] = roles[r]
  BY <1>2, <1>4, DelegationAssumption DEF OwnRoles
<1>8. ASSUME NEW g, CallWithin(roles, teams, g, calls[q]) PROVE RolesMove(g) /\ TeamsMove(g) /\ MembersMove(g)
  <2>1. a.perms \subseteq g
    BY <1>1, <1>8 DEF CallWithin
  <2> QED
    BY <1>1, <1>3, <1>4, <2>1 DEF RolesMove, TeamsMove, MembersMove
<1> QED
  BY <1>5, <1>6, <1>7, <1>8 DEF CommitFits

LEMMA UpdateRoleFits ==
    ASSUME TablesTyped, BindingsExist, CallsTyped, NEW q \in Requests, UpdateRole(q)
    PROVE  CommitFits(q)
<1> DEFINE a == calls[q].args
           on == Given(a.enabled, roles[a.role].enabled)
           ps == Given(a.perms, roles[a.role].perms)
           half == [roles[a.role] EXCEPT !.enabled = on]
           row == [half EXCEPT !.perms = ps]
<1>1. /\ calls[q].kind = "updateRole" /\ teams' = teams /\ members' = members
      /\ roles[a.role].here /\ calls[q] # NoCall
  BY DEF UpdateRole, Pending
<1>2. /\ a.role \in OwnRoles /\ a.enabled \in Optional(BOOLEAN)
      /\ a.perms \in Optional(SUBSET Permissions)
  BY <1>1 DEF CallsTyped, ArgsFit, RoleKinds
<1>3. roles[a.role] \in RoleRow
  BY <1>2 DEF TablesTyped, OwnRoles
<1>4. on \in BOOLEAN /\ ps \in SUBSET Permissions
  <2>1. roles[a.role].enabled \in BOOLEAN /\ roles[a.role].perms \in SUBSET Permissions
    BY <1>3 DEF RoleRow
  <2> QED
    BY <1>2, <2>1, OptionalGiven
<1>5. roles' = [roles EXCEPT ![a.role] = row]
  <2>1. a.role \in Roles
    BY <1>2 DEF OwnRoles
  <2> QED
    BY <1>3, <2>1 DEF UpdateRole, TablesTyped, RoleRow
<1>6. half \in RoleRow /\ half.here = roles[a.role].here /\ half.enabled = on
  BY <1>3, <1>4 DEF RoleRow
<1>6a. on = TRUE => a.enabled = {TRUE} \/ roles[a.role].enabled
  <2>1. \/ a.enabled = {} /\ on = roles[a.role].enabled
        \/ \E x \in BOOLEAN : a.enabled = {x} /\ on = x
    BY <1>2, OptionalGiven
  <2> QED
    BY <2>1
<1>6b. ps = roles[a.role].perms \/ ps \in a.perms
  <2>1. \/ a.perms = {} /\ ps = roles[a.role].perms
        \/ \E x \in SUBSET Permissions : a.perms = {x} /\ ps = x
    BY <1>2, OptionalGiven
  <2> QED
    BY <2>1
<1> HIDE DEF half, on, ps
<1>7. row \in RoleRow /\ row.here = roles[a.role].here /\ row.enabled = on /\ row.perms = ps
  BY <1>4, <1>6 DEF RoleRow
<1> HIDE DEF row
<1>8. \A r \in Roles : roles'[r] = IF r = a.role THEN row ELSE roles[r]
  BY <1>5 DEF TablesTyped
<1>9. TablesTyped'
  BY <1>1, <1>5, <1>7 DEF TablesTyped
<1>10. BindingsExist'
  <2>1. \A r \in Roles : roles[r].here => roles'[r].here
    BY <1>7, <1>8
  <2>2. /\ \A t \in Teams : teams[t].defaults \subseteq Roles
        /\ \A u \in People : members[u].roles \subseteq Roles
    BY <1>1, RowBooleans
  <2> QED BY <1>1, <2>1, <2>2 DEF BindingsExist
<1>11. \A r \in BuiltIn : roles'[r] = roles[r]
  BY <1>2, <1>8, DelegationAssumption DEF OwnRoles
<1>12. ASSUME NEW g, CallWithin(roles, teams, g, calls[q]), SwitchedWithin(g, calls[q])
       PROVE  RolesMove(g) /\ TeamsMove(g) /\ MembersMove(g)
  <2>1. \A x \in a.perms : x \subseteq g
    BY <1>1, <1>12 DEF CallWithin
  <2>2. a.enabled = {TRUE} => roles[a.role].perms \subseteq g
    BY <1>1, <1>12 DEF SwitchedWithin
  <2>3. ps \subseteq g \/ (ps = roles[a.role].perms /\ (on = TRUE => roles[a.role].enabled))
    BY <1>6a, <1>6b, <2>1, <2>2
  <2>4. row.enabled => on = TRUE
    BY <1>4, <1>7
  <2>5. \/ row.perms \subseteq g
        \/ row.perms = roles[a.role].perms /\ (row.enabled => roles[a.role].enabled)
    BY <1>7, <2>3, <2>4
  <2>6. RolesMove(g)
    BY <1>1, <1>8, <2>5 DEF RolesMove
  <2> QED
    BY <1>1, <2>6 DEF TeamsMove, MembersMove
<1> QED
  BY <1>9, <1>10, <1>11, <1>12 DEF CommitFits

LEMMA DeleteRoleFits ==
    ASSUME TablesTyped, BindingsExist, CallsTyped, NEW q \in Requests, DeleteRole(q)
    PROVE  CommitFits(q)
<1> DEFINE d == calls[q].args.role
<1>1. /\ calls[q].kind = "deleteRole" /\ calls[q] # NoCall /\ teams' = teams
      /\ \A t \in Teams : d \notin teams[t].defaults
      /\ roles' = [roles EXCEPT ![d] = NoRoleRow]
      /\ members' = [u \in People |-> Unbound(members[u], d)]
  BY DEF DeleteRole, Pending
<1>2. d \in OwnRoles
  BY <1>1 DEF CallsTyped, ArgsFit, RoleKinds
<1>3. NoRoleRow \in RoleRow /\ NoRoleRow.perms = {}
  BY DEF NoRoleRow, RoleRow
<1>4. \A r \in Roles : roles'[r] = IF r = d THEN NoRoleRow ELSE roles[r]
  BY <1>1 DEF TablesTyped
<1>5. \A u \in People : /\ members'[u] \in MemberRow /\ members'[u].roles = members[u].roles \ {d}
                        /\ members'[u].teams = members[u].teams
  <2>1. ASSUME NEW m \in MemberRow
        PROVE  /\ Unbound(m, d) \in MemberRow /\ Unbound(m, d).roles = m.roles \ {d}
               /\ Unbound(m, d).teams = m.teams
    BY <2>1 DEF Unbound, MemberRow
  <2> QED
    BY <1>1, <2>1, RowBooleans
<1>6. TablesTyped'
  BY <1>1, <1>3, <1>5 DEF TablesTyped
<1>7. BindingsExist'
  <2>1. ASSUME NEW u \in People, NEW r \in members'[u].roles PROVE roles'[r].here
    <3>1. r \in members[u].roles /\ r # d /\ r \in Roles
      BY <1>5, <2>1, RowBooleans
    <3> QED
      BY <1>4, <3>1 DEF BindingsExist
  <2>2. ASSUME NEW t \in Teams, NEW r \in teams'[t].defaults PROVE roles'[r].here
    <3>1. r \in teams[t].defaults /\ r # d /\ r \in Roles
      BY <1>1, <2>2, RowBooleans
    <3> QED
      BY <1>4, <3>1 DEF BindingsExist
  <2>3. \A u \in People : \A t \in members'[u].teams : teams'[t].here
    BY <1>1, <1>5 DEF BindingsExist
  <2> QED
    BY <2>1, <2>2, <2>3 DEF BindingsExist
<1>8. \A r \in BuiltIn : roles'[r] = roles[r]
  BY <1>2, <1>4, DelegationAssumption DEF OwnRoles
<1>9. \A g : RolesMove(g) /\ TeamsMove(g) /\ MembersMove(g)
  BY <1>1, <1>3, <1>4, <1>5 DEF RolesMove, TeamsMove, MembersMove
<1> QED
  BY <1>6, <1>7, <1>8, <1>9 DEF CommitFits

\* A transaction on one team: its row is replaced by one that is there, whose
\* defaults exist.
LEMMA TeamRowFits ==
    ASSUME TablesTyped, BindingsExist, NEW t \in Teams, NEW row \in TeamRow,
           teams' = [teams EXCEPT ![t] = row], roles' = roles, members' = members,
           row.here, \A r \in row.defaults : roles[r].here
    PROVE  /\ TablesTyped' /\ BindingsExist'
           /\ \A r \in BuiltIn : roles'[r] = roles[r]
           /\ \A g : RolesMove(g) /\ MembersMove(g)
           /\ \A g : (\/ \A r \in row.defaults : RoleWithin(roles, g, r)
                      \/ row.defaults = teams[t].defaults /\ (row.enabled => teams[t].enabled))
                     => TeamsMove(g)
<1>1. \A x \in Teams : teams'[x] = IF x = t THEN row ELSE teams[x]
  BY DEF TablesTyped
<1>2. TablesTyped'
  BY DEF TablesTyped
<1>3. BindingsExist'
  <2>1. \A u \in People : \A x \in members[u].teams : teams'[x].here
    BY <1>1, RowBooleans DEF BindingsExist
  <2>2. \A x \in Teams : \A r \in teams'[x].defaults : roles[r].here
    BY <1>1 DEF BindingsExist
  <2> QED
    BY <2>1, <2>2 DEF BindingsExist
<1>4. \A g : RolesMove(g) /\ MembersMove(g)
  BY DEF RolesMove, MembersMove
<1>5. ASSUME NEW g,
             \/ \A r \in row.defaults : RoleWithin(roles, g, r)
             \/ row.defaults = teams[t].defaults /\ (row.enabled => teams[t].enabled)
      PROVE  TeamsMove(g)
  BY <1>1, <1>5 DEF TeamsMove, TeamWithin
<1> QED
  BY <1>2, <1>3, <1>4, <1>5

LEMMA CreateTeamFits ==
    ASSUME TablesTyped, BindingsExist, CallsTyped, NEW q \in Requests, CreateTeam(q)
    PROVE  CommitFits(q)
<1> DEFINE a == calls[q].args
           ds == Given(a.defaults, {})
           row == [here |-> TRUE, enabled |-> TRUE, defaults |-> ds]
<1>1. /\ calls[q].kind = "createTeam" /\ calls[q] # NoCall /\ roles' = roles /\ members' = members
      /\ teams' = [teams EXCEPT ![a.team] = row] /\ DefaultsExist(a.defaults)
  BY DEF CreateTeam, Pending
<1>2. a.team \in Teams /\ a.defaults \in Optional(SUBSET Roles)
  BY <1>1 DEF CallsTyped, ArgsFit, TeamKinds
<1>3. ds \in SUBSET Roles /\ (ds = {} \/ ds \in a.defaults)
  <2>1. \/ a.defaults = {} /\ ds = {}
        \/ \E x \in SUBSET Roles : a.defaults = {x} /\ ds = x
    BY <1>2, OptionalGiven
  <2> QED
    BY <2>1
<1> HIDE DEF ds
<1>4. row \in TeamRow /\ row.here /\ row.defaults = ds
  BY <1>3 DEF TeamRow
<1> HIDE DEF row
<1>5. \A r \in row.defaults : roles[r].here
  BY <1>1, <1>3, <1>4 DEF DefaultsExist
<1>6. ASSUME NEW g, CallWithin(roles, teams, g, calls[q]) PROVE TeamsMove(g)
  <2>1. \A x \in a.defaults : \A r \in x : RoleWithin(roles, g, r)
    BY <1>1, <1>6 DEF CallWithin
  <2>2. \A r \in row.defaults : RoleWithin(roles, g, r)
    BY <1>3, <1>4, <2>1
  <2> QED
    BY <1>1, <1>2, <1>4, <1>5, <2>2, TeamRowFits
<1> QED
  BY <1>1, <1>2, <1>4, <1>5, <1>6, TeamRowFits DEF CommitFits

LEMMA UpdateTeamFits ==
    ASSUME TablesTyped, BindingsExist, CallsTyped, NEW q \in Requests, UpdateTeam(q)
    PROVE  CommitFits(q)
<1> DEFINE a == calls[q].args
           on == Given(a.enabled, teams[a.team].enabled)
           ds == Given(a.defaults, teams[a.team].defaults)
           half == [teams[a.team] EXCEPT !.enabled = on]
           row == [half EXCEPT !.defaults = ds]
<1>1. /\ calls[q].kind = "updateTeam" /\ calls[q] # NoCall /\ roles' = roles /\ members' = members
      /\ teams[a.team].here /\ DefaultsExist(a.defaults)
  BY DEF UpdateTeam, Pending
<1>2. /\ a.team \in Teams /\ a.enabled \in Optional(BOOLEAN)
      /\ a.defaults \in Optional(SUBSET Roles)
  BY <1>1 DEF CallsTyped, ArgsFit, TeamKinds
<1>3. teams[a.team] \in TeamRow
  BY <1>2 DEF TablesTyped
<1>4. teams' = [teams EXCEPT ![a.team] = row]
  BY <1>2, <1>3 DEF UpdateTeam, TablesTyped, TeamRow
<1>5. teams[a.team].enabled \in BOOLEAN /\ teams[a.team].defaults \in SUBSET Roles
  BY <1>3 DEF TeamRow
<1>6. on \in BOOLEAN /\ (on = TRUE => a.enabled = {TRUE} \/ teams[a.team].enabled)
  <2>1. \/ a.enabled = {} /\ on = teams[a.team].enabled
        \/ \E x \in BOOLEAN : a.enabled = {x} /\ on = x
    BY <1>2, OptionalGiven
  <2> QED
    BY <1>5, <2>1
<1>7. ds \in SUBSET Roles /\ ((a.defaults = {} /\ ds = teams[a.team].defaults) \/ ds \in a.defaults)
  <2>1. \/ a.defaults = {} /\ ds = teams[a.team].defaults
        \/ \E x \in SUBSET Roles : a.defaults = {x} /\ ds = x
    BY <1>2, OptionalGiven
  <2> QED
    BY <1>5, <2>1
<1>8. half \in TeamRow /\ half.here = teams[a.team].here /\ half.enabled = on
  BY <1>3, <1>6 DEF TeamRow
<1> HIDE DEF half, on, ds
<1>9. row \in TeamRow /\ row.here = teams[a.team].here /\ row.enabled = on /\ row.defaults = ds
  BY <1>7, <1>8 DEF TeamRow
<1> HIDE DEF row
<1>10. row.here /\ \A r \in row.defaults : roles[r].here
  <2>1. CASE ds = teams[a.team].defaults
    BY <1>1, <1>2, <1>9, <2>1 DEF BindingsExist
  <2>2. CASE ds \in a.defaults
    BY <1>1, <1>9, <2>2 DEF DefaultsExist
  <2> QED
    BY <1>7, <2>1, <2>2
<1>11. ASSUME NEW g, CallWithin(roles, teams, g, calls[q]) PROVE TeamsMove(g)
  <2>1. \A x \in a.defaults : \A r \in x : RoleWithin(roles, g, r)
    BY <1>1, <1>11 DEF CallWithin
  <2>2. a.enabled = {TRUE} /\ a.defaults = {} => \A r \in teams[a.team].defaults : RoleWithin(roles, g, r)
    BY <1>1, <1>11 DEF CallWithin, TeamWithin
  <2>3. row.enabled => on = TRUE
    BY <1>6, <1>9
  <2>4. \/ \A r \in row.defaults : RoleWithin(roles, g, r)
        \/ row.defaults = teams[a.team].defaults /\ (row.enabled => teams[a.team].enabled)
    <3>1. CASE ds \in a.defaults
      BY <1>9, <2>1, <3>1
    <3>2. CASE a.defaults = {} /\ ds = teams[a.team].defaults
      BY <1>6, <1>9, <2>2, <2>3, <3>2
    <3> QED
      BY <1>7, <3>1, <3>2
  <2> QED
    BY <1>1, <1>2, <1>4, <1>9, <1>10, <2>4, TeamRowFits
<1> QED
  BY <1>1, <1>2, <1>4, <1>9, <1>10, <1>11, TeamRowFits DEF CommitFits

LEMMA DeleteTeamFits ==
    ASSUME TablesTyped, BindingsExist, CallsTyped, NEW q \in Requests, DeleteTeam(q)
    PROVE  CommitFits(q)
<1> DEFINE d == calls[q].args.team
<1>1. /\ calls[q].kind = "deleteTeam" /\ calls[q] # NoCall /\ roles' = roles
      /\ teams' = [teams EXCEPT ![d] = NoTeamRow]
      /\ members' = [u \in People |-> [members[u] EXCEPT !.teams = @ \ {d}]]
  BY DEF DeleteTeam, Pending
<1>2. d \in Teams
  BY <1>1 DEF CallsTyped, ArgsFit, TeamKinds
<1>3. NoTeamRow \in TeamRow /\ NoTeamRow.defaults = {}
  BY DEF NoTeamRow, TeamRow
<1>4. \A t \in Teams : teams'[t] = IF t = d THEN NoTeamRow ELSE teams[t]
  BY <1>1 DEF TablesTyped
<1>5. \A u \in People : /\ members'[u] \in MemberRow /\ members'[u].roles = members[u].roles
                        /\ members'[u].teams = members[u].teams \ {d}
  <2>1. ASSUME NEW m \in MemberRow
        PROVE  LET n == [m EXCEPT !.teams = @ \ {d}]
               IN  n \in MemberRow /\ n.roles = m.roles /\ n.teams = m.teams \ {d}
    BY <2>1 DEF MemberRow
  <2> QED
    BY <1>1, <2>1, RowBooleans
<1>6. TablesTyped'
  BY <1>1, <1>3, <1>5 DEF TablesTyped
<1>7. BindingsExist'
  <2>1. ASSUME NEW u \in People, NEW t \in members'[u].teams PROVE teams'[t].here
    <3>1. t \in members[u].teams /\ t # d /\ t \in Teams
      BY <1>5, <2>1, RowBooleans
    <3> QED
      BY <1>4, <3>1 DEF BindingsExist
  <2>2. ASSUME NEW t \in Teams, NEW r \in teams'[t].defaults PROVE roles'[r].here
    <3>1. t # d /\ r \in teams[t].defaults
      BY <1>3, <1>4, <2>2
    <3> QED
      BY <1>1, <3>1 DEF BindingsExist
  <2>3. \A u \in People : \A r \in members'[u].roles : roles'[r].here
    BY <1>1, <1>5 DEF BindingsExist
  <2> QED
    BY <2>1, <2>2, <2>3 DEF BindingsExist
<1>8. \A g : RolesMove(g) /\ TeamsMove(g) /\ MembersMove(g)
  <2>1. \A t \in Teams : teams'[t] = teams[t] \/ teams'[t].defaults = {}
    BY <1>3, <1>4
  <2>2. \A g : TeamsMove(g)
    BY <2>1 DEF TeamsMove, TeamWithin
  <2> QED
    BY <1>1, <1>5, <2>2 DEF RolesMove, MembersMove
<1> QED
  BY <1>1, <1>6, <1>7, <1>8 DEF CommitFits

LEMMA SetMembershipFits ==
    ASSUME TablesTyped, BindingsExist, CallsTyped, NEW q \in Requests, NEW k \in UserKinds,
           SetMembership(q, k)
    PROVE  CommitFits(q)
<1> DEFINE a == calls[q].args
           row == [here |-> TRUE, roles |-> a.roles, teams |-> a.teams]
<1>1. /\ calls[q].kind \in UserKinds /\ calls[q] # NoCall /\ roles' = roles /\ teams' = teams
      /\ \A r \in a.roles : roles[r].here
      /\ \A t \in a.teams : teams[t].here
      /\ members' = [members EXCEPT ![a.user] = row]
  BY DEF SetMembership, Pending
<1>2. a.user \in People /\ a.roles \in SUBSET Roles /\ a.teams \in SUBSET Teams
  BY <1>1 DEF CallsTyped, ArgsFit
<1>3. row \in MemberRow /\ row.roles = a.roles /\ row.teams = a.teams
  BY <1>2 DEF MemberRow
<1> HIDE DEF row
<1>4. \A u \in People : members'[u] = IF u = a.user THEN row ELSE members[u]
  BY <1>1 DEF TablesTyped
<1>5. TablesTyped'
  BY <1>1, <1>3 DEF TablesTyped
<1>6. BindingsExist'
  BY <1>1, <1>3, <1>4 DEF BindingsExist
<1>7. ASSUME NEW g, CallWithin(roles, teams, g, calls[q]) PROVE RolesMove(g) /\ TeamsMove(g) /\ MembersMove(g)
  <2>1. /\ \A r \in a.roles : RoleWithin(roles, g, r)
        /\ \A t \in a.teams : TeamWithin(roles, teams, g, t)
    BY <1>1, <1>7 DEF CallWithin
  <2>2. MembersMove(g)
    BY <1>1, <1>3, <1>4, <2>1 DEF MembersMove
  <2> QED
    BY <1>1, <2>2 DEF RolesMove, TeamsMove
<1> QED
  BY <1>1, <1>5, <1>6, <1>7 DEF CommitFits

LEMMA EveryCommitFits ==
    ASSUME TablesTyped, BindingsExist, CallsTyped, NEW q \in Requests, Commit(q)
    PROVE  CommitFits(q) /\ Done(q) /\ commits < MaxCommits /\ calls[q] # NoCall
<1>1. CommitFits(q)
  BY CreateRoleFits, UpdateRoleFits, DeleteRoleFits, CreateTeamFits, UpdateTeamFits,
     DeleteTeamFits, SetMembershipFits DEF Commit, UserKinds
<1>2. Done(q) /\ commits < MaxCommits /\ calls[q] # NoCall
  BY DEF Commit, CreateRole, UpdateRole, DeleteRole, CreateTeam, UpdateTeam, DeleteTeam,
         SetMembership, Pending
<1> QED
  BY <1>1, <1>2

------------------------------------------------------------------------------
(* Requests that are accepted                                              *)

LEMMA CallWithinGrows ==
    ASSUME NEW rs, NEW ts, NEW g, NEW h, NEW c, g \subseteq h, CallWithin(rs, ts, g, c)
    PROVE  CallWithin(rs, ts, h, c)
<1>1. \A r : RoleWithin(rs, g, r) => RoleWithin(rs, h, r)
  BY DEF RoleWithin
<1>2. \A t : TeamWithin(rs, ts, g, t) => TeamWithin(rs, ts, h, t)
  BY <1>1 DEF TeamWithin
<1> QED
  BY <1>1, <1>2 DEF CallWithin

\* A request whose arguments fit, and which its checks keep within what the
\* delegate holds.
LEMMA AcceptKept ==
    ASSUME DelegationInductive, NEW q \in Requests, NEW by \in People,
           NEW k \in RoleKinds \cup TeamKinds \cup UserKinds, NEW args \in Args,
           Accept(q, by, k, args),
           \A c : c.kind = k /\ c.args = args => ArgsFit(c),
           ~Admin(by) => \A c : c.kind = k /\ c.args = args =>
                             CallWithin(roles, teams, UserPermissionIDs(by), c)
    PROVE  DelegationInductive'
<1> DEFINE c == [kind |-> k, by |-> by, args |-> args, calm |-> TRUE]
<1>0. DelegationTypeOK /\ CallsTyped /\ OwnRolesWithin /\ HeldWasGiven /\ CallsWithin
  BY DEF DelegationInductive
<1>1. calls' = [calls EXCEPT ![q] = c] /\ UNCHANGED <<roles, teams, members, given, commits>>
  BY DEF Accept
<1>2. c \in Call /\ c.kind = k /\ c.by = by /\ c.args = args
  BY DEF Call
<1> HIDE DEF c
<1>3. \A p \in Requests : calls'[p] = IF p = q THEN c ELSE calls[p]
  BY <1>0, <1>1 DEF CallsTyped
<1>4. DelegationTypeOK' /\ OwnRolesWithin' /\ HeldWasGiven'
  BY <1>0, <1>1 DEF DelegationTypeOK, OwnRolesWithin, HeldWasGiven, UserPermissionIDs
<1>5. CallsTyped'
  <2>1. calls' \in [Requests -> Call \cup {NoCall}]
    BY <1>0, <1>1, <1>2 DEF CallsTyped
  <2>2. \A p \in Requests : calls'[p] # NoCall => ArgsFit(calls'[p])
    BY <1>0, <1>2, <1>3 DEF CallsTyped
  <2> QED
    BY <2>1, <2>2 DEF CallsTyped
<1>6. ~Admin(by) => /\ CallWithin(roles, teams, UserPermissionIDs(by), c)
                    /\ CallWithin(roles, teams, given, c)
  BY <1>0, <1>2, CallWithinGrows DEF HeldWasGiven, Admin
<1>7. \A u : UserPermissionIDs(u)' = UserPermissionIDs(u)
  BY <1>1 DEF UserPermissionIDs
<1>8. ASSUME NEW p \in Requests, calls'[p] # NoCall, ~Admin(calls'[p].by)
      PROVE  /\ CallWithin(roles, teams, given, calls'[p])
             /\ calls'[p].calm =>
                  CallWithin(roles, teams, PermissionsHeld(roles, teams, members[calls'[p].by]), calls'[p])
  BY <1>0, <1>2, <1>3, <1>6, <1>8 DEF CallsWithin, UserPermissionIDs
<1>9. CallsWithin'
  BY <1>1, <1>8 DEF CallsWithin, UserPermissionIDs, Admin
<1> QED
  BY <1>4, <1>5, <1>9 DEF DelegationInductive

LEMMA AskRoleKept ==
    ASSUME DelegationInductive, NEW q \in Requests, NEW by \in People, NEW r \in OwnRoles,
           \/ \E perms \in PermissionSets : AskCreateRole(q, by, r, perms)
           \/ \E x \in RoleUpdates : AskUpdateRole(q, by, r, x[1], x[2])
           \/ AskDeleteRole(q, by, r)
    PROVE  DelegationInductive'
<1>1. ASSUME NEW perms \in PermissionSets, AskCreateRole(q, by, r, perms)
      PROVE  DelegationInductive'
  <2> DEFINE args == [role |-> r, perms |-> perms]
  <2>1. Accept(q, by, "createRole", args) /\ AuthorizeDelegatedPermissions(by, perms)
    BY <1>1 DEF AskCreateRole
  <2>2. perms \in SUBSET Permissions
    BY DelegationAssumption
  <2>3. args \in Args /\ args.role = r /\ args.perms = perms
    BY <2>2 DEF Args
  <2> HIDE DEF args
  <2>4. \A c : c.kind = "createRole" /\ c.args = args => ArgsFit(c)
    BY <2>2, <2>3 DEF ArgsFit, RoleKinds, TeamKinds, UserKinds
  <2>5. ~Admin(by) => \A c : c.kind = "createRole" /\ c.args = args =>
                          CallWithin(roles, teams, UserPermissionIDs(by), c)
    BY <2>1, <2>3 DEF CallWithin, AuthorizeDelegatedPermissions, UserKinds
  <2> QED
    BY <2>1, <2>3, <2>4, <2>5, AcceptKept DEF RoleKinds
<1>2. ASSUME NEW x \in RoleUpdates, AskUpdateRole(q, by, r, x[1], x[2])
      PROVE  DelegationInductive'
  <2> DEFINE args == [role |-> r, enabled |-> x[1], perms |-> x[2]]
  <2>1. /\ Accept(q, by, "updateRole", args)
        /\ \A ps \in x[2] : AuthorizeDelegatedPermissions(by, ps)
    BY <1>2 DEF AskUpdateRole
  <2>2. x[1] \in Optional(BOOLEAN) /\ x[2] \in Optional(SUBSET Permissions)
    BY DelegationAssumption
  <2>3. args \in Args /\ args.role = r /\ args.perms = x[2] /\ args.enabled = x[1]
    BY <2>2 DEF Args
  <2> HIDE DEF args
  <2>4. \A c : c.kind = "updateRole" /\ c.args = args => ArgsFit(c)
    BY <2>2, <2>3 DEF ArgsFit, RoleKinds, TeamKinds, UserKinds
  <2>5. ~Admin(by) => \A c : c.kind = "updateRole" /\ c.args = args =>
                          CallWithin(roles, teams, UserPermissionIDs(by), c)
    BY <2>1, <2>3 DEF CallWithin, AuthorizeDelegatedPermissions, UserKinds
  <2> QED
    BY <2>1, <2>3, <2>4, <2>5, AcceptKept DEF RoleKinds
<1>3. CASE AskDeleteRole(q, by, r)
  <2> DEFINE args == [role |-> r]
  <2>1. Accept(q, by, "deleteRole", args)
    BY <1>3 DEF AskDeleteRole
  <2>2. args \in Args /\ args.role = r
    BY DEF Args
  <2> HIDE DEF args
  <2>3. \A c : c.kind = "deleteRole" /\ c.args = args => ArgsFit(c)
    BY <2>2 DEF ArgsFit, RoleKinds, TeamKinds, UserKinds
  <2>4. \A c : c.kind = "deleteRole" => CallWithin(roles, teams, UserPermissionIDs(by), c)
    BY DEF CallWithin, UserKinds
  <2> QED
    BY <2>1, <2>2, <2>3, <2>4, AcceptKept DEF RoleKinds
<1> QED
  BY <1>1, <1>2, <1>3

\* What the checks of a delegate's grant say of roles and teams.
LEMMA GrantIsWithin ==
    ASSUME NEW by \in People, ~Admin(by)
    PROVE  /\ \A rs : AuthorizeRoleGrant(by, rs) =>
                 \A r \in rs : RoleWithin(roles, UserPermissionIDs(by), r)
           /\ \A ts : AuthorizeTeamGrant(by, ts) =>
                 \A t \in ts : TeamWithin(roles, teams, UserPermissionIDs(by), t)
<1>1. \A rs : AuthorizeRoleGrant(by, rs) =>
          \A r \in rs : RoleWithin(roles, UserPermissionIDs(by), r)
  BY DEF AuthorizeRoleGrant, RoleWithin
<1>2. \A ts : AuthorizeTeamGrant(by, ts) =>
          \A t \in ts : TeamWithin(roles, teams, UserPermissionIDs(by), t)
  BY <1>1 DEF AuthorizeTeamGrant, TeamWithin
<1> QED
  BY <1>1, <1>2

LEMMA AskTeamKept ==
    ASSUME DelegationInductive, NEW q \in Requests, NEW by \in People, NEW t \in Teams,
           \/ \E rs \in Optional(RoleSets) : AskCreateTeam(q, by, t, rs)
           \/ \E x \in TeamUpdates : AskUpdateTeam(q, by, t, x[1], x[2])
           \/ AskDeleteTeam(q, by, t)
    PROVE  DelegationInductive'
<1>1. ASSUME NEW rs \in Optional(RoleSets), AskCreateTeam(q, by, t, rs)
      PROVE  DelegationInductive'
  <2> DEFINE args == [team |-> t, defaults |-> rs]
  <2>1. Accept(q, by, "createTeam", args) /\ AuthorizeTeamDefaults(by, rs)
    BY <1>1 DEF AskCreateTeam
  <2>2. rs \in Optional(SUBSET Roles)
    BY DelegationAssumption DEF Optional
  <2>3. args \in Args /\ args.team = t /\ args.defaults = rs
    BY <2>2 DEF Args
  <2> HIDE DEF args
  <2>4. \A c : c.kind = "createTeam" /\ c.args = args => ArgsFit(c)
    BY <2>2, <2>3 DEF ArgsFit, RoleKinds, TeamKinds, UserKinds
  <2>5. ~Admin(by) => \A d \in rs : \A r \in d : RoleWithin(roles, UserPermissionIDs(by), r)
    BY <2>1, GrantIsWithin DEF AuthorizeTeamDefaults
  <2>6. ~Admin(by) => \A c : c.kind = "createTeam" /\ c.args = args =>
                          CallWithin(roles, teams, UserPermissionIDs(by), c)
    BY <2>3, <2>5 DEF CallWithin, UserKinds
  <2> QED
    BY <2>1, <2>3, <2>4, <2>6, AcceptKept DEF TeamKinds
<1>2. ASSUME NEW x \in TeamUpdates, AskUpdateTeam(q, by, t, x[1], x[2])
      PROVE  DelegationInductive'
  <2> DEFINE args == [team |-> t, enabled |-> x[1], defaults |-> x[2]]
  <2>1. /\ Accept(q, by, "updateTeam", args) /\ AuthorizeTeamDefaults(by, x[2])
        /\ MayEnable(by, t, x[1], x[2])
    BY <1>2 DEF AskUpdateTeam
  <2>2. x[1] \in Optional(BOOLEAN) /\ x[2] \in Optional(SUBSET Roles)
    BY DelegationAssumption
  <2>3. args \in Args /\ args.team = t /\ args.enabled = x[1] /\ args.defaults = x[2]
    BY <2>2 DEF Args
  <2> HIDE DEF args
  <2>4. \A c : c.kind = "updateTeam" /\ c.args = args => ArgsFit(c)
    BY <2>2, <2>3 DEF ArgsFit, RoleKinds, TeamKinds, UserKinds
  <2>5. ~Admin(by) => \A d \in x[2] : \A r \in d : RoleWithin(roles, UserPermissionIDs(by), r)
    BY <2>1, GrantIsWithin DEF AuthorizeTeamDefaults
  <2>6. ~Admin(by) /\ x[1] = {TRUE} /\ x[2] = {} =>
            TeamWithin(roles, teams, UserPermissionIDs(by), t)
    BY <2>1, GrantIsWithin DEF MayEnable, TeamWithin
  <2>7. ~Admin(by) => \A c : c.kind = "updateTeam" /\ c.args = args =>
                          CallWithin(roles, teams, UserPermissionIDs(by), c)
    BY <2>3, <2>5, <2>6 DEF CallWithin, UserKinds
  <2> QED
    BY <2>1, <2>3, <2>4, <2>7, AcceptKept DEF TeamKinds
<1>3. CASE AskDeleteTeam(q, by, t)
  <2> DEFINE args == [team |-> t]
  <2>1. Accept(q, by, "deleteTeam", args)
    BY <1>3 DEF AskDeleteTeam
  <2>2. args \in Args /\ args.team = t
    BY DEF Args
  <2> HIDE DEF args
  <2>3. \A c : c.kind = "deleteTeam" /\ c.args = args => ArgsFit(c)
    BY <2>2 DEF ArgsFit, RoleKinds, TeamKinds, UserKinds
  <2>4. \A c : c.kind = "deleteTeam" => CallWithin(roles, teams, UserPermissionIDs(by), c)
    BY DEF CallWithin, UserKinds
  <2> QED
    BY <2>1, <2>2, <2>3, <2>4, AcceptKept DEF TeamKinds
<1> QED
  BY <1>1, <1>2, <1>3

LEMMA AskMembershipKept ==
    ASSUME DelegationInductive, NEW q \in Requests, NEW by \in People, NEW k \in UserKinds,
           NEW u \in People \ Administrators, NEW rs \in RoleSets, NEW ts \in TeamSets,
           AskMembership(q, by, k, u, rs, ts)
    PROVE  DelegationInductive'
<1> DEFINE args == [user |-> u, roles |-> rs, teams |-> ts]
<1>1. Accept(q, by, k, args) /\ AuthorizeRoleGrant(by, rs) /\ AuthorizeTeamGrant(by, ts)
  BY DEF AskMembership
<1>2. rs \in SUBSET Roles /\ ts \in SUBSET Teams
  BY DelegationAssumption
<1>3. args \in Args /\ args.user = u /\ args.roles = rs /\ args.teams = ts
  BY <1>2 DEF Args
<1> HIDE DEF args
<1>4. \A c : c.kind = k /\ c.args = args => ArgsFit(c)
  BY <1>2, <1>3 DEF ArgsFit, RoleKinds, TeamKinds, UserKinds
<1>5. ~Admin(by) => /\ \A r \in rs : RoleWithin(roles, UserPermissionIDs(by), r)
                    /\ \A t \in ts : TeamWithin(roles, teams, UserPermissionIDs(by), t)
  BY <1>1, GrantIsWithin
<1>6. ~Admin(by) => \A c : c.kind = k /\ c.args = args =>
                        CallWithin(roles, teams, UserPermissionIDs(by), c)
  BY <1>3, <1>5 DEF CallWithin, UserKinds
<1> QED
  BY <1>1, <1>3, <1>4, <1>6, AcceptKept

LEMMA AskKept ==
    ASSUME DelegationInductive, NEW q \in Requests, NEW by \in People, Ask(q, by)
    PROVE  DelegationInductive'
<1>1. ASSUME NEW u \in People \ Administrators, NEW rs \in RoleSets, NEW ts \in TeamSets,
             AskMembership(q, by, IF members[u].here THEN "replaceUserRBAC" ELSE "createUser", u, rs, ts)
      PROVE  DelegationInductive'
  <2>1. (IF members[u].here THEN "replaceUserRBAC" ELSE "createUser") \in UserKinds
    BY DEF UserKinds
  <2> QED
    BY <1>1, <2>1, AskMembershipKept
<1> QED
  BY <1>1, AskRoleKept, AskTeamKept DEF Ask, OwnRoles

------------------------------------------------------------------------------
(* Requests that commit                                                    *)

LEMMA RolePermsWithin ==
    ASSUME NEW rs, NEW g, RolePerms(rs) \subseteq g
    PROVE  \A r \in rs : RoleWithin(roles, g, r)
  BY DEF RolePerms, RoleWithin

LEMMA RolePermsTyped ==
    ASSUME TablesTyped, NEW rs \in SUBSET Roles
    PROVE  RolePerms(rs) \subseteq Permissions
  BY RowBooleans DEF RolePerms

\* What an administrator commits counts as handed out.
LEMMA AdministratorGives ==
    ASSUME TablesTyped, CallsTyped, given \subseteq Permissions,
           NEW q \in Requests, Commit(q), Admin(calls[q].by)
    PROVE  /\ given \subseteq given' /\ given' \subseteq Permissions
           /\ CallWithin(roles, teams, given', calls[q])
<1> DEFINE c == calls[q]
           a == calls[q].args
<1>0. c # NoCall => ArgsFit(c)
  BY DEF CallsTyped
<1>1. CASE CreateRole(q)
  <2>1. c.kind = "createRole" /\ c # NoCall /\ given' = given \cup a.perms
    BY <1>1 DEF CreateRole, Pending, Gives
  <2> QED
    BY <1>0, <2>1 DEF ArgsFit, CallWithin, UserKinds
<1>2. CASE UpdateRole(q)
  <2>1. c.kind = "updateRole" /\ c # NoCall /\ given' = given \cup Given(a.perms, {})
    BY <1>2 DEF UpdateRole, Pending, Gives
  <2>2. a.perms \in Optional(SUBSET Permissions)
    BY <1>0, <2>1 DEF ArgsFit
  <2>3. \/ a.perms = {} /\ Given(a.perms, {}) = {}
        \/ \E x \in SUBSET Permissions : a.perms = {x} /\ Given(a.perms, {}) = x
    BY <2>2, OptionalGiven
  <2>4. given' \subseteq Permissions /\ \A ps \in a.perms : ps \subseteq given'
    BY <2>1, <2>3
  <2> QED
    BY <2>1, <2>4 DEF CallWithin, UserKinds
<1>3. CASE DeleteRole(q) \/ DeleteTeam(q)
  <2>1. c.kind \in {"deleteRole", "deleteTeam"} /\ given' = given
    BY <1>3 DEF DeleteRole, DeleteTeam, Pending
  <2> QED
    BY <2>1 DEF CallWithin, UserKinds
<1>4. CASE CreateTeam(q)
  <2> DEFINE ds == Given(a.defaults, {})
  <2>1. c.kind = "createTeam" /\ c # NoCall /\ given' = given \cup RolePerms(ds)
    BY <1>4 DEF CreateTeam, Pending, Gives
  <2>2. a.defaults \in Optional(SUBSET Roles)
    BY <1>0, <2>1 DEF ArgsFit
  <2>3. \/ a.defaults = {} /\ ds = {}
        \/ \E x \in SUBSET Roles : a.defaults = {x} /\ ds = x
    BY <2>2, OptionalGiven
  <2>4. ds \in SUBSET Roles /\ \A d \in a.defaults : d = ds
    BY <2>3
  <2> HIDE DEF ds
  <2>5. given' \subseteq Permissions /\ \A r \in ds : RoleWithin(roles, given', r)
    BY <2>1, <2>4, RolePermsTyped, RolePermsWithin
  <2> QED
    BY <2>1, <2>4, <2>5 DEF CallWithin, UserKinds
<1>5. CASE UpdateTeam(q)
  <2> DEFINE ds == Given(a.defaults, teams[a.team].defaults)
  <2>1. c.kind = "updateTeam" /\ c # NoCall /\ given' = given \cup RolePerms(ds)
    BY <1>5 DEF UpdateTeam, Pending, Gives
  <2>2. a.defaults \in Optional(SUBSET Roles) /\ a.team \in Teams
    BY <1>0, <2>1 DEF ArgsFit, TeamKinds
  <2>3. \/ a.defaults = {} /\ ds = teams[a.team].defaults
        \/ \E x \in SUBSET Roles : a.defaults = {x} /\ ds = x
    BY <2>2, OptionalGiven
  <2>4. /\ ds \in SUBSET Roles /\ \A d \in a.defaults : d = ds
        /\ a.defaults = {} => ds = teams[a.team].defaults
    BY <2>2, <2>3, RowBooleans
  <2> HIDE DEF ds
  <2>5. given' \subseteq Permissions /\ \A r \in ds : RoleWithin(roles, given', r)
    BY <2>1, <2>4, RolePermsTyped, RolePermsWithin
  <2> QED
    BY <2>1, <2>4, <2>5 DEF CallWithin, TeamWithin, UserKinds
<1>6. ASSUME NEW k \in UserKinds, SetMembership(q, k)
      PROVE  /\ given \subseteq given' /\ given' \subseteq Permissions
             /\ CallWithin(roles, teams, given', calls[q])
  <2> DEFINE rs == a.roles \cup UNION {teams[t].defaults : t \in a.teams}
  <2>1. c.kind \in UserKinds /\ c # NoCall /\ given' = given \cup RolePerms(rs)
    BY <1>6 DEF SetMembership, Pending, Gives
  <2>2. a.roles \in SUBSET Roles /\ a.teams \in SUBSET Teams
    BY <1>0, <2>1 DEF ArgsFit
  <2>3. rs \in SUBSET Roles
    BY <2>2, RowBooleans
  <2>4. a.roles \subseteq rs /\ \A t \in a.teams : teams[t].defaults \subseteq rs
    OBVIOUS
  <2> HIDE DEF rs
  <2>5. given' \subseteq Permissions /\ \A r \in rs : RoleWithin(roles, given', r)
    BY <2>1, <2>3, RolePermsTyped, RolePermsWithin
  <2> QED
    BY <2>1, <2>4, <2>5 DEF CallWithin, TeamWithin, UserKinds
<1> QED
  BY <1>1, <1>2, <1>3, <1>4, <1>5, <1>6 DEF Commit, UserKinds

LEMMA CommitIsGiven ==
    ASSUME DelegationInductive, NEW q \in Requests, Commit(q)
    PROVE  /\ given \subseteq given' /\ given' \subseteq Permissions
           /\ CallWithin(roles, teams, given', calls[q])
           /\ SwitchedWithin(given', calls[q])
<1>0. /\ TablesTyped /\ BindingsExist /\ given \subseteq Permissions
      /\ CallsTyped /\ OwnRolesWithin /\ CallsWithin
  BY DelegationTypeParts DEF DelegationInductive
<1>1. calls[q] # NoCall /\ ArgsFit(calls[q])
  BY <1>0, EveryCommitFits DEF CallsTyped
<1>2. CASE Admin(calls[q].by)
  BY <1>0, <1>1, <1>2, AdministratorGives DEF SwitchedWithin, OwnRolesWithin, ArgsFit, RoleKinds
<1>3. CASE ~Admin(calls[q].by)
  <2>1. given' = given
    BY <1>3 DEF Commit, CreateRole, UpdateRole, DeleteRole, CreateTeam, UpdateTeam, DeleteTeam,
                SetMembership, Gives
  <2>2. CallWithin(roles, teams, given, calls[q])
    BY <1>0, <1>1, <1>3 DEF CallsWithin
  <2> QED
    BY <1>0, <1>1, <2>1, <2>2 DEF SwitchedWithin, OwnRolesWithin, ArgsFit, RoleKinds
<1> QED
  BY <1>2, <1>3

LEMMA CommitKept ==
    ASSUME DelegationInductive, NEW q \in Requests, Commit(q)
    PROVE  DelegationInductive'
<1>0. /\ TablesTyped /\ BindingsExist /\ given \subseteq Permissions /\ commits \in 0..MaxCommits
      /\ CallsTyped /\ OwnRolesWithin /\ HeldWasGiven /\ CallsWithin
  BY DelegationTypeParts DEF DelegationInductive
<1>1. CommitFits(q) /\ Done(q) /\ commits < MaxCommits
  BY <1>0, EveryCommitFits
<1>2. given \subseteq given' /\ given' \subseteq Permissions
  BY CommitIsGiven
<1>3. /\ TablesTyped' /\ BindingsExist'
      /\ \A r \in BuiltIn : roles'[r] = roles[r]
      /\ RolesMove(given') /\ TeamsMove(given') /\ MembersMove(given')
  BY <1>1, CommitIsGiven DEF CommitFits
<1>4. DelegationTypeOK'
  <2>1. commits' \in 0..MaxCommits
    BY <1>0, <1>1, DelegationAssumption DEF Done
  <2> QED
    BY <1>2, <1>3, <2>1 DEF DelegationTypeOK, TablesTyped, BindingsExist, RoleRow, TeamRow, MemberRow
<1>5. OwnRolesWithin'
  BY <1>0, <1>2, <1>3 DEF OwnRolesWithin, RolesMove, OwnRoles
<1>6. HeldWasGiven'
  <2>1. ASSUME NEW u \in People \ Administrators
        PROVE  PermissionsHeld(roles', teams', members'[u]) \subseteq given'
    BY <1>0, <1>2, <1>3, HeldWithin DEF HeldWasGiven
  <2> QED
    BY <2>1 DEF HeldWasGiven, UserPermissionIDs
<1>7. \A r \in Roles : RoleWithin(roles, given, r) => RoleWithin(roles', given', r)
  BY <1>2, <1>3, <1>5 DEF RoleWithin, OwnRolesWithin, OwnRoles
<1>8. \A t \in Teams : TeamWithin(roles, teams, given, t) => TeamWithin(roles', teams', given', t)
  BY <1>0, <1>3, <1>7, RowBooleans DEF TeamsMove, TeamWithin
<1>9. CallsWithin'
  <2>1. ASSUME NEW p \in Requests, calls'[p] # NoCall, ~Admin(calls'[p].by)
        PROVE  CallWithin(roles', teams', given', calls'[p]) /\ calls'[p].calm = FALSE
    <3>1. /\ calls[p] # NoCall /\ calls'[p].by = calls[p].by /\ calls'[p].calm = FALSE
          /\ calls'[p].kind = calls[p].kind /\ calls'[p].args = calls[p].args
      BY <1>0, <1>1, <2>1, OthersDisturbed
    <3>2. CallWithin(roles, teams, given, calls[p]) /\ ArgsFit(calls[p])
      BY <1>0, <2>1, <3>1 DEF CallsWithin, CallsTyped
    <3>3. calls[p].kind = "createRole" => calls[p].args.perms \subseteq given'
      BY <1>2, <3>2 DEF CallWithin
    <3>4. calls[p].kind = "updateRole" => \A ps \in calls[p].args.perms : ps \subseteq given'
      BY <1>2, <3>2 DEF CallWithin
    <3>5. calls[p].kind \in {"createTeam", "updateTeam"} =>
             \A d \in calls[p].args.defaults : \A r \in d : RoleWithin(roles', given', r)
      <4>1. ASSUME calls[p].kind \in {"createTeam", "updateTeam"},
                   NEW d \in calls[p].args.defaults, NEW r \in d
            PROVE  RoleWithin(roles', given', r)
        <5>1. r \in Roles
          BY <3>2, <4>1 DEF ArgsFit, Optional
        <5>2. RoleWithin(roles, given, r)
          BY <3>2, <4>1 DEF CallWithin
        <5> QED
          BY <1>7, <5>1, <5>2
      <4> QED
        BY <4>1
    <3>6. calls[p].kind = "updateTeam" /\ calls[p].args.enabled = {TRUE} /\ calls[p].args.defaults = {} =>
             TeamWithin(roles', teams', given', calls[p].args.team)
      BY <1>8, <3>2 DEF CallWithin, ArgsFit, TeamKinds
    <3>7. calls[p].kind \in UserKinds =>
             /\ \A r \in calls[p].args.roles : RoleWithin(roles', given', r)
             /\ \A t \in calls[p].args.teams : TeamWithin(roles', teams', given', t)
      BY <1>7, <1>8, <3>2 DEF CallWithin, ArgsFit
    <3> QED
      BY <3>1, <3>3, <3>4, <3>5, <3>6, <3>7 DEF CallWithin
  <2> QED
    BY <2>1 DEF CallsWithin, Admin
<1>10. CallsTyped'
  BY <1>0, <1>1, OthersDisturbed
<1> QED
  BY <1>4, <1>5, <1>6, <1>9, <1>10 DEF DelegationInductive

LEMMA AbandonKept ==
    ASSUME DelegationInductive, NEW q \in Requests, Abandon(q)
    PROVE  DelegationInductive'
<1>0. DelegationTypeOK /\ CallsTyped /\ OwnRolesWithin /\ HeldWasGiven /\ CallsWithin
  BY DEF DelegationInductive
<1>1. calls' = [calls EXCEPT ![q] = NoCall] /\ UNCHANGED <<roles, teams, members, given, commits>>
  BY DEF Abandon
<1>2. \A p \in Requests : calls'[p] = IF p = q THEN NoCall ELSE calls[p]
  BY <1>0, <1>1 DEF CallsTyped
<1>3. DelegationTypeOK' /\ OwnRolesWithin' /\ HeldWasGiven'
  BY <1>0, <1>1 DEF DelegationTypeOK, OwnRolesWithin, HeldWasGiven, UserPermissionIDs
<1>4. CallsTyped'
  BY <1>0, <1>1, <1>2 DEF CallsTyped
<1>5. CallsWithin'
  BY <1>0, <1>1, <1>2 DEF CallsWithin, UserPermissionIDs, Admin
<1> QED
  BY <1>3, <1>4, <1>5 DEF DelegationInductive

------------------------------------------------------------------------------
(* Theorems about delegation                                               *)

\* DelegationInductive holds in every reachable state: whatever commits between the
\* checks of a delegate's request and its transaction, the request stays within
\* what administrators have handed out.
THEOREM DelegationSafe == DelegationSpec => []DelegationInductive
<1>1. DelegationInit => DelegationInductive
  <2> SUFFICES ASSUME DelegationInit PROVE DelegationInductive
    OBVIOUS
  <2>1. DelegationTypeOK /\ DelegationStart(roles, teams, members)
    BY DEF DelegationInit
  <2>2. calls = [q \in Requests |-> NoCall]
    BY <2>1 DEF DelegationStart
  <2>3. CallsTyped /\ CallsWithin
    BY <2>2 DEF CallsTyped, CallsWithin
  <2>4. OwnRolesWithin
    <3> DEFINE held == UNION {PermissionsHeld(roles, teams, members[u]) : u \in People \ Administrators}
               own  == UNION {roles[r].perms : r \in Roles \ BuiltIn}
    <3>1. given = held \cup own
      BY <2>1 DEF DelegationStart
    <3>2. \A r \in Roles \ BuiltIn : roles[r].perms \subseteq own
      OBVIOUS
    <3> HIDE DEF held, own
    <3> QED
      BY <3>1, <3>2 DEF OwnRolesWithin, OwnRoles
  <2>5. HeldWasGiven
    BY <2>1 DEF DelegationStart, HeldWasGiven, UserPermissionIDs
  <2> QED
    BY <2>1, <2>3, <2>4, <2>5 DEF DelegationInductive
<1>2. DelegationInductive /\ [DelegationNext]_delegationVars => DelegationInductive'
  <2> SUFFICES ASSUME DelegationInductive, [DelegationNext]_delegationVars PROVE DelegationInductive'
    OBVIOUS
  <2>1. CASE UNCHANGED delegationVars
    BY <2>1 DEF delegationVars, DelegationInductive, DelegationTypeOK, CallsTyped, OwnRolesWithin,
                HeldWasGiven, CallsWithin, UserPermissionIDs, Admin
  <2> QED
    BY <2>1, AskKept, CommitKept, AbandonKept DEF DelegationNext
<1> QED
  BY <1>1, <1>2, PTL DEF DelegationSpec

\* Types, and that nobody but an administrator ever holds a permission that no
\* administrator handed out, however the requests of delegates interleave.
THEOREM DelegationCorrect == DelegationSpec => []DelegationInvariant
<1>1. DelegationInductive => DelegationInvariant
  BY DEF DelegationInductive, DelegationInvariant
<1> QED
  BY <1>1, DelegationSafe, PTL

\* A delegate's request that nothing disturbs between checks and transaction gives
\* nobody a permission that the delegate does not hold, but for switching a role on.
THEOREM DelegatesGiveTheirOwn == DelegationSpec => DelegatesGiveWhatTheyHold
<1> DEFINE Undisturbed(q) ==
              /\ calls[q] # NoCall /\ calls'[q] = NoCall /\ commits' > commits
              /\ ~Admin(calls[q].by) /\ calls[q].calm
              /\ ~(calls[q].kind = "updateRole" /\ calls[q].args.enabled = {TRUE})
           Own(q) ==
              \A u \in People :
                  PermissionsHeld(roles', teams', members'[u])
                      \subseteq UserPermissionIDs(u) \cup UserPermissionIDs(calls[q].by)
<1>1. ASSUME DelegationInductive, [DelegationNext]_delegationVars, NEW q \in Requests, Undisturbed(q)
      PROVE  Own(q)
  <2>0. /\ TablesTyped /\ BindingsExist /\ CallsTyped /\ CallsWithin /\ commits \in 0..MaxCommits
    BY <1>1, DelegationTypeParts DEF DelegationInductive
  <2>1. commits' # commits
    BY <1>1, <2>0
  <2>2. PICK p \in Requests : Commit(p)
    BY <1>1, <2>1 DEF DelegationNext, delegationVars, Abandon, Ask, AskCreateRole, AskUpdateRole,
       AskDeleteRole, AskCreateTeam, AskUpdateTeam, AskDeleteTeam, AskMembership, Accept
  <2>3. CommitFits(p) /\ Done(p) /\ calls[p] # NoCall
    BY <2>0, <2>2, EveryCommitFits
  <2>4. p = q
    <3>1. ASSUME p # q PROVE FALSE
      <4>1. calls[q] \in Call /\ calls'[q] = [calls[q] EXCEPT !.calm = FALSE]
        BY <1>1, <2>0, <2>3, <3>1 DEF CallsTyped, Done
      <4> QED
        BY <1>1, <4>1, CallFields
    <3> QED
      BY <3>1
  <2>5. CallWithin(roles, teams, UserPermissionIDs(calls[q].by), calls[q])
    BY <1>1, <2>0 DEF CallsWithin
  <2>6. ASSUME NEW u \in People
        PROVE  PermissionsHeld(roles', teams', members'[u])
                  \subseteq UserPermissionIDs(u) \cup UserPermissionIDs(calls[q].by)
    <3> DEFINE g == UserPermissionIDs(u) \cup UserPermissionIDs(calls[q].by)
    <3>1. CallWithin(roles, teams, g, calls[q])
      BY <2>5, CallWithinGrows
    <3>2. SwitchedWithin(g, calls[q])
      BY <1>1 DEF SwitchedWithin
    <3>3. UserPermissionIDs(u) \subseteq g
      OBVIOUS
    <3> HIDE DEF g
    <3>4. TablesTyped' /\ RolesMove(g) /\ TeamsMove(g) /\ MembersMove(g)
      BY <2>3, <2>4, <3>1, <3>2 DEF CommitFits
    <3>5. PermissionsHeld(roles', teams', members'[u]) \subseteq g
      BY <2>0, <3>3, <3>4, HeldWithin
    <3> QED
      BY <3>5 DEF g
  <2> QED
    BY <2>6
<1>2. DelegationInductive /\ [DelegationNext]_delegationVars =>
          [\A q \in Requests : Undisturbed(q) => Own(q)]_delegationVars
  BY <1>1
<1> QED
  BY <1>2, DelegationSafe, PTL DEF DelegationSpec, DelegatesGiveWhatTheyHold

------------------------------------------------------------------------------
(* Data scope: the least of a set of numbers.                                *)

LEMMA LeastExists ==
    ASSUME NEW S \in SUBSET Nat, S # {}
    PROVE  \E x \in S : \A y \in S : x <= y
<1> DEFINE R == OpToRel(<, Nat)
<1>1. \E x \in S : \A y \in S : ~(<<y, x>> \in R)
  <2>1. IsWellFoundedOn(R, Nat)
    BY NatLessThanWellFounded
  <2> HIDE DEF R
  <2> QED BY <2>1, WFMin
<1>2. \A x, y \in Nat : <<y, x>> \in R <=> y < x
  BY DEF OpToRel
<1> HIDE DEF R
<1>3. PICK x \in S : \A y \in S : <<y, x>> \notin R
  BY <1>1
<1>4. ASSUME NEW y \in S PROVE x <= y
  <2>1. ~(y < x)
    BY <1>2, <1>3, Zenon
  <2> QED BY <2>1
<1> QED BY <1>4

------------------------------------------------------------------------------
(* Walks over a finite set: f grows sets, r grows {a} by f step by step.     *)

\* A set of places 0 .. n that misses one of them misses a first one.
LEMMA FirstMissing ==
    ASSUME NEW n \in Nat, NEW G, NEW i \in 0 .. n, i \notin G
    PROVE  \E x \in 0 .. n : x \notin G /\ (x = 0 \/ (x - 1 \in 0 .. n /\ x - 1 \in G))
<1> DEFINE T == {j \in 0 .. n : j \notin G}
<1>1. T \in SUBSET Nat /\ T # {}
  OBVIOUS
<1>2. PICK x \in T : \A y \in T : x <= y
  BY <1>1, LeastExists
<1>3. x \in 0 .. n /\ x \notin G
  OBVIOUS
<1>4. ASSUME x # 0 PROVE x - 1 \in 0 .. n /\ x - 1 \in G
  <2>1. x - 1 \in 0 .. n /\ ~(x <= x - 1)
    BY <1>3, <1>4
  <2>2. x - 1 \notin T
    <3> HIDE DEF T
    <3> QED BY <1>2, <2>1
  <2> QED BY <2>1, <2>2
<1> QED BY <1>3, <1>4

Grows(U, f)         == f \in [SUBSET U -> SUBSET U] /\ \A S \in SUBSET U : S \subseteq f[S]
Walks(U, f, a, n, r) == r[0] = {a} /\ \A i \in 1 .. n : r[i - 1] \in SUBSET U => r[i] = f[r[i - 1]]

\* A walk exists.
LEMMA WalkOfAnyLength ==
    ASSUME NEW U, NEW f, Grows(U, f), NEW a \in U, NEW n \in Nat
    PROVE  \E r \in [0 .. n -> SUBSET U] : Walks(U, f, a, n, r)
<1> DEFINE G == {m \in 0 .. n : \E r \in [0 .. m -> SUBSET U] : Walks(U, f, a, m, r)}
<1>1. n \in G
  <2> SUFFICES ASSUME n \notin G PROVE FALSE
      OBVIOUS
  <2>1. PICK x \in 0 .. n : x \notin G /\ (x = 0 \/ (x - 1 \in 0 .. n /\ x - 1 \in G))
    <3> HIDE DEF G
    <3> QED BY FirstMissing
  <2>2. CASE x = 0
    <3> DEFINE r == [j \in 0 .. 0 |-> {a}]
    <3>1. r \in [0 .. x -> SUBSET U] /\ r[0] = {a}
      BY <2>2
    <3>2. \A i \in 1 .. x : FALSE
      BY <2>2
    <3> HIDE DEF r
    <3>3. Walks(U, f, a, x, r)
      BY <3>1, <3>2 DEF Walks
    <3> QED BY <2>1, <3>1, <3>3
  <2>3. CASE x - 1 \in 0 .. n /\ x - 1 \in G
    <3>1. PICK q \in [0 .. x - 1 -> SUBSET U] : Walks(U, f, a, x - 1, q)
      BY <2>3
    <3>2. x \in Nat /\ x - 1 \in Nat
      BY <2>3
    <3>3. PICK last \in SUBSET U : last = f[q[x - 1]]
      <4>1. x - 1 \in 0 .. x - 1
        BY <3>2
      <4>2. q[x - 1] \in SUBSET U
        BY <3>1, <4>1
      <4>3. f[q[x - 1]] \in SUBSET U
        BY <4>2 DEF Grows
      <4> QED BY <4>3
    <3> DEFINE r == [j \in 0 .. x |-> IF j = x THEN last ELSE q[j]]
    <3>4. r \in [0 .. x -> SUBSET U] /\ r[x] = last /\ \A j \in 0 .. x - 1 : r[j] = q[j]
      BY <3>1, <3>2
    <3> HIDE DEF r
    <3>5. r[0] = {a}
      BY <3>1, <3>2, <3>4 DEF Walks
    <3>6. ASSUME NEW i \in 1 .. x PROVE r[i] = f[r[i - 1]]
      <4>1. CASE i = x
        BY <3>2, <3>3, <3>4, <4>1
      <4>2. CASE i # x
        <5>1. i \in 1 .. x - 1 /\ i - 1 \in 0 .. x - 1 /\ i \in 0 .. x - 1
          BY <3>2, <4>2
        <5> QED BY <3>1, <3>4, <5>1 DEF Walks
      <4> QED BY <4>1, <4>2
    <3>7. Walks(U, f, a, x, r)
      BY <3>5, <3>6 DEF Walks
    <3> QED BY <2>1, <3>4, <3>7
  <2> QED BY <2>1, <2>2, <2>3
<1> QED BY <1>1

\* A walk stays inside the sets that hold its start and what f makes of their parts.
LEMMA WalkStaysInside ==
    ASSUME NEW U, NEW f, Grows(U, f), NEW a \in U, NEW n \in Nat, NEW r, Walks(U, f, a, n, r),
           NEW C \in SUBSET U, a \in C, \A S \in SUBSET C : f[S] \subseteq C, NEW k \in 0 .. n
    PROVE  r[k] \in SUBSET C /\ a \in r[k]
<1> DEFINE G == {i \in 0 .. n : r[i] \in SUBSET C /\ a \in r[i]}
<1>1. k \in G
  <2> SUFFICES ASSUME k \notin G PROVE FALSE
      OBVIOUS
  <2>1. PICK x \in 0 .. n : x \notin G /\ (x = 0 \/ (x - 1 \in 0 .. n /\ x - 1 \in G))
    <3> HIDE DEF G
    <3> QED BY FirstMissing
  <2>2. CASE x = 0
    BY <2>1, <2>2 DEF Walks
  <2>3. CASE x - 1 \in 0 .. n /\ x - 1 \in G
    <3>1. x \in 1 .. n /\ r[x - 1] \in SUBSET C /\ r[x - 1] \in SUBSET U /\ a \in r[x - 1]
      BY <2>1, <2>3
    <3>2. r[x] = f[r[x - 1]]
      BY <3>1 DEF Walks
    <3>3. r[x] \in SUBSET C /\ a \in r[x]
      BY <3>1, <3>2 DEF Grows
    <3> QED BY <2>1, <3>3
  <2> QED BY <2>1, <2>2, <2>3
<1> QED BY <1>1

\* A walk of as many steps as there are other elements ends where nothing is added.
LEMMA WalkEnds ==
    ASSUME NEW U, IsFiniteSet(U), NEW f, Grows(U, f), NEW a \in U, NEW n \in Nat, Cardinality(U) <= n + 1,
           NEW r, Walks(U, f, a, n, r)
    PROVE  r[n] \in SUBSET U /\ f[r[n]] = r[n]
<1>1. \A i \in 0 .. n : r[i] \in SUBSET U
  <2>1. \A S \in SUBSET U : f[S] \subseteq U
    BY DEF Grows
  <2> QED BY <2>1, WalkStaysInside
<1>2. \A S \in SUBSET U : IsFiniteSet(S) /\ Cardinality(S) \in Nat
  BY FS_Subset, FS_CardinalityType
<1> DEFINE G == {i \in 0 .. n : Cardinality(r[i]) >= i + 1 \/ f[r[i]] = r[i]}
<1>3. n \in G
  <2> SUFFICES ASSUME n \notin G PROVE FALSE
      OBVIOUS
  <2>1. PICK x \in 0 .. n : x \notin G /\ (x = 0 \/ (x - 1 \in 0 .. n /\ x - 1 \in G))
    <3> HIDE DEF G
    <3> QED BY FirstMissing
  <2>2. CASE x = 0
    <3>1. Cardinality(r[0]) = 1
      BY FS_Singleton DEF Walks
    <3> QED BY <2>1, <2>2, <3>1
  <2>3. CASE x - 1 \in 0 .. n /\ x - 1 \in G
    <3>1. /\ x \in 1 .. n /\ x - 1 \in 0 .. n
          /\ Cardinality(r[x - 1]) >= (x - 1) + 1 \/ f[r[x - 1]] = r[x - 1]
      BY <2>1, <2>3
    <3>2. PICK S \in SUBSET U : S = r[x - 1]
      BY <1>1, <3>1
    <3>3. PICK V \in SUBSET U : V = r[x]
      BY <1>1
    <3>4. V = f[S] /\ S \subseteq V
      BY <3>1, <3>2, <3>3 DEF Walks, Grows
    <3>5. CASE f[S] = S
      BY <2>1, <3>2, <3>3, <3>4, <3>5
    <3>6. CASE f[S] # S
      <4>1. Cardinality(S) >= x
        BY <3>1, <3>2, <3>6
      <4>2. Cardinality(S) < Cardinality(V)
        <5>1. Cardinality(S) <= Cardinality(V) /\ (Cardinality(S) = Cardinality(V) => S = V)
          BY <1>2, <3>4, FS_Subset
        <5> QED BY <1>2, <3>4, <3>6, <5>1
      <4>3. Cardinality(V) >= x + 1
        BY <1>2, <4>1, <4>2
      <4> QED BY <2>1, <3>3, <4>3
    <3> QED BY <3>5, <3>6
  <2> QED BY <2>1, <2>2, <2>3
<1>4. PICK S \in SUBSET U : S = r[n]
  BY <1>1
<1>5. CASE f[S] = S
  BY <1>4, <1>5
<1>6. CASE f[S] # S
  <2>1. Cardinality(S) >= n + 1
    BY <1>3, <1>4, <1>6
  <2>2. Cardinality(S) <= Cardinality(U) /\ (Cardinality(S) = Cardinality(U) => S = U)
    BY FS_Subset
  <2>3. Cardinality(U) \in Nat /\ Cardinality(S) \in Nat
    BY <1>2
  <2>4. S = U
    BY <2>1, <2>2, <2>3
  <2> QED BY <1>6, <2>4 DEF Grows
<1> QED BY <1>4, <1>5, <1>6

------------------------------------------------------------------------------
(* The tree of teams.                                                        *)

Places == Departments \cup {Top}

LEMMA PlacesFacts ==
    /\ IsFiniteSet(Places) /\ Cardinality(Departments) \in Nat
    /\ Cardinality(Places) <= Cardinality(Departments) + 1
    /\ \A t \in Departments : t \in Places /\ ParentOf[t] \in Places
<1>1. IsFiniteSet(Departments) /\ Cardinality(Departments) \in Nat
  BY ScopeAssumption, FS_CardinalityType
<1>2. /\ IsFiniteSet(Departments \cup {Top})
      /\ Cardinality(Departments \cup {Top}) = IF Top \in Departments THEN Cardinality(Departments) ELSE Cardinality(Departments) + 1
  BY <1>1, FS_AddElement
<1> QED BY <1>1, <1>2, ScopeAssumption DEF Places

\* A set that holds the live children, or the parents of the live, of what it holds.
DownClosed(C, L) == \A t \in L : ParentOf[t] \in C => t \in C
UpClosed(C, L)   == \A u \in C \cap L : ParentOf[u] \in C

\* SubtreeIDs is the least set with the team and the live children of what it holds.
LEMMA SubtreeIsClosure ==
    ASSUME NEW a \in Places, NEW L \in SUBSET Departments
    PROVE  /\ SubtreeIDs(a, L) \in SUBSET Places /\ a \in SubtreeIDs(a, L) /\ DownClosed(SubtreeIDs(a, L), L)
           /\ \A C \in SUBSET Places : a \in C /\ DownClosed(C, L) => SubtreeIDs(a, L) \subseteq C
<1>1. PICK n \in Nat : n = Cardinality(Departments)
  BY PlacesFacts
<1>2. \A t \in L : t \in Places
  BY PlacesFacts
<1> DEFINE f == [S \in SUBSET Places |-> S \cup {t \in L : ParentOf[t] \in S}]
           Steps(g) == g = [i \in 0 .. n |-> IF i = 0 THEN {a} ELSE g[i - 1] \cup {t \in L : ParentOf[t] \in g[i - 1]}]
<1>3. /\ f \in [SUBSET Places -> SUBSET Places]
      /\ \A S \in SUBSET Places : f[S] = S \cup {t \in L : ParentOf[t] \in S}
  BY <1>2
<1> HIDE DEF f
<1>4. Grows(Places, f)
  BY <1>3 DEF Grows
<1>5. PICK g \in [0 .. n -> SUBSET Places] : Walks(Places, f, a, n, g)
  BY <1>4, WalkOfAnyLength
<1>6. Steps(g)
  <2>1. ASSUME NEW i \in 0 .. n
        PROVE  g[i] = IF i = 0 THEN {a} ELSE g[i - 1] \cup {t \in L : ParentOf[t] \in g[i - 1]}
    <3>1. CASE i = 0
      BY <1>5, <3>1 DEF Walks
    <3>2. CASE i # 0
      <4>1. i \in 1 .. n /\ i - 1 \in 0 .. n
        BY <3>2
      <4>2. g[i - 1] \in SUBSET Places
        BY <4>1
      <4>3. g[i] = f[g[i - 1]]
        BY <1>5, <4>1, <4>2 DEF Walks
      <4> QED BY <1>3, <3>2, <4>2, <4>3
    <3> QED BY <3>1, <3>2
  <2>2. g = [i \in 0 .. n |-> g[i]]
    OBVIOUS
  <2> QED BY <2>1, <2>2
<1>7. PICK p : p = CHOOSE h : Steps(h)
  OBVIOUS
<1>8. Steps(p)
  <2> HIDE DEF Steps
  <2> QED BY <1>6, <1>7
<1>9. SubtreeIDs(a, L) = p[n]
  BY <1>1, <1>7 DEF SubtreeIDs
<1>10. Walks(Places, f, a, n, p)
  <2>1. \A i \in 0 .. n : p[i] = IF i = 0 THEN {a} ELSE p[i - 1] \cup {t \in L : ParentOf[t] \in p[i - 1]}
    BY <1>8
  <2>2. p[0] = {a}
    <3>1. 0 \in 0 .. n
      OBVIOUS
    <3> QED BY <2>1, <3>1
  <2>3. ASSUME NEW i \in 1 .. n, p[i - 1] \in SUBSET Places PROVE p[i] = f[p[i - 1]]
    <3>1. i \in 0 .. n /\ i # 0
      OBVIOUS
    <3>2. p[i] = p[i - 1] \cup {t \in L : ParentOf[t] \in p[i - 1]}
      BY <2>1, <3>1
    <3> QED BY <1>3, <2>3, <3>2
  <2> QED BY <2>2, <2>3 DEF Walks
<1> HIDE DEF Steps
<1>11. p[n] \in SUBSET Places /\ f[p[n]] = p[n]
  BY <1>1, <1>4, <1>10, PlacesFacts, WalkEnds
<1>12. DownClosed(p[n], L)
  BY <1>3, <1>11 DEF DownClosed
<1>13. ASSUME NEW C \in SUBSET Places, a \in C, DownClosed(C, L) PROVE p[n] \in SUBSET C /\ a \in p[n]
  <2>1. ASSUME NEW S \in SUBSET C PROVE f[S] \subseteq C
    <3>1. S \in SUBSET Places
      BY <1>13
    <3> QED BY <1>3, <1>13, <3>1 DEF DownClosed
  <2>2. n \in 0 .. n
    OBVIOUS
  <2> QED BY <1>4, <1>10, <1>13, <2>1, <2>2, WalkStaysInside
<1>14. a \in p[n]
  <2>1. Places \in SUBSET Places /\ DownClosed(Places, L)
    BY <1>2 DEF DownClosed
  <2> QED BY <1>13, <2>1
<1> QED BY <1>9, <1>11, <1>12, <1>13, <1>14

\* What Below looks at: the team and everything above it.
Above(t, L) ==
    LET n == Cardinality(Departments)
        above[i \in 0..n] ==
            IF i = 0 THEN {t}
            ELSE LET found == above[i - 1]
                 IN  found \cup {ParentOf[u] : u \in found \cap L}
    IN  above[n]

LEMMA AboveIsClosure ==
    ASSUME NEW a \in Places, NEW L \in SUBSET Departments
    PROVE  /\ Above(a, L) \in SUBSET Places /\ a \in Above(a, L) /\ UpClosed(Above(a, L), L)
           /\ \A C \in SUBSET Places : a \in C /\ UpClosed(C, L) => Above(a, L) \subseteq C
<1>1. PICK n \in Nat : n = Cardinality(Departments)
  BY PlacesFacts
<1>2. \A t \in L : ParentOf[t] \in Places
  BY PlacesFacts
<1> DEFINE f == [S \in SUBSET Places |-> S \cup {ParentOf[u] : u \in S \cap L}]
           Steps(g) == g = [i \in 0 .. n |-> IF i = 0 THEN {a} ELSE g[i - 1] \cup {ParentOf[u] : u \in g[i - 1] \cap L}]
<1>3. /\ f \in [SUBSET Places -> SUBSET Places]
      /\ \A S \in SUBSET Places : f[S] = S \cup {ParentOf[u] : u \in S \cap L}
  BY <1>2
<1> HIDE DEF f
<1>4. Grows(Places, f)
  BY <1>3 DEF Grows
<1>5. PICK g \in [0 .. n -> SUBSET Places] : Walks(Places, f, a, n, g)
  BY <1>4, WalkOfAnyLength
<1>6. Steps(g)
  <2>1. ASSUME NEW i \in 0 .. n
        PROVE  g[i] = IF i = 0 THEN {a} ELSE g[i - 1] \cup {ParentOf[u] : u \in g[i - 1] \cap L}
    <3>1. CASE i = 0
      BY <1>5, <3>1 DEF Walks
    <3>2. CASE i # 0
      <4>1. i \in 1 .. n /\ i - 1 \in 0 .. n
        BY <3>2
      <4>2. g[i - 1] \in SUBSET Places
        BY <4>1
      <4>3. g[i] = f[g[i - 1]]
        BY <1>5, <4>1, <4>2 DEF Walks
      <4> QED BY <1>3, <3>2, <4>2, <4>3
    <3> QED BY <3>1, <3>2
  <2>2. g = [i \in 0 .. n |-> g[i]]
    OBVIOUS
  <2> QED BY <2>1, <2>2
<1>7. PICK p : p = CHOOSE h : Steps(h)
  OBVIOUS
<1>8. Steps(p)
  <2> HIDE DEF Steps
  <2> QED BY <1>6, <1>7
<1>9. Above(a, L) = p[n]
  BY <1>1, <1>7 DEF Above
<1>10. Walks(Places, f, a, n, p)
  <2>1. \A i \in 0 .. n : p[i] = IF i = 0 THEN {a} ELSE p[i - 1] \cup {ParentOf[u] : u \in p[i - 1] \cap L}
    BY <1>8
  <2>2. p[0] = {a}
    <3>1. 0 \in 0 .. n
      OBVIOUS
    <3> QED BY <2>1, <3>1
  <2>3. ASSUME NEW i \in 1 .. n, p[i - 1] \in SUBSET Places PROVE p[i] = f[p[i - 1]]
    <3>1. i \in 0 .. n /\ i # 0
      OBVIOUS
    <3>2. p[i] = p[i - 1] \cup {ParentOf[u] : u \in p[i - 1] \cap L}
      BY <2>1, <3>1
    <3> QED BY <1>3, <2>3, <3>2
  <2> QED BY <2>2, <2>3 DEF Walks
<1> HIDE DEF Steps
<1>11. p[n] \in SUBSET Places /\ f[p[n]] = p[n]
  BY <1>1, <1>4, <1>10, PlacesFacts, WalkEnds
<1>12. UpClosed(p[n], L)
  BY <1>3, <1>11 DEF UpClosed
<1>13. ASSUME NEW C \in SUBSET Places, a \in C, UpClosed(C, L) PROVE p[n] \in SUBSET C /\ a \in p[n]
  <2>1. ASSUME NEW S \in SUBSET C PROVE f[S] \subseteq C
    <3>1. S \in SUBSET Places
      BY <1>13
    <3> QED BY <1>3, <1>13, <3>1 DEF UpClosed
  <2>2. n \in 0 .. n
    OBVIOUS
  <2> QED BY <1>4, <1>10, <1>13, <2>1, <2>2, WalkStaysInside
<1>14. a \in p[n]
  <2>1. Places \in SUBSET Places /\ UpClosed(Places, L)
    BY <1>2 DEF UpClosed
  <2> QED BY <1>13, <2>1
<1> QED BY <1>9, <1>11, <1>12, <1>13, <1>14

\* A part of the tree below a team in a subtree is in that subtree.
LEMMA SubtreesNest ==
    ASSUME NEW a \in Places, NEW L \in SUBSET Departments, NEW K \in SUBSET L, NEW b \in SubtreeIDs(a, L)
    PROVE  SubtreeIDs(b, K) \subseteq SubtreeIDs(a, L) /\ b \in Places
<1>1. /\ SubtreeIDs(a, L) \in SUBSET Places /\ DownClosed(SubtreeIDs(a, L), L)
  BY SubtreeIsClosure
<1>2. DownClosed(SubtreeIDs(a, L), K)
  BY <1>1 DEF DownClosed
<1>3. b \in Places /\ K \in SUBSET Departments
  BY <1>1
<1> QED BY <1>1, <1>2, <1>3, SubtreeIsClosure

LEMMA SubtreeOfTeams ==
    ASSUME NEW a \in Departments, NEW L \in SUBSET Departments
    PROVE  SubtreeIDs(a, L) \subseteq Departments
<1>1. Departments \in SUBSET Places /\ DownClosed(Departments, L) /\ a \in Places
  BY DEF Places, DownClosed
<1> QED BY <1>1, SubtreeIsClosure

\* Walking down from a team finds what walking up to it finds.
LEMMA DownMeetsUp ==
    ASSUME NEW x \in Places, NEW t \in Places, NEW L \in SUBSET Departments
    PROVE  t \in SubtreeIDs(x, L) <=> Below(t, x, L)
<1>0. Below(t, x, L) <=> x \in Above(t, L)
  BY DEF Below, Above
<1>1. ASSUME t \in SubtreeIDs(x, L) PROVE x \in Above(t, L)
  <2> DEFINE C == {u \in Places : x \in Above(u, L)}
  <2>1. x \in C
    BY AboveIsClosure
  <2>2. ASSUME NEW u \in L, ParentOf[u] \in C PROVE u \in C
    <3>1. u \in Places /\ ParentOf[u] \in Places /\ x \in Above(ParentOf[u], L)
      BY <2>2, PlacesFacts
    <3>2. Above(u, L) \in SUBSET Places /\ u \in Above(u, L) /\ UpClosed(Above(u, L), L)
      BY <3>1, AboveIsClosure
    <3>3. ParentOf[u] \in Above(u, L)
      BY <3>2 DEF UpClosed
    <3>4. Above(ParentOf[u], L) \subseteq Above(u, L)
      BY <3>1, <3>2, <3>3, AboveIsClosure
    <3> QED BY <3>1, <3>4
  <2>3. DownClosed(C, L) /\ C \in SUBSET Places
    BY <2>2 DEF DownClosed
  <2>4. SubtreeIDs(x, L) \subseteq C
    <3> HIDE DEF C
    <3> QED BY <2>1, <2>3, SubtreeIsClosure
  <2> QED BY <1>1, <2>4
<1>2. ASSUME x \in Above(t, L) PROVE t \in SubtreeIDs(x, L)
  <2> DEFINE C == {u \in Places : t \in SubtreeIDs(u, L)}
  <2>1. t \in C
    BY SubtreeIsClosure
  <2>2. ASSUME NEW u \in C \cap L PROVE ParentOf[u] \in C
    <3>1. u \in Places /\ ParentOf[u] \in Places /\ t \in SubtreeIDs(u, L)
      BY PlacesFacts
    <3>2. /\ ParentOf[u] \in SubtreeIDs(ParentOf[u], L) /\ DownClosed(SubtreeIDs(ParentOf[u], L), L)
      BY <3>1, SubtreeIsClosure
    <3>3. u \in SubtreeIDs(ParentOf[u], L)
      BY <3>2 DEF DownClosed
    <3>4. SubtreeIDs(u, L) \subseteq SubtreeIDs(ParentOf[u], L)
      BY <3>1, <3>3, SubtreesNest
    <3> QED BY <3>1, <3>4
  <2>3. UpClosed(C, L) /\ C \in SUBSET Places
    BY <2>2 DEF UpClosed
  <2>4. Above(t, L) \subseteq C
    <3> HIDE DEF C
    <3> QED BY <2>1, <2>3, AboveIsClosure
  <2> QED BY <1>2, <2>4
<1> QED BY <1>0, <1>1, <1>2

------------------------------------------------------------------------------
(* What a user may retrieve.                                                 *)

RulesTyped(R) == \A r \in R : r.kind \in RuleKinds /\ r.team \in Departments

\* The teams a scope grows from.
Roots(who, R) == who.teams \cup {r.team : r \in Applicable(R, who, Widening)}

LEMMA OrgFacts ==
    ASSUME NEW who, NEW L, NEW R
    PROVE  /\ \A t : t \in BuildRetrievalContext(who, L, R).org <=> \E x \in Roots(who, R) : t \in SubtreeIDs(x, L)
           /\ BuildRetrievalContext(who, L, R).denied = {r.team : r \in Applicable(R, who, {"explicit_deny"})}
<1>1. BuildRetrievalContext(who, L, R).org =
          SubtreesOf(who.teams, L) \cup SubtreesOf({r.team : r \in Applicable(R, who, Widening)}, L)
  BY DEF BuildRetrievalContext
<1>2. \A T, t : t \in SubtreesOf(T, L) <=> \E x \in T : t \in SubtreeIDs(x, L)
  BY DEF SubtreesOf
<1> QED BY <1>1, <1>2 DEF BuildRetrievalContext, Roots

LEMMA RootFacts ==
    ASSUME NEW who, who.teams \subseteq Departments, NEW R, RulesTyped(R)
    PROVE  Roots(who, R) \in SUBSET Departments
  BY DEF Roots, RulesTyped, Applicable

\* BuildRetrievalContext allows what its reference does.
LEMMA ContextIsRight ==
    ASSUME NEW who, who.teams \subseteq Departments, NEW L \in SUBSET Departments, NEW R, RulesTyped(R),
           NEW t \in Departments
    PROVE  Allows(BuildRetrievalContext(who, L, R), t) <=> MayRetrieve(who, L, R, t)
<1>1. \A x \in Departments : t \in SubtreeIDs(x, L) <=> Below(t, x, L)
  BY DownMeetsUp DEF Places
<1>2. t \in BuildRetrievalContext(who, L, R).org <=> \E x \in Roots(who, R) : Below(t, x, L)
  BY <1>1, OrgFacts, RootFacts
<1>3. (\E x \in Roots(who, R) : Below(t, x, L)) <=>
          \/ \E x \in who.teams : Below(t, x, L)
          \/ \E r \in R : /\ r.kind # "explicit_deny" /\ RuleApplies(r, who) /\ RuleInWindow(r)
                          /\ Below(t, r.team, L)
  <2>1. \A r \in R : r.kind # "explicit_deny" <=> r.kind \in Widening
    BY DEF RulesTyped, RuleKinds, Widening
  <2> QED BY <2>1 DEF Roots, Applicable
<1>4. t \notin BuildRetrievalContext(who, L, R).denied <=>
          \A r \in R : (r.kind = "explicit_deny" /\ r.team = t) => ~(RuleApplies(r, who) /\ RuleInWindow(r))
  BY OrgFacts DEF Applicable
<1> QED BY <1>2, <1>3, <1>4 DEF Allows, MayRetrieve

\* Where a scope reaches with the whole tree enabled, and what is denied in it.
Reach(who, R)  == BuildRetrievalContext(who, Departments, R).org
Denied(who, R) == BuildRetrievalContext(who, Departments, R).denied

LEMMA ScopeReaches ==
    ASSUME NEW who, who.teams \subseteq Departments, NEW L \in SUBSET Departments, NEW R, RulesTyped(R)
    PROVE  /\ BuildRetrievalContext(who, L, R).org \subseteq Reach(who, R)
           /\ BuildRetrievalContext(who, L, R).org \subseteq Departments
           /\ BuildRetrievalContext(who, L, R).denied = Denied(who, R)
           /\ Denied(who, R) \subseteq Departments
<1>1. ASSUME NEW t \in BuildRetrievalContext(who, L, R).org PROVE t \in Reach(who, R) /\ t \in Departments
  <2>1. PICK x \in Roots(who, R) : t \in SubtreeIDs(x, L)
    BY OrgFacts
  <2>2. x \in Departments /\ x \in Places
    BY RootFacts DEF Places
  <2>3. SubtreeIDs(x, L) \subseteq SubtreeIDs(x, Departments)
    <3>1. x \in SubtreeIDs(x, Departments)
      BY <2>2, SubtreeIsClosure
    <3> QED BY <2>2, <3>1, SubtreesNest
  <2>4. t \in Reach(who, R)
    BY <2>1, <2>3, OrgFacts DEF Reach
  <2> QED BY <2>1, <2>2, <2>4, SubtreeOfTeams
<1>2. BuildRetrievalContext(who, L, R).denied = Denied(who, R)
  BY OrgFacts DEF Denied
<1>3. Denied(who, R) \subseteq Departments
  BY OrgFacts DEF Denied, Applicable, RulesTyped
<1> QED BY <1>1, <1>2, <1>3

\* Who has teams and widening rules within the reach of a scope, and all its denials,
\* sees no more than the scope.
LEMMA CopyStaysWithin ==
    ASSUME NEW who, who.teams \subseteq Departments, NEW R, RulesTyped(R),
           NEW me, NEW L \in SUBSET Departments, NEW Q,
           me.teams \subseteq Reach(who, R),
           \A r \in Q : r.kind \in Widening => r.team \in Reach(who, R),
           \A t \in Denied(who, R) : \E r \in Applicable(Q, me, {"explicit_deny"}) : r.team = t
    PROVE  Visible(me, L, Q) \subseteq Visible(who, Departments, R)
<1> SUFFICES ASSUME NEW t \in Visible(me, L, Q) PROVE t \in Visible(who, Departments, R)
    OBVIOUS
<1>1. /\ t \in Departments /\ t \notin BuildRetrievalContext(me, L, Q).denied
      /\ t \in BuildRetrievalContext(me, L, Q).org
  BY DEF Visible, Allows
<1>2. t \notin Denied(who, R)
  BY <1>1, OrgFacts
<1>3. PICK x \in Roots(me, Q) : t \in SubtreeIDs(x, L)
  BY <1>1, OrgFacts
<1>4. x \in Reach(who, R)
  BY DEF Roots, Applicable
<1>5. PICK y \in Roots(who, R) : x \in SubtreeIDs(y, Departments)
  BY <1>4, OrgFacts DEF Reach
<1>6. y \in Places
  BY RootFacts DEF Places
<1>7. SubtreeIDs(x, L) \subseteq SubtreeIDs(y, Departments)
  BY <1>5, <1>6, SubtreesNest
<1>8. t \in Reach(who, R)
  BY <1>3, <1>5, <1>7, OrgFacts DEF Reach
<1> QED BY <1>1, <1>2, <1>8 DEF Visible, Allows, Reach, Denied

------------------------------------------------------------------------------
(* createAgent. What an agent holds is told apart by its account, its teams, *)
(* the rules copied to it, whether a rule names it and what it was made from.*)

WhoRow    == [id : Humans \cup AgentIds \cup {Nobody}, roles : {{}}, teams : SUBSET Departments]
MakingRow ==
    [step : {"idle", "quota", "user", "profile", "rules"}, agent : AgentIds \cup {Nobody}, ephemeral : BOOLEAN,
     teams : SUBSET Departments, from : Humans \cup {Nobody}, grants : SUBSET Departments,
     denies : SUBSET Departments, who : WhoRow, seen : SUBSET RuleRow]
FrozenRow == [made : BOOLEAN, from : Humans \cup {Nobody}, who : WhoRow, rules : SUBSET RuleRow]

Copied(R, a)  == {r \in R : r.frozen /\ r.subject = <<"user", a>>}
Unnamed(R, a) == \A r \in R : r.subject # <<"user", a>>

\* Rules copied to an agent widen it within the reach of w under the rules S.
CopiesOf(Q, w, S) ==
    \A r \in Q : /\ r.window = "open" /\ r.kind \in {"management_scope", "explicit_deny"}
                 /\ r.kind = "management_scope" => r.team \in Reach(w, S)

\* Teams within the reach of w under S, and its denials copied but for those in D.
HoldsWithin(a, ts, Q, w, S, D) ==
    /\ ts \subseteq Reach(w, S)
    /\ \A t \in Denied(w, S) : t \in D \/ Snapshot("explicit_deny", a, t) \in Q

\* A request under way, over accounts A, teams T, rules R and the frozen sources F.
MakingOK(m, A, T, R, F) ==
    m.step # "idle" =>
        /\ m.agent \in AgentIds /\ ~F[m.agent].made
        /\ m.step \in {"quota", "user"} => m.agent \notin A /\ Unnamed(R, m.agent)
        /\ m.step = "quota" => ~m.ephemeral
        /\ m.from # Nobody =>
              /\ m.teams \subseteq Reach(m.who, m.seen) /\ m.grants \subseteq Reach(m.who, m.seen)
              /\ CopiesOf(Copied(R, m.agent), m.who, m.seen)
              /\ m.agent \in A => HoldsWithin(m.agent, T[m.agent], Copied(R, m.agent), m.who, m.seen, m.denies)
              /\ m.step # "rules" => Denied(m.who, m.seen) \subseteq m.denies

\* An agent.
MadeOK(a, A, T, R, F) ==
    F[a].from # Nobody =>
        /\ F[a].made
        /\ a \in A => /\ CopiesOf(Copied(R, a), F[a].who, F[a].rules)
                      /\ HoldsWithin(a, T[a], Copied(R, a), F[a].who, F[a].rules, {})

\* Agents are counted, then made: those counted and not there yet.
Counted(M)   == {c \in Creators : M[c].step \in {"user", "profile"} /\ ~M[c].ephemeral}
ResidentsOf(P) == {a \in DOMAIN P : ~P[a].ephemeral}
QuotaOK(P, M) ==
    MaxResidentAgents > 0 =>
        Cardinality(ResidentsOf(P)) + Cardinality(Counted(M)) <= MaxResidentAgents + Cardinality(Creators) - 1

AgentTypes ==
    /\ live \in SUBSET Departments /\ accounts \in SUBSET (Humans \cup AgentIds)
    /\ teamsOf \in [Humans \cup AgentIds -> SUBSET Departments]
    /\ DOMAIN profiles \subseteq accounts \cap AgentIds
    /\ profiles \in [DOMAIN profiles -> [ephemeral : BOOLEAN]]
    /\ rules \in SUBSET RuleRow /\ frozen \in [AgentIds -> FrozenRow]

Apart == \A c, d \in Creators :
             (making[c].agent = making[d].agent /\ making[c].step # "idle" /\ making[d].step # "idle") => c = d

AgentInductive ==
    /\ AgentTypes /\ making \in [Creators -> MakingRow] /\ Apart
    /\ \A c \in Creators : MakingOK(making[c], accounts, teamsOf, rules, frozen)
    /\ \A a \in AgentIds : MadeOK(a, accounts, teamsOf, rules, frozen)
    /\ QuotaOK(profiles, making)

\* A step that leaves an agent as it is.
Same(a, A, T, R, F, B, U, S, G) ==
    /\ a \in A <=> a \in B
    /\ U[a] = T[a] /\ Copied(S, a) = Copied(R, a) /\ G[a] = F[a]
    /\ (a \notin A /\ Unnamed(R, a)) => Unnamed(S, a)

LEMMA SameMaking ==
    ASSUME NEW m, NEW A, NEW T, NEW R, NEW F, NEW B, NEW U, NEW S, NEW G,
           MakingOK(m, A, T, R, F), m.step # "idle" => Same(m.agent, A, T, R, F, B, U, S, G)
    PROVE  MakingOK(m, B, U, S, G)
  BY DEF MakingOK, Same

LEMMA SameMade ==
    ASSUME NEW a, NEW A, NEW T, NEW R, NEW F, NEW B, NEW U, NEW S, NEW G,
           MadeOK(a, A, T, R, F), Same(a, A, T, R, F, B, U, S, G)
    PROVE  MadeOK(a, B, U, S, G)
  BY DEF MadeOK, Same

Stays(a) == Same(a, accounts, teamsOf, rules, frozen, accounts', teamsOf', rules', frozen')

\* A creator's step: its own request and agent, the quota and the types are shown, every other agent stays.
LEMMA CreatorMoves ==
    ASSUME AgentInductive, AgentTypes', NEW c \in Creators, NEW n \in MakingRow,
           making' = [making EXCEPT ![c] = n],
           MakingOK(n, accounts', teamsOf', rules', frozen'),
           n.step # "idle" => \A d \in Creators \ {c} : making[d].step = "idle" \/ making[d].agent # n.agent,
           \A a \in AgentIds : Stays(a) \/ (/\ MadeOK(a, accounts', teamsOf', rules', frozen')
                                            /\ a = making[c].agent /\ making[c].step # "idle"),
           QuotaOK(profiles', making')
    PROVE  AgentInductive'
<1>1. making' \in [Creators -> MakingRow] /\ making'[c] = n /\ \A d \in Creators \ {c} : making'[d] = making[d]
  BY DEF AgentInductive
<1>2. Apart'
  BY <1>1 DEF AgentInductive, Apart
<1>3. ASSUME NEW d \in Creators PROVE MakingOK(making'[d], accounts', teamsOf', rules', frozen')
  <2>1. CASE d = c
    BY <1>1, <2>1
  <2>2. CASE d # c
    <3>1. PICK m \in MakingRow : m = making[d]
      BY DEF AgentInductive
    <3>2. MakingOK(m, accounts, teamsOf, rules, frozen)
      BY <3>1 DEF AgentInductive
    <3>3. ASSUME m.step # "idle" PROVE Stays(m.agent)
      <4>1. m.agent \in AgentIds
        BY <3>2, <3>3 DEF MakingOK
      <4>2. ~(m.agent = making[c].agent /\ making[c].step # "idle")
        BY <2>2, <3>1, <3>3 DEF AgentInductive, Apart
      <4> QED BY <4>1, <4>2
    <3>4. MakingOK(m, accounts', teamsOf', rules', frozen')
      BY <3>2, <3>3, SameMaking DEF Stays
    <3> QED BY <1>1, <2>2, <3>1, <3>4
  <2> QED BY <2>1, <2>2
<1>4. ASSUME NEW a \in AgentIds PROVE MadeOK(a, accounts', teamsOf', rules', frozen')
  <2>1. MadeOK(a, accounts, teamsOf, rules, frozen)
    BY DEF AgentInductive
  <2> QED BY <2>1, SameMade DEF Stays
<1> QED BY <1>1, <1>2, <1>3, <1>4 DEF AgentInductive

\* A step of administrators.
LEMMA OthersMove ==
    ASSUME AgentInductive, AgentTypes', making' = making, QuotaOK(profiles', making),
           \A a \in AgentIds : \/ Stays(a)
                               \/ /\ MadeOK(a, accounts', teamsOf', rules', frozen')
                                  /\ \A c \in Creators : making[c].agent = a =>
                                         MakingOK(making[c], accounts', teamsOf', rules', frozen')
    PROVE  AgentInductive'
<1>1. ASSUME NEW d \in Creators PROVE MakingOK(making[d], accounts', teamsOf', rules', frozen')
  <2>1. PICK m \in MakingRow : m = making[d]
    BY DEF AgentInductive
  <2>2. MakingOK(m, accounts, teamsOf, rules, frozen)
    BY <2>1 DEF AgentInductive
  <2>3. CASE m.step = "idle"
    BY <2>1, <2>3 DEF MakingOK
  <2>4. CASE m.step # "idle"
    <3>1. m.agent \in AgentIds
      BY <2>2, <2>4 DEF MakingOK
    <3>2. CASE Stays(m.agent)
      BY <2>1, <2>2, <3>2, SameMaking DEF Stays
    <3>3. CASE ~Stays(m.agent)
      BY <2>1, <3>1, <3>3
    <3> QED BY <3>2, <3>3
  <2> QED BY <2>3, <2>4
<1>2. ASSUME NEW a \in AgentIds PROVE MadeOK(a, accounts', teamsOf', rules', frozen')
  <2>1. MadeOK(a, accounts, teamsOf, rules, frozen)
    BY DEF AgentInductive
  <2> QED BY <2>1, SameMade DEF Stays
<1>3. Apart'
  BY DEF AgentInductive, Apart
<1> QED BY <1>1, <1>2, <1>3 DEF AgentInductive

------------------------------------------------------------------------------
(* The quota.                                                                *)

LEMMA CountFacts ==
    ASSUME NEW P, NEW M, DOMAIN P \subseteq AgentIds
    PROVE  /\ IsFiniteSet(ResidentsOf(P)) /\ Cardinality(ResidentsOf(P)) \in Nat
           /\ IsFiniteSet(Counted(M)) /\ Cardinality(Counted(M)) \in Nat
           /\ Cardinality(Counted(M)) <= Cardinality(Creators)
           /\ Cardinality(Creators) \in Nat /\ Cardinality(Creators) >= 1 /\ MaxResidentAgents \in Nat
<1>1. ResidentsOf(P) \subseteq AgentIds /\ Counted(M) \subseteq Creators
  BY DEF ResidentsOf, Counted
<1>2. IsFiniteSet(AgentIds) /\ IsFiniteSet(Creators) /\ Creators # {} /\ MaxResidentAgents \in Nat
  BY AgentAssumption
<1>3. Cardinality(Creators) \in Nat /\ Cardinality(Creators) # 0
  BY <1>2, FS_CardinalityType, FS_EmptySet
<1> QED BY <1>1, <1>2, <1>3, FS_Subset, FS_CardinalityType

\* Neither more residents nor more requests that were counted.
LEMMA QuotaKept ==
    ASSUME NEW P, NEW M, NEW O, NEW N, DOMAIN P \subseteq AgentIds, DOMAIN O \subseteq AgentIds, QuotaOK(P, M),
           ResidentsOf(O) \subseteq ResidentsOf(P), Counted(N) \subseteq Counted(M)
    PROVE  QuotaOK(O, N)
<1>1. /\ Cardinality(ResidentsOf(O)) <= Cardinality(ResidentsOf(P))
      /\ Cardinality(Counted(N)) <= Cardinality(Counted(M))
  BY CountFacts, FS_Subset
<1>2. /\ Cardinality(ResidentsOf(O)) \in Nat /\ Cardinality(ResidentsOf(P)) \in Nat
      /\ Cardinality(Counted(N)) \in Nat /\ Cardinality(Counted(M)) \in Nat
      /\ Cardinality(Creators) \in Nat /\ MaxResidentAgents \in Nat
  BY CountFacts
<1> QED BY <1>1, <1>2 DEF QuotaOK

\* A request is counted while there is room.
LEMMA QuotaCounted ==
    ASSUME NEW P, NEW N, DOMAIN P \subseteq AgentIds, ~QuotaExceeded(Cardinality(ResidentsOf(P)))
    PROVE  QuotaOK(P, N)
<1>1. /\ Cardinality(ResidentsOf(P)) \in Nat /\ Cardinality(Counted(N)) \in Nat
      /\ Cardinality(Counted(N)) <= Cardinality(Creators)
      /\ Cardinality(Creators) \in Nat /\ MaxResidentAgents \in Nat
  BY CountFacts
<1> QED BY <1>1 DEF QuotaOK, QuotaExceeded

\* A request that was counted becomes a resident.
LEMMA QuotaUsed ==
    ASSUME NEW P, NEW M, NEW O, NEW N, DOMAIN P \subseteq AgentIds, DOMAIN O \subseteq AgentIds, QuotaOK(P, M),
           NEW a, ResidentsOf(O) \subseteq ResidentsOf(P) \cup {a},
           NEW c \in Counted(M), Counted(N) \subseteq Counted(M) \ {c}
    PROVE  QuotaOK(O, N)
<1>1. /\ IsFiniteSet(ResidentsOf(P)) /\ IsFiniteSet(Counted(M))
      /\ Cardinality(ResidentsOf(O)) \in Nat /\ Cardinality(ResidentsOf(P)) \in Nat
      /\ Cardinality(Counted(N)) \in Nat /\ Cardinality(Counted(M)) \in Nat
      /\ Cardinality(Creators) \in Nat /\ MaxResidentAgents \in Nat
  BY CountFacts
<1>2. Cardinality(ResidentsOf(O)) <= Cardinality(ResidentsOf(P)) + 1
  <2>1. PICK V : V = ResidentsOf(P)
    OBVIOUS
  <2>2. IsFiniteSet(V \cup {a}) /\ (Cardinality(V \cup {a}) = IF a \in V THEN Cardinality(V) ELSE Cardinality(V) + 1)
    BY <1>1, <2>1, FS_AddElement
  <2>3. Cardinality(ResidentsOf(O)) <= Cardinality(V \cup {a})
    BY <2>1, <2>2, FS_Subset
  <2> QED BY <1>1, <2>1, <2>2, <2>3
<1>3. Cardinality(Counted(N)) <= Cardinality(Counted(M)) - 1
  <2>1. PICK V : V = Counted(M)
    OBVIOUS
  <2>2. IsFiniteSet(V \ {c}) /\ Cardinality(V \ {c}) = Cardinality(V) - 1
    BY <1>1, <2>1, FS_RemoveElement
  <2>3. Cardinality(Counted(N)) <= Cardinality(V \ {c})
    BY <2>1, <2>2, FS_Subset
  <2> QED BY <1>1, <2>1, <2>2, <2>3
<1> QED BY <1>1, <1>2, <1>3 DEF QuotaOK

------------------------------------------------------------------------------
(* The steps of createAgent.                                                 *)

LEMMA AgentTypesStay ==
    ASSUME AgentTypes, UNCHANGED <<live, accounts, teamsOf, profiles, rules, frozen>>
    PROVE  AgentTypes' /\ \A a \in AgentIds : Stays(a)
  BY DEF AgentTypes, Stays, Same

LEMMA ProfilesOfAgents ==
    ASSUME AgentTypes PROVE DOMAIN profiles \subseteq AgentIds
  BY DEF AgentTypes

LEMMA RulesAreTyped ==
    ASSUME NEW R \in SUBSET RuleRow PROVE RulesTyped(R)
  BY DEF RulesTyped, RuleRow

\* What a request takes from its source.
LEMMA SourceTaken ==
    ASSUME AgentTypes, NEW u \in Humans
    PROVE  /\ Context(u).org \subseteq Reach(Who(u), rules) /\ Context(u).org \subseteq Departments
           /\ Context(u).denied = Denied(Who(u), rules) /\ Context(u).denied \subseteq Departments
           /\ Who(u) \in WhoRow
<1>1. PICK w : w = Who(u)
  OBVIOUS
<1>2. PICK R \in SUBSET RuleRow : R = rules
  BY DEF AgentTypes
<1>3. PICK L \in SUBSET Departments : L = live
  BY DEF AgentTypes
<1>4. w \in WhoRow /\ w.teams \subseteq Departments
  BY <1>1 DEF AgentTypes, Who, WhoRow
<1>5. RulesTyped(R)
  BY RulesAreTyped
<1>6. /\ BuildRetrievalContext(w, L, R).org \subseteq Reach(w, R)
      /\ BuildRetrievalContext(w, L, R).org \subseteq Departments
      /\ BuildRetrievalContext(w, L, R).denied = Denied(w, R)
      /\ Denied(w, R) \subseteq Departments
  BY <1>4, <1>5, ScopeReaches
<1>7. Context(u) = BuildRetrievalContext(w, L, R)
  BY <1>1, <1>2, <1>3 DEF Context
<1> QED BY <1>1, <1>2, <1>4, <1>6, <1>7

LEMMA NoCopies ==
    ASSUME NEW R, NEW a, Unnamed(R, a) PROVE Copied(R, a) = {}
  BY DEF Unnamed, Copied

LEMMA ChecksSafe ==
    ASSUME AgentInductive, NEW c \in Creators, NEW a \in AgentIds, NEW x \in AgentInputs, AgentChecks(c, a, x)
    PROVE  AgentInductive'
<1>0. /\ x \in [ephemeral : BOOLEAN, teams : SUBSET Departments, from : Humans \cup {Nobody}]
      /\ Nobody \notin Humans
  BY AgentAssumption
<1> DEFINE copies == x.from # Nobody
           wide   == IF x.from = Nobody THEN {} ELSE Context(x.from).org
           cut    == IF x.from = Nobody THEN {} ELSE Context(x.from).denied
           who    == IF x.from = Nobody THEN NoOne ELSE Who(x.from)
           seen   == IF x.from = Nobody THEN {} ELSE rules
           n == [step |-> IF x.ephemeral THEN "user" ELSE "quota", agent |-> a, ephemeral |-> x.ephemeral,
                 teams |-> x.teams, from |-> x.from, grants |-> wide, denies |-> cut, who |-> who, seen |-> seen]
<1>1. making' = [making EXCEPT ![c] = n]
  BY DEF AgentChecks
<1>2. AgentTypes' /\ (\A b \in AgentIds : Stays(b)) /\ accounts' = accounts /\ rules' = rules /\ frozen' = frozen
      /\ profiles' = profiles
  BY AgentTypesStay DEF AgentInductive, AgentChecks
<1>3. /\ wide \in SUBSET Departments /\ cut \in SUBSET Departments /\ who \in WhoRow /\ seen \in SUBSET RuleRow
      /\ copies => (/\ x.teams \subseteq Reach(who, seen) /\ wide \subseteq Reach(who, seen)
                    /\ Denied(who, seen) \subseteq cut)
  <2>1. CASE x.from = Nobody
    <3>1. NoOne \in WhoRow
      BY DEF NoOne, WhoRow
    <3> QED BY <2>1, <3>1
  <2>2. CASE x.from # Nobody
    <3>1. x.from \in Humans
      BY <1>0, <2>2
    <3>2. x.teams \subseteq Context(x.from).org
      BY <2>2 DEF AgentChecks, InsideScope
    <3>3. rules \in SUBSET RuleRow
      BY DEF AgentInductive, AgentTypes
    <3>4. wide = Context(x.from).org /\ cut = Context(x.from).denied /\ who = Who(x.from) /\ seen = rules
      BY <2>2
    <3> HIDE DEF wide, cut, who, seen
    <3>5. AgentTypes
      BY DEF AgentInductive
    <3>6. /\ Context(x.from).org \subseteq Reach(Who(x.from), rules) /\ Context(x.from).org \subseteq Departments
          /\ Context(x.from).denied = Denied(Who(x.from), rules) /\ Context(x.from).denied \subseteq Departments
          /\ Who(x.from) \in WhoRow
      BY <3>1, <3>5, SourceTaken
    <3> QED BY <3>2, <3>3, <3>4, <3>6
  <2> QED BY <2>1, <2>2
<1> HIDE DEF wide, cut, who, seen
<1>4. n \in MakingRow
  BY <1>0, <1>3 DEF MakingRow
<1>5. a \notin accounts /\ ~frozen[a].made /\ Unnamed(rules, a) /\ \A d \in Creators : making[d].agent # a
  BY DEF AgentChecks, Unnamed
<1>6. /\ n.step \in {"user", "quota"} /\ n.agent = a /\ (n.step = "quota" => ~n.ephemeral) /\ n.from = x.from
      /\ n.teams = x.teams /\ n.grants = wide /\ n.denies = cut /\ n.who = who /\ n.seen = seen
      /\ (n.step = "user" => n.ephemeral)
  OBVIOUS
<1> HIDE DEF n
<1>7. MakingOK(n, accounts', teamsOf', rules', frozen')
  <2>1. Copied(rules', a) = {}
    BY <1>2, <1>5, NoCopies
  <2>2. CopiesOf(Copied(rules', a), who, seen)
    BY <2>1 DEF CopiesOf
  <2> QED BY <1>2, <1>3, <1>5, <1>6, <2>2 DEF MakingOK
<1>8. QuotaOK(profiles', making')
  <2>1. Counted(making') \subseteq Counted(making)
    BY <1>1, <1>6 DEF Counted, AgentInductive
  <2> QED BY <1>2, <2>1, QuotaKept, ProfilesOfAgents DEF AgentInductive
<1> QED BY <1>1, <1>2, <1>4, <1>5, <1>6, <1>7, <1>8, CreatorMoves

\* A request that ends, made or not.
LEMMA IdleRow == NoMaking \in MakingRow /\ NoMaking.step = "idle"
  BY DEF NoMaking, MakingRow, NoOne, WhoRow

LEMMA CountSafe ==
    ASSUME AgentInductive, NEW c \in Creators, CountResidents(c)
    PROVE  AgentInductive'
<1>1. AgentTypes' /\ (\A b \in AgentIds : Stays(b)) /\ profiles' = profiles
  BY AgentTypesStay DEF AgentInductive, CountResidents
<1>2. PICK m \in MakingRow : m = making[c]
  BY DEF AgentInductive
<1>3. MakingOK(m, accounts, teamsOf, rules, frozen) /\ m.step = "quota"
  BY <1>2 DEF AgentInductive, CountResidents
<1>4. CASE QuotaExceeded(Cardinality(Residents))
  <2>1. making' = [making EXCEPT ![c] = NoMaking]
    BY <1>4 DEF CountResidents
  <2>2. MakingOK(NoMaking, accounts', teamsOf', rules', frozen')
    BY IdleRow DEF MakingOK
  <2>3. Counted(making') \subseteq Counted(making)
    BY <2>1, IdleRow DEF Counted, AgentInductive
  <2>4. QuotaOK(profiles', making')
    BY <1>1, <2>3, QuotaKept, ProfilesOfAgents DEF AgentInductive
  <2> QED BY <1>1, <2>1, <2>2, <2>4, IdleRow, CreatorMoves
<1>5. CASE ~QuotaExceeded(Cardinality(Residents))
  <2>1. PICK n \in MakingRow : n = [m EXCEPT !.step = "user"]
    BY <1>2 DEF MakingRow
  <2>2. making' = [making EXCEPT ![c] = n]
    BY <1>2, <1>5, <2>1 DEF CountResidents
  <2>3. /\ n.step = "user" /\ n.agent = m.agent /\ n.ephemeral = m.ephemeral /\ n.teams = m.teams /\ n.from = m.from
        /\ n.grants = m.grants /\ n.denies = m.denies /\ n.who = m.who /\ n.seen = m.seen
    BY <1>2, <2>1 DEF MakingRow
  <2>4. MakingOK(n, accounts, teamsOf, rules, frozen)
    BY <1>3, <2>3 DEF MakingOK
  <2>5. n.agent \in AgentIds
    BY <2>3, <2>4 DEF MakingOK
  <2>6. MakingOK(n, accounts', teamsOf', rules', frozen')
    BY <1>1, <2>4, <2>5, SameMaking DEF Stays
  <2>7. QuotaOK(profiles', making')
    <3>1. Residents = ResidentsOf(profiles) /\ DOMAIN profiles \subseteq AgentIds
      BY ProfilesOfAgents DEF Residents, ResidentsOf, AgentInductive
    <3>2. QuotaOK(profiles, making')
      BY <1>5, <3>1, QuotaCounted
    <3> QED BY <1>1, <3>2
  <2>8. \A d \in Creators \ {c} : making[d].step = "idle" \/ making[d].agent # n.agent
    BY <1>2, <1>3, <2>3 DEF AgentInductive, Apart
  <2> QED BY <1>1, <2>2, <2>6, <2>7, <2>8, CreatorMoves
<1> QED BY <1>4, <1>5

LEMMA InsertSafe ==
    ASSUME AgentInductive, NEW c \in Creators, InsertAgentUser(c)
    PROVE  AgentInductive'
<1>1. PICK m \in MakingRow : m = making[c]
  BY DEF AgentInductive
<1>2. MakingOK(m, accounts, teamsOf, rules, frozen) /\ m.step = "user"
  BY <1>1 DEF AgentInductive, InsertAgentUser
<1>3. /\ accounts' = accounts \cup {m.agent} /\ teamsOf' = [teamsOf EXCEPT ![m.agent] = m.teams]
      /\ making' = [making EXCEPT ![c].step = "profile"]
      /\ live' = live /\ profiles' = profiles /\ rules' = rules /\ frozen' = frozen
  BY <1>1 DEF InsertAgentUser
<1>4. /\ m.agent \in AgentIds /\ ~frozen[m.agent].made /\ m.agent \notin accounts /\ m.teams \in SUBSET Departments
      /\ Unnamed(rules, m.agent)
  BY <1>2 DEF MakingOK, MakingRow
<1>5. AgentTypes'
  BY <1>3, <1>4 DEF AgentInductive, AgentTypes
<1>6. PICK n \in MakingRow : n = [m EXCEPT !.step = "profile"]
  BY <1>1 DEF MakingRow
<1>7. making' = [making EXCEPT ![c] = n]
  BY <1>1, <1>3, <1>6
<1>8. /\ n.step = "profile" /\ n.agent = m.agent /\ n.ephemeral = m.ephemeral /\ n.teams = m.teams /\ n.from = m.from
      /\ n.grants = m.grants /\ n.denies = m.denies /\ n.who = m.who /\ n.seen = m.seen
  BY <1>1, <1>6 DEF MakingRow
<1>9. teamsOf'[m.agent] = m.teams /\ \A b \in AgentIds \ {m.agent} : teamsOf'[b] = teamsOf[b]
  BY <1>3, <1>4 DEF AgentInductive, AgentTypes
<1>10. MakingOK(n, accounts', teamsOf', rules', frozen')
  BY <1>2, <1>3, <1>4, <1>8, <1>9 DEF MakingOK, HoldsWithin
<1>11. ASSUME NEW b \in AgentIds, b # m.agent PROVE Stays(b)
  BY <1>3, <1>9, <1>11 DEF Stays, Same
<1>12. MadeOK(m.agent, accounts', teamsOf', rules', frozen')
  BY <1>3, <1>4 DEF MadeOK, AgentInductive
<1>13. QuotaOK(profiles', making')
  <2>1. Counted(making') \subseteq Counted(making)
    BY <1>1, <1>2, <1>7, <1>8 DEF Counted, AgentInductive
  <2> QED BY <1>3, <2>1, QuotaKept, ProfilesOfAgents DEF AgentInductive
<1>14. \A d \in Creators \ {c} : making[d].step = "idle" \/ making[d].agent # n.agent
  BY <1>1, <1>2, <1>8 DEF AgentInductive, Apart
<1> QED BY <1>1, <1>2, <1>5, <1>7, <1>10, <1>11, <1>12, <1>13, <1>14, CreatorMoves

LEMMA ProfileSafe ==
    ASSUME AgentInductive, NEW c \in Creators, InsertProfile(c)
    PROVE  AgentInductive'
<1>1. PICK m \in MakingRow : m = making[c]
  BY DEF AgentInductive
<1>2. MakingOK(m, accounts, teamsOf, rules, frozen) /\ m.step = "profile" /\ m.agent \in accounts
  BY <1>1 DEF AgentInductive, InsertProfile
<1>3. /\ profiles' = [a \in DOMAIN profiles \cup {m.agent} |->
                          IF a = m.agent THEN [ephemeral |-> m.ephemeral] ELSE profiles[a]]
      /\ making' = [making EXCEPT ![c].step = "rules"]
      /\ live' = live /\ accounts' = accounts /\ teamsOf' = teamsOf /\ rules' = rules /\ frozen' = frozen
  BY <1>1 DEF InsertProfile
<1>4. m.agent \in AgentIds /\ m.ephemeral \in BOOLEAN
  BY <1>2 DEF MakingOK, MakingRow
<1>5. /\ DOMAIN profiles' = DOMAIN profiles \cup {m.agent} /\ profiles'[m.agent].ephemeral = m.ephemeral
      /\ \A a \in DOMAIN profiles \ {m.agent} : profiles'[a] = profiles[a]
  BY <1>3
<1>6. AgentTypes'
  <2>1. profiles' \in [DOMAIN profiles' -> [ephemeral : BOOLEAN]]
    BY <1>3, <1>4 DEF AgentInductive, AgentTypes
  <2>2. DOMAIN profiles' \subseteq accounts \cap AgentIds
    BY <1>2, <1>4, <1>5 DEF AgentInductive, AgentTypes
  <2> QED BY <1>3, <2>1, <2>2 DEF AgentInductive, AgentTypes
<1>7. PICK n \in MakingRow : n = [m EXCEPT !.step = "rules"]
  BY <1>1 DEF MakingRow
<1>8. making' = [making EXCEPT ![c] = n]
  BY <1>1, <1>3, <1>7
<1>9. /\ n.step = "rules" /\ n.agent = m.agent /\ n.ephemeral = m.ephemeral /\ n.teams = m.teams /\ n.from = m.from
      /\ n.grants = m.grants /\ n.denies = m.denies /\ n.who = m.who /\ n.seen = m.seen
  BY <1>1, <1>7 DEF MakingRow
<1>10. MakingOK(n, accounts', teamsOf', rules', frozen')
  BY <1>2, <1>3, <1>9 DEF MakingOK
<1>11. ASSUME NEW b \in AgentIds PROVE Stays(b)
  BY <1>3 DEF Stays, Same
<1>12. QuotaOK(profiles', making')
  <2>1. DOMAIN profiles \subseteq AgentIds /\ DOMAIN profiles' \subseteq AgentIds /\ QuotaOK(profiles, making)
    BY <1>4, <1>5, ProfilesOfAgents DEF AgentInductive
  <2>2. Counted(making') \subseteq Counted(making) \ {c}
    BY <1>8, <1>9 DEF Counted, AgentInductive
  <2>3. CASE m.ephemeral
    <3>1. ResidentsOf(profiles') \subseteq ResidentsOf(profiles)
      BY <1>5, <2>3 DEF ResidentsOf
    <3> QED BY <2>1, <2>2, <3>1, QuotaKept
  <2>4. CASE ~m.ephemeral
    <3>1. ResidentsOf(profiles') \subseteq ResidentsOf(profiles) \cup {m.agent}
      BY <1>5 DEF ResidentsOf
    <3>2. c \in Counted(making)
      BY <1>1, <1>2, <2>4 DEF Counted
    <3> QED BY <2>1, <2>2, <3>1, <3>2, QuotaUsed
  <2> QED BY <2>3, <2>4
<1>13. \A d \in Creators \ {c} : making[d].step = "idle" \/ making[d].agent # n.agent
  BY <1>1, <1>2, <1>9 DEF AgentInductive, Apart
<1> QED BY <1>6, <1>8, <1>10, <1>11, <1>12, <1>13, CreatorMoves

\* Copying one more rule, of the kind to the team t, turns the request m into n.
Copies(c, m, n, kind, t) ==
    /\ m = making[c] /\ m.step = "rules" /\ kind \in {"management_scope", "explicit_deny"}
    /\ kind = "management_scope" => t \in m.grants
    /\ making' = [making EXCEPT ![c] = n]
    /\ n.step = m.step /\ n.agent = m.agent /\ n.ephemeral = m.ephemeral /\ n.teams = m.teams /\ n.from = m.from
    /\ n.who = m.who /\ n.seen = m.seen /\ n.grants \subseteq m.grants
    /\ \A d \in m.denies : d \in n.denies \/ (kind = "explicit_deny" /\ d = t)
    /\ rules' = rules \cup {Snapshot(kind, m.agent, t)}
    /\ UNCHANGED <<live, accounts, teamsOf, profiles, frozen>>

LEMMA CopySafe ==
    ASSUME AgentInductive, NEW c \in Creators, NEW m \in MakingRow, NEW n \in MakingRow,
           NEW kind, NEW t \in Departments, Copies(c, m, n, kind, t)
    PROVE  AgentInductive'
<1> USE DEF Copies
<1>1. MakingOK(m, accounts, teamsOf, rules, frozen)
  BY DEF AgentInductive
<1>2. m.agent \in AgentIds /\ ~frozen[m.agent].made
  BY <1>1 DEF MakingOK
<1>3. PICK r : r = Snapshot(kind, m.agent, t)
  OBVIOUS
<1>4. /\ r \in RuleRow /\ r.frozen /\ r.subject = <<"user", m.agent>> /\ r.window = "open" /\ r.kind = kind /\ r.team = t
  BY <1>2, <1>3 DEF Snapshot, RuleRow, RuleKinds, Widening, RuleSubjects
<1>5. AgentTypes'
  BY <1>3, <1>4 DEF AgentInductive, AgentTypes
<1>6. Copied(rules', m.agent) = Copied(rules, m.agent) \cup {r}
  BY <1>3, <1>4 DEF Copied
<1>7. ASSUME NEW b \in AgentIds, b # m.agent PROVE Stays(b)
  <2>1. r.subject # <<"user", b>>
    BY <1>4, <1>7
  <2>2. Copied(rules', b) = Copied(rules, b)
    BY <1>3, <2>1 DEF Copied
  <2>3. Unnamed(rules, b) => Unnamed(rules', b)
    BY <1>3, <2>1 DEF Unnamed
  <2> QED BY <2>2, <2>3 DEF Stays, Same
<1>8. MakingOK(n, accounts', teamsOf', rules', frozen')
  <2>1. ASSUME m.from # Nobody
        PROVE  /\ n.teams \subseteq Reach(n.who, n.seen) /\ n.grants \subseteq Reach(n.who, n.seen)
               /\ CopiesOf(Copied(rules', n.agent), n.who, n.seen)
               /\ n.agent \in accounts' => HoldsWithin(n.agent, teamsOf'[n.agent], Copied(rules', n.agent), n.who, n.seen, n.denies)
    <3>1. /\ m.teams \subseteq Reach(m.who, m.seen) /\ m.grants \subseteq Reach(m.who, m.seen)
          /\ CopiesOf(Copied(rules, m.agent), m.who, m.seen)
          /\ m.agent \in accounts => HoldsWithin(m.agent, teamsOf[m.agent], Copied(rules, m.agent), m.who, m.seen, m.denies)
      BY <1>1, <2>1 DEF MakingOK
    <3>2. CopiesOf(Copied(rules', m.agent), m.who, m.seen)
      BY <1>4, <1>6, <3>1 DEF CopiesOf
    <3>3. m.agent \in accounts => HoldsWithin(m.agent, teamsOf[m.agent], Copied(rules', m.agent), m.who, m.seen, n.denies)
      BY <1>3, <1>6, <3>1 DEF HoldsWithin
    <3> QED BY <3>1, <3>2, <3>3
  <2> QED BY <1>2, <2>1 DEF MakingOK
<1>9. MadeOK(m.agent, accounts', teamsOf', rules', frozen')
  BY <1>2 DEF MadeOK, AgentInductive
<1>10. QuotaOK(profiles', making')
  <2>1. Counted(making') \subseteq Counted(making)
    BY DEF Counted, AgentInductive
  <2> QED BY <2>1, QuotaKept, ProfilesOfAgents DEF AgentInductive
<1>11. \A d \in Creators \ {c} : making[d].step = "idle" \/ making[d].agent # n.agent
  BY DEF AgentInductive, Apart
<1> QED BY <1>5, <1>7, <1>8, <1>9, <1>10, <1>11, CreatorMoves

LEMMA CopyGrantSafe ==
    ASSUME AgentInductive, NEW c \in Creators, CopyGrant(c)
    PROVE  AgentInductive'
<1>1. PICK m \in MakingRow : m = making[c]
  BY DEF AgentInductive
<1>2. PICK t : t = CHOOSE x \in m.grants : TRUE
  OBVIOUS
<1>3. /\ m.step = "rules" /\ m.grants # {} /\ rules' = rules \cup {Snapshot("management_scope", m.agent, t)}
      /\ making' = [making EXCEPT ![c].grants = @ \ {t}]
      /\ UNCHANGED <<live, accounts, teamsOf, profiles, frozen>>
  BY <1>1, <1>2 DEF CopyGrant
<1>4. t \in m.grants /\ m.grants \in SUBSET Departments
  BY <1>1, <1>2, <1>3 DEF MakingRow
<1>5. PICK n \in MakingRow : n = [m EXCEPT !.grants = m.grants \ {t}]
  BY <1>1, <1>4 DEF MakingRow
<1>6. making' = [making EXCEPT ![c] = n]
  BY <1>1, <1>3, <1>5
<1>7. /\ n.step = m.step /\ n.agent = m.agent /\ n.ephemeral = m.ephemeral /\ n.teams = m.teams /\ n.from = m.from
      /\ n.who = m.who /\ n.seen = m.seen /\ n.grants \subseteq m.grants /\ n.denies = m.denies
  BY <1>1, <1>5 DEF MakingRow
<1>8. t \in Departments /\ Copies(c, m, n, "management_scope", t)
  BY <1>1, <1>3, <1>4, <1>6, <1>7 DEF Copies
<1> QED BY <1>8, CopySafe

LEMMA CopyDenySafe ==
    ASSUME AgentInductive, NEW c \in Creators, NEW t \in Departments, CopyDeny(c, t)
    PROVE  AgentInductive'
<1>1. PICK m \in MakingRow : m = making[c]
  BY DEF AgentInductive
<1>2. /\ m.step = "rules" /\ t \in m.denies /\ rules' = rules \cup {Snapshot("explicit_deny", m.agent, t)}
      /\ making' = [making EXCEPT ![c].denies = @ \ {t}]
      /\ UNCHANGED <<live, accounts, teamsOf, profiles, frozen>>
  BY <1>1 DEF CopyDeny
<1>3. PICK n \in MakingRow : n = [m EXCEPT !.denies = m.denies \ {t}]
  BY <1>1 DEF MakingRow
<1>4. making' = [making EXCEPT ![c] = n]
  BY <1>1, <1>2, <1>3
<1>5. /\ n.step = m.step /\ n.agent = m.agent /\ n.ephemeral = m.ephemeral /\ n.teams = m.teams /\ n.from = m.from
      /\ n.who = m.who /\ n.seen = m.seen /\ n.grants = m.grants /\ n.denies = m.denies \ {t}
  BY <1>1, <1>3 DEF MakingRow
<1>6. Copies(c, m, n, "explicit_deny", t)
  BY <1>1, <1>2, <1>4, <1>5 DEF Copies
<1> QED BY <1>6, CopySafe

LEMMA FinishSafe ==
    ASSUME AgentInductive, NEW c \in Creators, FinishAgent(c)
    PROVE  AgentInductive'
<1>1. PICK m \in MakingRow : m = making[c]
  BY DEF AgentInductive
<1>2. MakingOK(m, accounts, teamsOf, rules, frozen) /\ m.step = "rules" /\ m.denies = {}
  BY <1>1 DEF AgentInductive, FinishAgent, AllCopied
<1>3. PICK f \in FrozenRow : f = [made |-> TRUE, from |-> m.from, who |-> m.who, rules |-> m.seen]
  BY <1>1 DEF FrozenRow, MakingRow
<1>4. /\ frozen' = [frozen EXCEPT ![m.agent] = f] /\ making' = [making EXCEPT ![c] = NoMaking]
      /\ UNCHANGED <<live, accounts, teamsOf, profiles, rules>>
  BY <1>1, <1>3 DEF FinishAgent
<1>5. f.made /\ f.from = m.from /\ f.who = m.who /\ f.rules = m.seen
  BY <1>3
<1>6. m.agent \in AgentIds
  BY <1>2 DEF MakingOK
<1>7. AgentTypes' /\ frozen'[m.agent] = f /\ \A b \in AgentIds \ {m.agent} : frozen'[b] = frozen[b]
  BY <1>4, <1>6 DEF AgentInductive, AgentTypes
<1>8. ASSUME NEW b \in AgentIds, b # m.agent PROVE Stays(b)
  BY <1>4, <1>7, <1>8 DEF Stays, Same
<1>9. MadeOK(m.agent, accounts', teamsOf', rules', frozen')
  BY <1>2, <1>4, <1>5, <1>7 DEF MadeOK, MakingOK
<1>10. MakingOK(NoMaking, accounts', teamsOf', rules', frozen')
  BY IdleRow DEF MakingOK
<1>11. QuotaOK(profiles', making')
  <2>1. Counted(making') \subseteq Counted(making)
    BY <1>4, IdleRow DEF Counted, AgentInductive
  <2> QED BY <1>4, <2>1, QuotaKept, ProfilesOfAgents DEF AgentInductive
<1> QED BY <1>1, <1>2, <1>4, <1>7, <1>8, <1>9, <1>10, <1>11, IdleRow, CreatorMoves

LEMMA FailSafe ==
    ASSUME AgentInductive, NEW c \in Creators, FailAgent(c)
    PROVE  AgentInductive'
<1>1. AgentTypes' /\ (\A b \in AgentIds : Stays(b)) /\ profiles' = profiles /\ making' = [making EXCEPT ![c] = NoMaking]
  BY AgentTypesStay DEF AgentInductive, FailAgent
<1>2. MakingOK(NoMaking, accounts', teamsOf', rules', frozen')
  BY IdleRow DEF MakingOK
<1>3. Counted(making') \subseteq Counted(making)
  BY <1>1, IdleRow DEF Counted, AgentInductive
<1>4. QuotaOK(profiles', making')
  BY <1>1, <1>3, QuotaKept, ProfilesOfAgents DEF AgentInductive
<1> QED BY <1>1, <1>2, <1>4, IdleRow, CreatorMoves

------------------------------------------------------------------------------
(* The other operations.                                                     *)

LEMMA DeleteSafe ==
    ASSUME AgentInductive, NEW a \in AgentIds, DeleteAgent(a)
    PROVE  AgentInductive'
<1>1. /\ a \in DOMAIN profiles /\ rules' = {r \in rules : r.subject # <<"user", a>>}
      /\ profiles' = [b \in DOMAIN profiles \ {a} |-> profiles[b]]
      /\ teamsOf' = [teamsOf EXCEPT ![a] = {}] /\ accounts' = accounts \ {a}
      /\ live' = live /\ making' = making /\ frozen' = frozen
  BY DEF DeleteAgent, WithoutProfile
<1>2. AgentTypes' /\ a \in accounts
  BY <1>1 DEF AgentInductive, AgentTypes
<1>3. \A b \in AgentIds \ {a} : teamsOf'[b] = teamsOf[b]
  BY <1>1 DEF AgentInductive, AgentTypes
<1>4. ASSUME NEW b \in AgentIds, b # a PROVE Stays(b)
  <2>1. Copied(rules', b) = Copied(rules, b)
    <3>1. ASSUME NEW r \in rules, r.subject = <<"user", b>> PROVE r \in rules'
      BY <1>1, <1>4, <3>1
    <3> QED BY <1>1, <3>1 DEF Copied
  <2>2. Unnamed(rules, b) => Unnamed(rules', b)
    BY <1>1 DEF Unnamed
  <2> QED BY <1>1, <1>3, <1>4, <2>1, <2>2 DEF Stays, Same
<1>5. Unnamed(rules', a)
  BY <1>1 DEF Unnamed
<1>6. MadeOK(a, accounts', teamsOf', rules', frozen')
  BY <1>1 DEF MadeOK, AgentInductive
<1>7. ASSUME NEW c \in Creators, making[c].agent = a PROVE MakingOK(making[c], accounts', teamsOf', rules', frozen')
  <2>1. MakingOK(making[c], accounts, teamsOf, rules, frozen)
    BY DEF AgentInductive
  <2>2. CopiesOf(Copied(rules', a), making[c].who, making[c].seen)
    BY <1>5, NoCopies DEF CopiesOf
  <2> QED BY <1>1, <1>2, <1>7, <2>1, <2>2 DEF MakingOK
<1>8. QuotaOK(profiles', making)
  <2>1. ResidentsOf(profiles') \subseteq ResidentsOf(profiles) /\ DOMAIN profiles' \subseteq DOMAIN profiles
    BY <1>1 DEF ResidentsOf
  <2> QED BY <2>1, QuotaKept, ProfilesOfAgents DEF AgentInductive
<1> QED BY <1>1, <1>2, <1>4, <1>6, <1>7, <1>8, OthersMove

\* A change of the rules that are not copies, of which none names a user that is not there.
LEMMA RuleChangeSafe ==
    ASSUME AgentInductive, NEW gone \in SUBSET RuleRow, NEW new \in SUBSET RuleRow,
           rules' = (rules \ gone) \cup new, \A r \in gone \cup new : ~r.frozen,
           \A r \in new, a \in AgentIds :
               r.subject = <<"user", a>> => a \in accounts \/ ~Unnamed(rules, a),
           UNCHANGED <<live, accounts, teamsOf, profiles, making, frozen>>
    PROVE  AgentInductive'
<1>1. AgentTypes'
  BY DEF AgentInductive, AgentTypes
<1>2. ASSUME NEW a \in AgentIds PROVE Stays(a)
  <2>1. Copied(rules', a) = Copied(rules, a)
    BY DEF Copied
  <2>2. (a \notin accounts /\ Unnamed(rules, a)) => Unnamed(rules', a)
    BY DEF Unnamed
  <2> QED BY <2>1, <2>2 DEF Stays, Same
<1>3. QuotaOK(profiles', making)
  BY DEF AgentInductive
<1> QED BY <1>1, <1>2, <1>3, OthersMove

LEMMA CreateRuleSafe ==
    ASSUME AgentInductive, NEW r \in RuleInputs, CreateDataScopeRule(r)
    PROVE  AgentInductive'
<1>1. r \in RuleRow /\ ~r.frozen
  BY AgentAssumption
<1>2. ASSUME NEW a \in AgentIds, r.subject = <<"user", a>> PROVE a \in accounts
  BY <1>2 DEF CreateDataScopeRule
<1>3. rules' = (rules \ {}) \cup {r} /\ UNCHANGED <<live, accounts, teamsOf, profiles, making, frozen>>
  BY DEF CreateDataScopeRule
<1>4. {r} \in SUBSET RuleRow /\ {} \in SUBSET RuleRow /\ \A x \in {} \cup {r} : ~x.frozen
  BY <1>1
<1>5. \A x \in {r}, a \in AgentIds : x.subject = <<"user", a>> => a \in accounts \/ ~Unnamed(rules, a)
  BY <1>2
<1> HIDE DEF CreateDataScopeRule
<1> QED BY <1>3, <1>4, <1>5, RuleChangeSafe

LEMMA DeleteRuleSafe ==
    ASSUME AgentInductive, NEW r \in rules, DeleteDataScopeRule(r)
    PROVE  AgentInductive'
<1>1. r \in RuleRow /\ ~r.frozen
  BY DEF AgentInductive, AgentTypes, DeleteDataScopeRule
<1>2. rules' = (rules \ {r}) \cup {} /\ UNCHANGED <<live, accounts, teamsOf, profiles, making, frozen>>
  BY DEF DeleteDataScopeRule
<1>3. {r} \in SUBSET RuleRow /\ {} \in SUBSET RuleRow /\ \A x \in {r} \cup {} : ~x.frozen
  BY <1>1
<1>4. \A x \in {}, a \in AgentIds : x.subject = <<"user", a>> => a \in accounts \/ ~Unnamed(rules, a)
  OBVIOUS
<1> QED BY <1>2, <1>3, <1>4, RuleChangeSafe

LEMMA ExpireSafe ==
    ASSUME AgentInductive, NEW r \in rules, RuleExpires(r)
    PROVE  AgentInductive'
<1>1. r \in RuleRow /\ ~r.frozen
  BY DEF AgentInductive, AgentTypes, RuleExpires
<1>2. PICK q \in RuleRow : q = [r EXCEPT !.window = "over"]
  BY <1>1 DEF RuleRow
<1>3. ~q.frozen /\ q.subject = r.subject
  BY <1>1, <1>2 DEF RuleRow
<1>4. rules' = (rules \ {r}) \cup {q} /\ UNCHANGED <<live, accounts, teamsOf, profiles, making, frozen>>
  BY <1>2 DEF RuleExpires
<1>5. {r} \in SUBSET RuleRow /\ {q} \in SUBSET RuleRow /\ \A x \in {r} \cup {q} : ~x.frozen
  BY <1>1, <1>3
<1>6. \A x \in {q}, a \in AgentIds : x.subject = <<"user", a>> => a \in accounts \/ ~Unnamed(rules, a)
  BY <1>3 DEF Unnamed
<1> QED BY <1>4, <1>5, <1>6, RuleChangeSafe

LEMMA TeamsMoveSafe ==
    ASSUME AgentInductive, UNCHANGED <<accounts, profiles, rules, making, frozen>>,
           live' \in SUBSET Departments, teamsOf' \in [Humans \cup AgentIds -> SUBSET Departments],
           \A a \in AgentIds : teamsOf'[a] = teamsOf[a]
    PROVE  AgentInductive'
<1>1. AgentTypes'
  BY DEF AgentInductive, AgentTypes
<1>2. ASSUME NEW a \in AgentIds PROVE Stays(a)
  BY DEF Stays, Same
<1>3. QuotaOK(profiles', making)
  BY DEF AgentInductive
<1> QED BY <1>1, <1>2, <1>3, OthersMove

LEMMA SwitchSafe ==
    ASSUME AgentInductive, NEW t \in Departments, SwitchTeam(t)
    PROVE  AgentInductive'
<1>1. live' \in SUBSET Departments
  BY DEF AgentInductive, AgentTypes, SwitchTeam
<1>2. UNCHANGED <<accounts, teamsOf, profiles, rules, making, frozen>>
  BY DEF SwitchTeam
<1>3. teamsOf \in [Humans \cup AgentIds -> SUBSET Departments]
  BY DEF AgentInductive, AgentTypes
<1> QED BY <1>1, <1>2, <1>3, TeamsMoveSafe

LEMMA MoveSafe ==
    ASSUME AgentInductive, NEW u \in Humans, NEW ts \in MoveInputs, MoveHuman(u, ts)
    PROVE  AgentInductive'
<1>1. ts \in SUBSET Departments /\ Humans \cap AgentIds = {}
  BY AgentAssumption
<1>2. teamsOf' = [teamsOf EXCEPT ![u] = ts] /\ UNCHANGED <<live, accounts, profiles, rules, making, frozen>>
  BY DEF MoveHuman
<1>3. /\ teamsOf' \in [Humans \cup AgentIds -> SUBSET Departments]
      /\ \A a \in AgentIds : teamsOf'[a] = teamsOf[a]
  BY <1>1, <1>2 DEF AgentInductive, AgentTypes
<1>4. live' \in SUBSET Departments
  BY <1>2 DEF AgentInductive, AgentTypes
<1> QED BY <1>2, <1>3, <1>4, TeamsMoveSafe

------------------------------------------------------------------------------

LEMMA AgentInitSafe == AgentInit => AgentInductive
<1> SUFFICES ASSUME AgentInit PROVE AgentInductive
    OBVIOUS
<1>1. /\ live = Departments /\ accounts = Humans \cup FirstResidents /\ rules = FirstRules
      /\ teamsOf = [u \in Humans \cup AgentIds |->
                        IF u \in Humans THEN {t \in Departments : ParentOf[t] = Top} ELSE {}]
      /\ profiles = [a \in FirstResidents |-> [ephemeral |-> FALSE]]
      /\ making = [c \in Creators |-> NoMaking]
  BY DEF AgentInit
<1>2. /\ FirstResidents \subseteq AgentIds /\ FirstRules \subseteq RuleRow
      /\ (MaxResidentAgents > 0 => Cardinality(FirstResidents) <= MaxResidentAgents)
  BY AgentAssumption
<1>3. NotMade \in FrozenRow /\ NotMade.from = Nobody
  BY DEF NotMade, FrozenRow, NoOne, WhoRow
<1>4. frozen \in [AgentIds -> FrozenRow] /\ \A a \in AgentIds : frozen[a].from = Nobody
  <2>1. ASSUME NEW a \in AgentIds
        PROVE  /\ [NotMade EXCEPT !.made = a \in FirstResidents] \in FrozenRow
               /\ [NotMade EXCEPT !.made = a \in FirstResidents].from = Nobody
    <3>1. PICK b \in BOOLEAN : b = (a \in FirstResidents)
      <4>1. CASE a \in FirstResidents
        <5>1. TRUE = (a \in FirstResidents)
          BY <4>1
        <5> QED BY <5>1
      <4>2. CASE a \notin FirstResidents
        <5>1. FALSE = (a \in FirstResidents)
          BY <4>2
        <5> QED BY <5>1
      <4> QED BY <4>1, <4>2
    <3>2. [NotMade EXCEPT !.made = b] \in FrozenRow /\ [NotMade EXCEPT !.made = b].from = Nobody
      BY <1>3 DEF FrozenRow
    <3> QED BY <3>1, <3>2, Zenon
  <2>2. frozen = [a \in AgentIds |-> [NotMade EXCEPT !.made = a \in FirstResidents]]
    BY DEF AgentInit
  <2> DEFINE row(a) == [NotMade EXCEPT !.made = a \in FirstResidents]
  <2>3. \A a \in AgentIds : row(a) \in FrozenRow /\ row(a).from = Nobody
    BY <2>1
  <2>4. frozen = [a \in AgentIds |-> row(a)]
    BY <2>2
  <2> HIDE DEF row
  <2> QED BY <2>3, <2>4
<1>5. AgentTypes
  BY <1>1, <1>2, <1>4 DEF AgentTypes
<1>6. making \in [Creators -> MakingRow] /\ \A c \in Creators : making[c].step = "idle"
  BY <1>1, IdleRow
<1>7. \A c \in Creators : MakingOK(making[c], accounts, teamsOf, rules, frozen)
  BY <1>6 DEF MakingOK
<1>8. \A a \in AgentIds : MadeOK(a, accounts, teamsOf, rules, frozen)
  BY <1>4 DEF MadeOK
<1>9. QuotaOK(profiles, making)
  <2>1. DOMAIN profiles \subseteq AgentIds
    BY <1>5, ProfilesOfAgents
  <2>2. Counted(making) = {} /\ ResidentsOf(profiles) = FirstResidents
    BY <1>1, <1>6 DEF Counted, ResidentsOf
  <2>3. /\ Cardinality(Counted(making)) = 0 /\ Cardinality(FirstResidents) \in Nat
        /\ Cardinality(Creators) \in Nat /\ Cardinality(Creators) >= 1 /\ MaxResidentAgents \in Nat
    BY <2>1, <2>2, CountFacts, FS_EmptySet
  <2> QED BY <1>2, <2>2, <2>3 DEF QuotaOK
<1> QED BY <1>5, <1>6, <1>7, <1>8, <1>9 DEF AgentInductive, Apart

LEMMA AgentStepSafe == AgentInductive /\ [AgentNext]_agentVars => AgentInductive'
<1> SUFFICES ASSUME AgentInductive, [AgentNext]_agentVars PROVE AgentInductive'
    OBVIOUS
<1>1. CASE AgentNext
  BY <1>1, ChecksSafe, CountSafe, InsertSafe, ProfileSafe, CopyGrantSafe, CopyDenySafe, FinishSafe, FailSafe,
     DeleteSafe, CreateRuleSafe, DeleteRuleSafe, ExpireSafe, SwitchSafe, MoveSafe DEF AgentNext
<1>2. CASE UNCHANGED agentVars
  BY <1>2 DEF agentVars, AgentInductive, AgentTypes, Apart
<1> QED BY <1>1, <1>2

\* The inductive invariant is enough.
LEMMA AgentSafeIsEnough == AgentInductive => AgentInvariant
<1> SUFFICES ASSUME AgentInductive PROVE AgentInvariant
    OBVIOUS
<1>1. AgentTypeOK
  BY DEF AgentInductive, AgentTypes, AgentTypeOK, RuleRow
<1>2. QuotaOvershootBounded
  <2>1. Residents = ResidentsOf(profiles)
    BY DEF Residents, ResidentsOf
  <2>2. DOMAIN profiles \subseteq AgentIds
    BY ProfilesOfAgents DEF AgentInductive
  <2>3. /\ Cardinality(ResidentsOf(profiles)) \in Nat /\ Cardinality(Counted(making)) \in Nat
        /\ Cardinality(Creators) \in Nat /\ MaxResidentAgents \in Nat
    BY <2>2, CountFacts
  <2> QED BY <2>1, <2>3 DEF QuotaOvershootBounded, QuotaOK, AgentInductive
<1>3. ASSUME NEW a \in AgentIds \cap accounts, frozen[a].from # Nobody
      PROVE  Visible(Who(a), live, Copied(rules, a)) \subseteq Visible(frozen[a].who, Departments, frozen[a].rules)
  <2>1. PICK f \in FrozenRow : f = frozen[a]
    BY DEF AgentInductive, AgentTypes
  <2>2. PICK me : me = Who(a)
    OBVIOUS
  <2>3. PICK Q : Q = Copied(rules, a)
    OBVIOUS
  <2>4. PICK L \in SUBSET Departments : L = live
    BY DEF AgentInductive, AgentTypes
  <2>5. CopiesOf(Q, f.who, f.rules) /\ HoldsWithin(a, teamsOf[a], Q, f.who, f.rules, {})
    BY <1>3, <2>1, <2>3 DEF AgentInductive, MadeOK
  <2>6. f.who.teams \subseteq Departments /\ RulesTyped(f.rules)
    BY <2>1, RulesAreTyped DEF FrozenRow, WhoRow
  <2>7. me.teams \subseteq Reach(f.who, f.rules)
    BY <2>2, <2>5 DEF Who, HoldsWithin
  <2>8. \A r \in Q : r.kind \in Widening => r.team \in Reach(f.who, f.rules)
    BY <2>5 DEF CopiesOf, Widening
  <2>9. ASSUME NEW t \in Denied(f.who, f.rules)
        PROVE  \E r \in Applicable(Q, me, {"explicit_deny"}) : r.team = t
    <3>1. PICK r \in Q : r = Snapshot("explicit_deny", a, t)
      BY <2>5 DEF HoldsWithin
    <3>2. r.kind = "explicit_deny" /\ r.subject = <<"user", a>> /\ r.window = "open" /\ r.team = t
      BY <3>1 DEF Snapshot
    <3>3. me.id = a
      BY <2>2 DEF Who
    <3> QED BY <3>2, <3>3 DEF Applicable, RuleApplies, RuleInWindow
  <2>10. Visible(me, L, Q) \subseteq Visible(f.who, Departments, f.rules)
    BY <2>6, <2>7, <2>8, <2>9, CopyStaysWithin
  <2> QED BY <2>1, <2>2, <2>3, <2>4, <2>10
<1>4. AgentWithinItsSource
  BY <1>3 DEF AgentWithinItsSource, Copied
<1>5. ContextMeetsReference
  <2> SUFFICES ASSUME NEW u \in accounts, NEW t \in Departments
               PROVE  Allows(Context(u), t) <=> MayRetrieve(Who(u), live, rules, t)
      BY DEF ContextMeetsReference
  <2>1. PICK w : w = Who(u)
    OBVIOUS
  <2>2. PICK R \in SUBSET RuleRow : R = rules
    BY DEF AgentInductive, AgentTypes
  <2>3. PICK L \in SUBSET Departments : L = live
    BY DEF AgentInductive, AgentTypes
  <2>4. w.teams \subseteq Departments /\ RulesTyped(R)
    BY <2>1, RulesAreTyped DEF Who, AgentInductive, AgentTypes
  <2>5. Allows(BuildRetrievalContext(w, L, R), t) <=> MayRetrieve(w, L, R, t)
    BY <2>4, ContextIsRight
  <2> QED BY <2>1, <2>2, <2>3, <2>5 DEF Context
<1> QED BY <1>1, <1>2, <1>4, <1>5 DEF AgentInvariant

\* createAgent checks the quota and takes the source's scope, then writes one
\* statement at a time while teams, rules and members change and requests fail: the
\* quota is passed only by requests counted at the same time, an agent never sees
\* more than its source did when it was asked for, and BuildRetrievalContext, which
\* walks down the tree, allows what a walk up from the team does.
THEOREM AgentsStayInScope == AgentSpec => []AgentInvariant
<1>1. AgentInit => AgentInductive
  BY AgentInitSafe
<1>2. AgentInductive /\ [AgentNext]_agentVars => AgentInductive'
  BY AgentStepSafe
<1>3. AgentInductive => AgentInvariant
  BY AgentSafeIsEnough
<1> QED BY <1>1, <1>2, <1>3, PTL DEF AgentSpec
=============================================================================
