---------------------------- MODULE SubjectGrants ----------------------------
(***************************************************************************)
(* Roles and teams as the subjects of grants, and the tree of teams        *)
(* (control-service repository/subject_guard.go, rbac.go, directory.go,    *)
(* httpapi/rbac_handlers.go, directory_handlers.go, model_handlers.go,     *)
(* skill_handlers.go, credential_handlers.go, identifier_slug.go).         *)
(*                                                                         *)
(* A grant (an assignment of a skill, a model or a credential, or a data   *)
(* scope rule) names its subject by type and id, with no foreign key, and  *)
(* ids are made from names: the id of a deleted role or team is used       *)
(* again. Grants and deletions take one advisory lock per subject, held    *)
(* to the end of their transaction. What a transaction changes appears     *)
(* when it commits.                                                        *)
(***************************************************************************)
EXTENDS Naturals

CONSTANTS
    RoleIds,
    TeamIds,     \* disjoint from RoleIds
    Writers,     \* requests served at the same time
    MaxBirths    \* bound on how often an id is used

ASSUME GrantsAssumption ==
    /\ RoleIds \cap TeamIds = {}
    /\ "none" \notin RoleIds \cup TeamIds
    /\ MaxBirths \in Nat

VARIABLES
    subjects,   \* the subjects that exist
    births,     \* auxiliary: how often an id has been used
    parent,     \* parent_team_id by team
    homes,      \* the teams that are the home team of an agent
    grants,     \* [subject, birth]: whom a grant was made to
    locks,      \* the subject locks that are held
    writes      \* the transactions under way

grantVars == <<subjects, births, parent, homes, grants, locks, writes>>

Subjects == RoleIds \cup TeamIds
NoTeam   == "none"
NoWrite  == [kind |-> "none", step |-> "idle", subject |-> NoTeam, parent |-> NoTeam, seen |-> {}]

GrantsInit ==
    /\ subjects = {} /\ births = [s \in Subjects |-> 0]
    /\ parent = [t \in TeamIds |-> NoTeam]
    /\ homes = {} /\ grants = {} /\ locks = {}
    /\ writes = [w \in Writers |-> NoWrite]

Step(w, kind, step) == writes[w].kind = kind /\ writes[w].step = step
To(w, step) == writes' = [writes EXCEPT ![w].step = step]
Over(w)     == writes' = [writes EXCEPT ![w] = NoWrite]
Rows        == <<subjects, births, parent, homes, grants>>

-----------------------------------------------------------------------------
(* createRole and createTeam. *)

\* generateIdentifier: an id that is free when it looks.
GenerateIdentifier(w, s, p) ==
    /\ writes[w] = NoWrite
    /\ s \notin subjects /\ births[s] < MaxBirths
    /\ p # NoTeam => s \in TeamIds
    /\ writes' = [writes EXCEPT ![w] =
           [NoWrite EXCEPT !.kind = "create", !.subject = s, !.parent = p,
                           !.step = IF p = NoTeam THEN "insert" ELSE "parent"]]
    /\ UNCHANGED <<Rows, locks>>

\* createTeam reads the parent for the path and the depth of the new team.
ReadParent(w) ==
    /\ Step(w, "create", "parent")
    /\ IF writes[w].parent \in subjects THEN To(w, "insert") ELSE Over(w)
    /\ UNCHANGED <<Rows, locks>>

\* CreateRole, CreateTeam: the key is unique, teams_parent_fk wants the parent to
\* exist, and a row may be its own parent.
InsertSubject(w) ==
    LET s == writes[w].subject
        p == writes[w].parent
    IN  /\ Step(w, "create", "insert")
        /\ IF s \in subjects \/ (p # NoTeam /\ p \notin subjects \cup {s}) \/ births[s] = MaxBirths
           THEN UNCHANGED Rows
           ELSE /\ subjects' = subjects \cup {s}
                /\ births' = [births EXCEPT ![s] = @ + 1]
                /\ parent' = IF s \in TeamIds THEN [parent EXCEPT ![s] = p] ELSE parent
                /\ UNCHANGED <<homes, grants>>
        /\ Over(w)
        /\ UNCHANGED locks

-----------------------------------------------------------------------------
(* deleteSubject. *)

\* Mutant: the deletion does not take the lock.
UnlockedDelete(w, s) ==
    /\ writes[w] = NoWrite /\ s \in subjects
    /\ writes' = [writes EXCEPT ![w] = [NoWrite EXCEPT !.kind = "delete", !.step = "clean", !.subject = s]]
    /\ UNCHANGED <<Rows, locks>>

\* DeleteRole, DeleteTeam and lockSubject.
DeleteLock(w, s) ==
    /\ writes[w] = NoWrite /\ s \in subjects /\ s \notin locks
    /\ writes' = [writes EXCEPT ![w] = [NoWrite EXCEPT !.kind = "delete", !.step = "clean", !.subject = s]]
    /\ locks' = locks \cup {s}
    /\ UNCHANGED Rows

\* The grants that the four statements of deleteSubject see.
DeleteGrants(w) ==
    /\ Step(w, "delete", "clean")
    /\ writes' = [writes EXCEPT ![w].step = "remove",
                                ![w].seen = {g \in grants : g.subject = writes[w].subject}]
    /\ UNCHANGED <<Rows, locks>>

\* teams_parent_fk and agent_profiles_home_team_fk restrict the deletion.
Referenced(s) == s \in homes \/ \E t \in subjects \cap TeamIds : t # s /\ parent[t] = s

\* The row goes last; the commit ends the lock, so does a rollback.
RemoveSubject(w) ==
    LET s == writes[w].subject IN
    /\ Step(w, "delete", "remove")
    /\ IF Referenced(s) THEN UNCHANGED Rows
       ELSE /\ subjects' = subjects \ {s}
            /\ grants' = grants \ writes[w].seen
            /\ parent' = IF s \in TeamIds THEN [parent EXCEPT ![s] = NoTeam] ELSE parent
            /\ UNCHANGED <<births, homes>>
    /\ locks' = locks \ {s}
    /\ Over(w)

-----------------------------------------------------------------------------
(* createDataScopeRule, createModelAssignment, createSkillAssignment and     *)
(* createCredentialAssignment.                                               *)

\* subjectGuard: the lock, then the probe, in the transaction of the insert.
GuardSubject(w, s) ==
    /\ writes[w] = NoWrite /\ s \notin locks
    /\ s \in subjects
    /\ writes' = [writes EXCEPT ![w] = [NoWrite EXCEPT !.kind = "grant", !.step = "insert", !.subject = s]]
    /\ locks' = locks \cup {s}
    /\ UNCHANGED Rows

\* The insert and the commit. No one locks the subject's row.
InsertGrant(w) ==
    LET s == writes[w].subject IN
    /\ Step(w, "grant", "insert")
    /\ grants' = grants \cup {[subject |-> s, birth |-> births[s]]}
    /\ locks' = locks \ {s}
    /\ Over(w)
    /\ UNCHANGED <<subjects, births, parent, homes>>

\* deleteDataScopeRule and the deletions of assignments.
RevokeGrant(g) ==
    /\ g \in grants
    /\ grants' = grants \ {g}
    /\ UNCHANGED <<subjects, births, parent, homes, locks, writes>>

\* createAgent and updateAgentProfile put an agent at home in a team; it leaves
\* by updateAgentProfile or deleteAgent.
SetHome(t) ==
    /\ t \in subjects
    /\ homes' = homes \cup {t}
    /\ UNCHANGED <<subjects, births, parent, grants, locks, writes>>

LeaveHome(t) ==
    /\ t \in homes
    /\ homes' = homes \ {t}
    /\ UNCHANGED <<subjects, births, parent, grants, locks, writes>>

\* A request fails before its commit: its transaction rolls back.
FailWrite(w) ==
    /\ writes[w] # NoWrite
    /\ locks' = IF writes[w].kind = "create" THEN locks ELSE locks \ {writes[w].subject}
    /\ Over(w)
    /\ UNCHANGED Rows

-----------------------------------------------------------------------------

GrantsNext ==
    \/ \E w \in Writers :
          \/ \E s \in Subjects : \/ \E p \in TeamIds \cup {NoTeam} : GenerateIdentifier(w, s, p)
                                 \/ DeleteLock(w, s) \/ GuardSubject(w, s)
          \/ ReadParent(w) \/ InsertSubject(w)
          \/ DeleteGrants(w) \/ RemoveSubject(w)
          \/ InsertGrant(w) \/ FailWrite(w)
    \/ \E g \in grants : RevokeGrant(g)
    \/ \E t \in TeamIds : SetHome(t) \/ LeaveHome(t)

GrantsSpec == GrantsInit /\ [][GrantsNext]_grantVars

\* Type correctness. Agents are at home in teams that exist.
GrantsTypeOK ==
    /\ subjects \subseteq Subjects /\ homes \subseteq TeamIds \cap subjects /\ locks \subseteq Subjects
    /\ births \in [Subjects -> 0..MaxBirths]
    /\ parent \in [TeamIds -> TeamIds \cup {NoTeam}]
    /\ grants \subseteq [subject : Subjects, birth : 0..MaxBirths]

\* A grant is a grant to the very role or team it was made to: it never outlives
\* its subject and never passes to a later one with the same id, whatever
\* creations, grants and deletions run at the same time.
GrantsFollowSubject ==
    \A g \in grants : g.subject \in subjects /\ g.birth = births[g.subject]

\* The teams above t: those in every set of teams that holds the parent of t and,
\* with a team, its parent.
Ancestors(t) ==
    {u \in TeamIds : \A S \in SUBSET TeamIds :
        parent[t] \in S \cup {NoTeam} /\ (\A x \in S : parent[x] \in S \cup {NoTeam}) => u \in S}

\* No two teams are above each other although parents are deleted and their ids
\* used again: the walk of subtreeIDs over several teams ends.
TeamsStayATree ==
    \A t \in subjects \cap TeamIds :
        \A u \in Ancestors(t) \ {t} : u \in subjects /\ t \notin Ancestors(u)

\* The types; grants belong to the subject they were made to; teams are a tree.
GrantsInvariant ==
    /\ GrantsTypeOK
    /\ GrantsFollowSubject
    /\ TeamsStayATree
=============================================================================
