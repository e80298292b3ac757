--------------------------- MODULE AgentDirectory ---------------------------
(***************************************************************************)
(* Digital employees and the data scope they are given (control-service    *)
(* httpapi/directory_handlers.go, repository/directory.go, identity.go).   *)
(*                                                                         *)
(* createAgent checks, then writes one statement after another, each       *)
(* committed on its own: other requests run in between, and a failure      *)
(* leaves what has been written. An ephemeral agent may be given the scope *)
(* of another user, frozen when the agent was made.                        *)
(***************************************************************************)
EXTENDS DataScope

CONSTANTS
    Humans,             \* users an agent may take its scope from
    AgentIds,           \* ids are random
    FirstResidents,     \* the resident agents there are at first
    Creators,           \* createAgent requests served at the same time
    MaxResidentAgents,  \* the quota, 0 for none
    FirstRules,         \* the rules there are at first
    RuleInputs,         \* the rules administrators may write
    AgentInputs,        \* [ephemeral, teams (home team included), from]: what may be asked for
    MoveInputs,         \* the teams a human may be moved to
    MaxChanges          \* bound on the changes of rules, teams and memberships

Nobody == "nobody"

\* Rules as administrators write them and as createAgent copies them.
RuleSubjects == {r.subject : r \in FirstRules \cup RuleInputs} \cup {<<"user", a>> : a \in AgentIds}
RuleRow ==
    [kind : RuleKinds, subject : RuleSubjects, team : Departments, window : {"open", "over"}, frozen : BOOLEAN]

ASSUME AgentAssumption ==
    /\ MaxResidentAgents \in Nat /\ MaxChanges \in Nat
    /\ IsFiniteSet(Creators) /\ Creators # {} /\ IsFiniteSet(AgentIds)
    /\ Humans \cap AgentIds = {} /\ FirstResidents \subseteq AgentIds /\ Nobody \notin Humans \cup AgentIds
    /\ MaxResidentAgents > 0 => Cardinality(FirstResidents) <= MaxResidentAgents
    /\ FirstRules \cup RuleInputs \subseteq RuleRow /\ \A r \in FirstRules \cup RuleInputs : ~r.frozen
    /\ AgentInputs \subseteq [ephemeral : BOOLEAN, teams : SUBSET Departments, from : Humans \cup {Nobody}]
    /\ MoveInputs \subseteq SUBSET Departments

VARIABLES
    live,      \* the teams that are enabled
    accounts,  \* the users that exist
    teamsOf,   \* user_team_bindings
    profiles,  \* agent_profiles: [ephemeral] of the agents that have one
    rules,     \* data_scope_rules
    making,    \* the createAgent requests under way
    frozen,    \* auxiliary: what an agent was made from, once it is complete
    changes    \* how many changes there have been

agentVars == <<live, accounts, teamsOf, profiles, rules, making, frozen, changes>>

NoOne    == [id |-> Nobody, roles |-> {}, teams |-> {}]
NoMaking ==
    [step |-> "idle", agent |-> Nobody, ephemeral |-> FALSE, teams |-> {}, from |-> Nobody,
     grants |-> {}, denies |-> {}, who |-> NoOne, seen |-> {}]
NotMade  == [made |-> FALSE, from |-> Nobody, who |-> NoOne, rules |-> {}]

Who(u)     == [id |-> u, roles |-> {}, teams |-> teamsOf[u] \cap live]
Context(u) == BuildRetrievalContext(Who(u), live, rules)
Residents  == {a \in DOMAIN profiles : ~profiles[a].ephemeral}

AgentInit ==
    /\ live = Departments
    /\ accounts = Humans \cup FirstResidents
    /\ teamsOf = [u \in Humans \cup AgentIds |->
                      IF u \in Humans THEN {t \in Departments : ParentOf[t] = Top} ELSE {}]
    /\ profiles = [a \in FirstResidents |-> [ephemeral |-> FALSE]]
    /\ rules = FirstRules
    /\ making = [c \in Creators |-> NoMaking]
    /\ frozen = [a \in AgentIds |-> [NotMade EXCEPT !.made = a \in FirstResidents]]
    /\ changes = 0

-----------------------------------------------------------------------------
(* createAgent. *)

\* The teams asked for lie inside what the source may see.
InsideScope(teams, context) == teams \subseteq (context.org \ context.denied)

\* The validation, requireActiveUser and the snapshot of DataScopeContext.
AgentChecks(c, a, x) ==
    /\ making[c] = NoMaking
    /\ a \notin accounts /\ ~frozen[a].made
    /\ \A d \in Creators : making[d].agent # a
    /\ \A r \in rules : r.subject # <<"user", a>>
    /\ x.from # Nobody => x.from \in accounts /\ InsideScope(x.teams, Context(x.from))
    /\ making' = [making EXCEPT ![c] =
           [step |-> IF x.ephemeral THEN "user" ELSE "quota", agent |-> a, ephemeral |-> x.ephemeral,
            teams |-> x.teams, from |-> x.from,
            grants |-> IF x.from = Nobody THEN {} ELSE Context(x.from).org,
            denies |-> IF x.from = Nobody THEN {} ELSE Context(x.from).denied,
            who |-> IF x.from = Nobody THEN NoOne ELSE Who(x.from),
            seen |-> IF x.from = Nobody THEN {} ELSE rules]]
    /\ UNCHANGED <<live, accounts, teamsOf, profiles, rules, frozen, changes>>

QuotaExceeded(n) == MaxResidentAgents > 0 /\ n >= MaxResidentAgents

\* CountResidentAgents. Ephemeral agents are exempt.
CountResidents(c) ==
    /\ making[c].step = "quota"
    /\ making' = IF QuotaExceeded(Cardinality(Residents))
                 THEN [making EXCEPT ![c] = NoMaking] ELSE [making EXCEPT ![c].step = "user"]
    /\ UNCHANGED <<live, accounts, teamsOf, profiles, rules, frozen, changes>>

\* CreateUser: the account with its teams.
InsertAgentUser(c) ==
    LET m == making[c] IN
    /\ m.step = "user"
    /\ accounts' = accounts \cup {m.agent}
    /\ teamsOf' = [teamsOf EXCEPT ![m.agent] = m.teams]
    /\ making' = [making EXCEPT ![c].step = "profile"]
    /\ UNCHANGED <<live, profiles, rules, frozen, changes>>

\* UpsertAgentProfile: agent_profiles.user_id refers to users.
InsertProfile(c) ==
    LET m == making[c] IN
    /\ m.step = "profile" /\ m.agent \in accounts
    /\ profiles' = [a \in DOMAIN profiles \cup {m.agent} |->
                        IF a = m.agent THEN [ephemeral |-> m.ephemeral] ELSE profiles[a]]
    /\ making' = [making EXCEPT ![c].step = "rules"]
    /\ UNCHANGED <<live, accounts, teamsOf, rules, frozen, changes>>

Snapshot(kind, a, t) == [kind |-> kind, subject |-> <<"user", a>>, team |-> t, window |-> "open", frozen |-> TRUE]

\* One management_scope rule for every team in the snapshot's scope, in one order.
CopyGrant(c) ==
    LET m == making[c]
        t == CHOOSE x \in m.grants : TRUE IN
    /\ m.step = "rules" /\ m.grants # {}
    /\ rules' = rules \cup {Snapshot("management_scope", m.agent, t)}
    /\ making' = [making EXCEPT ![c].grants = @ \ {t}]
    /\ UNCHANGED <<live, accounts, teamsOf, profiles, frozen, changes>>

\* Mutant: the denials are left behind.
NoDenials(m) == m.grants = {}

\* The rules of the snapshot are all written.
AllCopied(m) == m.grants = {} /\ m.denies = {}

\* Then one explicit_deny rule for every team that is denied.
CopyDeny(c, t) ==
    LET m == making[c] IN
    /\ m.step = "rules" /\ m.grants = {} /\ t \in m.denies
    /\ rules' = rules \cup {Snapshot("explicit_deny", m.agent, t)}
    /\ making' = [making EXCEPT ![c].denies = @ \ {t}]
    /\ UNCHANGED <<live, accounts, teamsOf, profiles, frozen, changes>>

\* The model assignments, in ModelCatalog's tables, and the answer.
FinishAgent(c) ==
    LET m == making[c] IN
    /\ m.step = "rules" /\ AllCopied(m)
    /\ frozen' = [frozen EXCEPT ![m.agent] = [made |-> TRUE, from |-> m.from, who |-> m.who, rules |-> m.seen]]
    /\ making' = [making EXCEPT ![c] = NoMaking]
    /\ UNCHANGED <<live, accounts, teamsOf, profiles, rules, changes>>

\* A statement fails: nothing that was written is taken back.
FailAgent(c) ==
    /\ making[c] # NoMaking
    /\ making' = [making EXCEPT ![c] = NoMaking]
    /\ UNCHANGED <<live, accounts, teamsOf, profiles, rules, frozen, changes>>

-----------------------------------------------------------------------------

WithoutProfile(a) == [b \in DOMAIN profiles \ {a} |-> profiles[b]]

\* deleteAgent and DeleteAgent, for an agent with a profile and without sessions.
DeleteAgent(a) ==
    /\ a \in DOMAIN profiles
    /\ rules' = {r \in rules : r.subject # <<"user", a>>}
    /\ profiles' = WithoutProfile(a)
    /\ teamsOf' = [teamsOf EXCEPT ![a] = {}]
    /\ accounts' = accounts \ {a}
    /\ UNCHANGED <<live, making, frozen, changes>>

Changed == changes < MaxChanges /\ changes' = changes + 1

\* createDataScopeRule and deleteDataScopeRule.
CreateDataScopeRule(r) ==
    /\ r \notin rules /\ (r.subject[1] = "user" => r.subject[2] \in accounts)
    /\ rules' = rules \cup {r}
    /\ Changed
    /\ UNCHANGED <<live, accounts, teamsOf, profiles, making, frozen>>

DeleteDataScopeRule(r) ==
    /\ r \in rules /\ ~r.frozen
    /\ rules' = rules \ {r}
    /\ Changed
    /\ UNCHANGED <<live, accounts, teamsOf, profiles, making, frozen>>

\* A rule's expires_at passes.
RuleExpires(r) ==
    /\ r \in rules /\ ~r.frozen /\ r.window = "open"
    /\ rules' = (rules \ {r}) \cup {[r EXCEPT !.window = "over"]}
    /\ Changed
    /\ UNCHANGED <<live, accounts, teamsOf, profiles, making, frozen>>

\* updateTeam switches a team off or on; replaceUserRBAC moves a human.
SwitchTeam(t) ==
    /\ live' = IF t \in live THEN live \ {t} ELSE live \cup {t}
    /\ Changed
    /\ UNCHANGED <<accounts, teamsOf, profiles, rules, making, frozen>>

MoveHuman(u, teams) ==
    /\ teamsOf[u] # teams
    /\ teamsOf' = [teamsOf EXCEPT ![u] = teams]
    /\ Changed
    /\ UNCHANGED <<live, accounts, profiles, rules, making, frozen>>

AgentNext ==
    \/ \E c \in Creators :
          \/ \E a \in AgentIds, x \in AgentInputs : AgentChecks(c, a, x)
          \/ CountResidents(c) \/ InsertAgentUser(c) \/ InsertProfile(c)
          \/ CopyGrant(c) \/ \E t \in Departments : CopyDeny(c, t)
          \/ FinishAgent(c) \/ FailAgent(c)
    \/ \E a \in AgentIds : DeleteAgent(a)
    \/ \E r \in RuleInputs : CreateDataScopeRule(r)
    \/ \E r \in rules : DeleteDataScopeRule(r) \/ RuleExpires(r)
    \/ \E t \in Departments : SwitchTeam(t)
    \/ \E u \in Humans, ts \in MoveInputs : MoveHuman(u, ts)

AgentSpec == AgentInit /\ [][AgentNext]_agentVars

-----------------------------------------------------------------------------

\* Type correctness. A profile belongs to an account.
AgentTypeOK ==
    /\ live \subseteq Departments
    /\ accounts \subseteq Humans \cup AgentIds
    /\ teamsOf \in [Humans \cup AgentIds -> SUBSET Departments]
    /\ DOMAIN profiles \subseteq accounts
    /\ \A r \in rules : r.kind \in RuleKinds /\ r.team \in Departments

\* The quota is checked before the inserts and outside of them: it can be passed,
\* but only by the requests that were counted at the same time.
QuotaOvershootBounded ==
    MaxResidentAgents > 0 =>
        Cardinality(Residents) <= MaxResidentAgents + Cardinality(Creators) - 1

\* An agent that was made from a user's scope sees, by its own teams and the
\* rules copied to it, only teams that the user as it was then could see with the
\* whole tree enabled: switching teams, moving the user and writing or deleting
\* rules while the agent is made or afterwards does not widen its scope.
AgentWithinItsSource ==
    \A a \in AgentIds \cap accounts :
        frozen[a].from # Nobody =>
            Visible(Who(a), live, {r \in rules : r.frozen /\ r.subject = <<"user", a>>})
                \subseteq Visible(frozen[a].who, Departments, frozen[a].rules)

\* BuildRetrievalContext, which walks down from the user's teams, allows exactly
\* what the reference finds by walking up from the resource.
ContextMeetsReference ==
    \A u \in accounts, t \in Departments :
        Allows(Context(u), t) <=> MayRetrieve(Who(u), live, rules, t)

\* The types; the quota is overshot by concurrent creators only; a copied scope
\* stays within its source; the retrieval context is what the tree says.
AgentInvariant ==
    /\ AgentTypeOK
    /\ QuotaOvershootBounded
    /\ AgentWithinItsSource
    /\ ContextMeetsReference
=============================================================================
