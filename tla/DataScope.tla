------------------------------ MODULE DataScope ------------------------------
(***************************************************************************)
(* What data a user may retrieve (control-service app/datascope.go).       *)
(*                                                                         *)
(* The decision is taken over a tree of teams, of which only the enabled   *)
(* ones are loaded, and over rules that widen or cut the scope. A rule     *)
(* names its subject as <<type, id>> and a team as its resource; resources *)
(* of other kinds are compared in the same way and have no subtree.        *)
(***************************************************************************)
EXTENDS Naturals, FiniteSets

CONSTANTS
    Departments,    \* the teams
    ParentOf        \* their parents

Top == "none"       \* the parent of a team without one

ASSUME ScopeAssumption ==
    /\ IsFiniteSet(Departments)
    /\ ParentOf \in [Departments -> Departments \cup {Top}]

Widening == {"management_scope", "exception_grant"}
RuleKinds == Widening \cup {"explicit_deny"}

\* subtreeIDs: the frontier moves down one level at a time.
SubtreeIDs(team, live) ==
    LET n == Cardinality(Departments)
        reached[i \in 0..n] ==
            IF i = 0 THEN {team}
            ELSE LET frontier == reached[i - 1]
                 IN  frontier \cup {t \in live : ParentOf[t] \in frontier}
    IN  reached[n]

SubtreesOf(teams, live) == UNION {SubtreeIDs(t, live) : t \in teams}

\* ruleApplies. who = [id, roles, teams].
RuleApplies(rule, who) ==
    \/ rule.subject = <<"user", who.id>>
    \/ \E r \in who.roles : rule.subject = <<"role", r>>
    \/ \E t \in who.teams : rule.subject = <<"team", t>>

\* ruleInWindow, and the same condition in the query of the rules.
RuleInWindow(rule) == rule.window = "open"

Applicable(rules, who, kinds) ==
    {r \in rules : r.kind \in kinds /\ RuleApplies(r, who) /\ RuleInWindow(r)}

\* BuildRetrievalContext: teams in scope, and the teams that are denied.
BuildRetrievalContext(who, live, rules) ==
    [org |-> SubtreesOf(who.teams, live)
                 \cup SubtreesOf({r.team : r \in Applicable(rules, who, Widening)}, live),
     denied |-> {r.team : r \in Applicable(rules, who, {"explicit_deny"})}]

\* Allows, for a team.
Allows(context, team) == team \notin context.denied /\ team \in context.org

Visible(who, live, rules) ==
    {t \in Departments : Allows(BuildRetrievalContext(who, live, rules), t)}

\* What the comments promise, seen from the team instead of from the user: t is
\* below x when it is x, or is enabled and its parent is below x.
Below(t, x, live) ==
    LET n == Cardinality(Departments)
        above[i \in 0..n] ==
            IF i = 0 THEN {t}
            ELSE LET found == above[i - 1]
                 IN  found \cup {ParentOf[u] : u \in found \cap live}
    IN  x \in above[n]

\* Reference: no applicable denial names the team itself, and it is below a team
\* of the user's own or one that an applicable rule adds.
MayRetrieve(who, live, rules, t) ==
    /\ \A r \in rules : (r.kind = "explicit_deny" /\ r.team = t) => ~(RuleApplies(r, who) /\ RuleInWindow(r))
    /\ \/ \E x \in who.teams : Below(t, x, live)
       \/ \E r \in rules : /\ r.kind # "explicit_deny" /\ RuleApplies(r, who) /\ RuleInWindow(r)
                           /\ Below(t, r.team, live)
=============================================================================
