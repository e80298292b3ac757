-------------------------- MODULE MCAdministration --------------------------
(***************************************************************************)
(* The control service part by part: a behaviour is one of login attempts, *)
(* control events, role and team grants, the audit trail or health probes, *)
(* or looks at one input of the login policy; the others rest.             *)
(***************************************************************************)
EXTENDS LoginThrottle, LoginInputs, ControlEvents, SubjectGrants, AuditTrail, ModelHealth

VARIABLE part

Upstream(protocol, credential, catalog, completion) ==
    [protocol |-> protocol, credential |-> credential, catalog |-> catalog, completion |-> completion]

Healthy == Upstream("openai-compatible", TRUE, "lists", "ok")

AdministrationInit ==
    /\ ThrottleInit /\ EventInit /\ GrantsInit /\ AuditInit /\ HealthInit
    /\ \/ part \in {"login", "events", "grants", "audit", "health"} /\ input = NoInput
       \/ part = "policy" /\ input \in {i \in Inputs : AcceptedInput(i)}
    /\ \A m \in ModelSet : (part = "health" /\ m = "m1") \/ upstream[m] = Healthy

AdministrationNext ==
    /\ UNCHANGED <<part, input>>
    /\ \/ part = "login" /\ ThrottleNext /\ UNCHANGED <<eventVars, grantVars, auditVars, healthVars>>
       \/ part = "events" /\ EventNext /\ UNCHANGED <<throttleVars, grantVars, auditVars, healthVars>>
       \/ part = "grants" /\ GrantsNext /\ UNCHANGED <<throttleVars, eventVars, auditVars, healthVars>>
       \/ part = "audit" /\ AuditNext /\ UNCHANGED <<throttleVars, eventVars, grantVars, healthVars>>
       \/ part = "health" /\ HealthNext /\ UNCHANGED <<throttleVars, eventVars, grantVars, auditVars>>

AdministrationSpec ==
    /\ AdministrationInit
    /\ [][AdministrationNext]_<<part, input, throttleVars, eventVars, grantVars, auditVars, healthVars>>

-----------------------------------------------------------------------------
(* What no step of these parts may do: lift a running block of somebody     *)
(* else, take received work away from a session, or move the start of a     *)
(* health status that did not change.                                      *)
AdministrationSteps == BlocksLast /\ ReceivedWorkStays /\ SinceMarksTheChange

-----------------------------------------------------------------------------
(* Values of constants. *)

\* Login attempts differ in nothing but their names.
AttemptSymmetry == Permutations(Attempts)

\* One event for everybody, one for a single user.
MCAudiences == {Recipients, {"alice"}}

\* Refused deletions that differ in the resource and in the body.
MCFailedAttempts ==
    {[route |-> [method |-> "delete", collection |-> "assets", id |-> "a", sub |-> x[1], verb |-> ""],
      code |-> "NOT_FOUND", body |-> [shown |-> x[2], hidden |-> 1, long |-> FALSE]] :
         x \in {<<"b1", 1>>, <<"b1", 2>>, <<"b2", 1>>}}

MCProbedModels == <<"m1", "m2">>

\* Healthy, degraded, refused and unreachable.
MCUpstreams ==
    {Healthy,
     Upstream("openai-compatible", TRUE, "404", "names"),
     Upstream("anthropic", TRUE, "404", "401"),
     Upstream("openai-compatible", FALSE, "dead", "dead")}
=============================================================================
