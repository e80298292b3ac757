------------------------------ MODULE AuditTrail ------------------------------
(***************************************************************************)
(* The administrative audit trail (control-service httpapi/admin_audit.go, *)
(* repository/audit.go).                                                   *)
(*                                                                         *)
(* A middleware wraps every administrative write. A handler of kind "own"  *)
(* records its success in its own transaction and marks the request; one   *)
(* of kind "unmarked" (those of assets and asset bindings) records it and  *)
(* does not; "plain" leaves it to the middleware. A failed attempt gets a  *)
(* row unless a process-local limiter has seen its fingerprint within the  *)
(* window. The rows of the middleware are best-effort inserts.             *)
(***************************************************************************)
EXTENDS Integers, FiniteSets

CONSTANTS
    Writes,      \* administrative requests
    Kinds,       \* kinds of handlers: subset of {"own", "unmarked", "plain"}
    FailedAttempts,    \* [route, code, body] of one actor
    MaxKeys,     \* auditFailureKeys
    RepeatWindow,
    MaxAuditTime,
    MaxLostRows

ASSUME AuditAssumption ==
    /\ Kinds \subseteq {"own", "unmarked", "plain"}
    /\ {MaxKeys, RepeatWindow, MaxAuditTime, MaxLostRows} \subseteq Nat

VARIABLES
    requests,      \* [phase, kind, attempt, now, full, late] by request
    seen,        \* limiter.seen: set of [key, at]
    successes,   \* success rows by request
    failures,    \* failure rows: [write, attempt, at, full, late]
    lost,        \* failed inserts so far
    auditClock

auditVars == <<requests, seen, successes, failures, lost, auditClock>>

NewWrite == [phase |-> "new", kind |-> "plain", attempt |-> {}, now |-> 0, full |-> FALSE, late |-> FALSE]

AuditInit ==
    /\ requests = [w \in Writes |-> NewWrite]
    /\ seen = {} /\ failures = {} /\ lost = 0 /\ auditClock = 0
    /\ successes = [w \in Writes |-> 0]

\* Body values: [shown, hidden, long]. maskAuditValue withholds every field that is
\* not on the allowlist; a body past auditPayloadLimit is not read at all.
Masked(body) == IF body.long THEN {} ELSE {body.shown}

\* adminAuditTarget and adminAuditResourceType of a route [method, collection, id,
\* sub, verb]: a closing verb names the action, otherwise the method does; of a
\* nested resource only the collection and its first identifier are kept.
Target(route) == <<IF route.verb # "" THEN route.verb ELSE route.method, route.collection, route.id>>

SameAttempt(a, b) == Target(a.route) = Target(b.route) /\ a.code = b.code /\ Masked(a.body) = Masked(b.body)

\* Mutant: the attempted body is left out.
WithoutBody(a) == <<Target(a.route), a.code>>

\* auditFailureFingerprint over the masked body.
Fingerprint(a) == <<Target(a.route), a.code, Masked(a.body)>>

\* markAdminAuditRecorded ends the middleware's part.
AfterSuccess(kind) == IF kind = "own" THEN {"done"} ELSE {"audit"}

\* The handler commits its change, with its audit row if it writes one.
Succeed(w, kind) ==
    /\ requests[w].phase = "new"
    /\ \E next \in AfterSuccess(kind) :
           requests' = [requests EXCEPT ![w].phase = next, ![w].kind = kind]
    /\ successes' = [successes EXCEPT ![w] = IF kind = "plain" THEN 0 ELSE 1]
    /\ UNCHANGED <<seen, failures, lost, auditClock>>

\* The handler or requireAdmin refuses; the middleware reads the clock.
Fail(w, a) ==
    /\ requests[w].phase = "new"
    /\ requests' = [requests EXCEPT ![w].phase = "failed", ![w].attempt = {a}, ![w].now = auditClock]
    /\ UNCHANGED <<seen, successes, failures, lost, auditClock>>

\* The success row of auditAdminWrites.
AuditSuccess(w, ok) ==
    /\ requests[w].phase = "audit"
    /\ ok \/ lost < MaxLostRows
    /\ requests' = [requests EXCEPT ![w].phase = "done"]
    /\ successes' = [successes EXCEPT ![w] = IF ok THEN @ + 1 ELSE @]
    /\ lost' = IF ok THEN lost ELSE lost + 1
    /\ UNCHANGED <<seen, failures, auditClock>>

\* The sweep of a full limiter.
Live(now) == {e \in seen : now - e.at < RepeatWindow}

\* limiter.seen[fingerprint] = now, where there is room.
Cached(kept, key, now) ==
    IF Cardinality(kept) >= MaxKeys THEN kept ELSE {e \in kept : e.key # key} \cup {[key |-> key, at |-> now]}

TheAttempt(w) == CHOOSE a \in requests[w].attempt : TRUE

\* auditFailureLimiter.allow: suppress, remember, or pass without remembering.
Allow(w) ==
    LET now  == requests[w].now
        key  == Fingerprint(TheAttempt(w))
        full == Cardinality(seen) >= MaxKeys
        kept == IF full THEN Live(now) ELSE seen
    IN /\ requests[w].phase = "failed"
       /\ \/ /\ \E e \in seen : e.key = key /\ now - e.at < RepeatWindow
             /\ requests' = [requests EXCEPT ![w].phase = "suppressed"]
             /\ UNCHANGED seen
          \/ /\ \A e \in seen : e.key = key => now - e.at >= RepeatWindow
             /\ seen' = Cached(kept, key, now)
             /\ requests' = [requests EXCEPT ![w].phase = "record", ![w].full = Cardinality(kept) >= MaxKeys,
                                         ![w].late = now < auditClock]
       /\ UNCHANGED <<successes, failures, lost, auditClock>>

\* The insert of recordAdminAuditFailure.
RecordFailure(w, ok) ==
    /\ requests[w].phase = "record"
    /\ ok \/ lost < MaxLostRows
    /\ requests' = [requests EXCEPT ![w].phase = IF ok THEN "done" ELSE "lost"]
    /\ failures' = IF ok THEN failures \cup {[write |-> w, attempt |-> TheAttempt(w), at |-> requests[w].now,
                                              full |-> requests[w].full, late |-> requests[w].late]}
                   ELSE failures
    /\ lost' = IF ok THEN lost ELSE lost + 1
    /\ UNCHANGED <<seen, successes, auditClock>>

AuditTick ==
    /\ auditClock < MaxAuditTime
    /\ auditClock' = auditClock + 1
    /\ UNCHANGED <<requests, seen, successes, failures, lost>>

AuditNext ==
    \/ AuditTick
    \/ \E w \in Writes :
           \/ Allow(w)
           \/ \E k \in Kinds : Succeed(w, k)
           \/ \E a \in FailedAttempts : Fail(w, a)
           \/ \E ok \in BOOLEAN : AuditSuccess(w, ok) \/ RecordFailure(w, ok)

AuditSpec == AuditInit /\ [][AuditNext]_auditVars

-----------------------------------------------------------------------------
(* Properties. *)

Near(s, t) == s - t < RepeatWindow /\ t - s < RepeatWindow

\* The limiter never holds more than its bound, nor a fingerprint twice.
AuditTypeOK ==
    /\ \A w \in Writes : successes[w] \in 0 .. 2
    /\ Cardinality(seen) <= MaxKeys
    /\ \A d, e \in seen : d.key = e.key => d = e
    /\ lost \in 0 .. MaxLostRows /\ auditClock \in 0 .. MaxAuditTime

\* auditFailureLimiter: "a burst can slow the limiter down but can never make the
\* trail drop an attempt". A suppressed attempt repeats one of the same target,
\* error code and masked body that was admitted within the window; its row is there, on its way,
\* or its insert failed.
SuppressedIsOnRecord ==
    \A w \in Writes : requests[w].phase = "suppressed" =>
        \E v \in Writes \ {w} :
            /\ requests[v].phase \in {"record", "done", "lost"} /\ requests[v].attempt # {}
            /\ requests[v].now + RepeatWindow > requests[w].now
            /\ SameAttempt(TheAttempt(v), TheAttempt(w))

\* One process writes an attempt once per window, except where the limiter was
\* full of live entries or a decision came after its clock reading had passed.
RepeatsThrottled ==
    \A r, s \in failures :
        /\ r.write # s.write
        /\ SameAttempt(r.attempt, s.attempt)
        /\ Near(r.at, s.at)
        => r.full \/ s.full \/ r.late \/ s.late

\* auditAdminWrites: "Handlers that write the audit in their own transaction take
\* precedence and are not duplicated here".
OneRowPerSuccess == \A w \in Writes : successes[w] <= 1

\* The types; the limiter drops only what is on record, throttles repeats, and a
\* success has one row.
AuditInvariant ==
    /\ AuditTypeOK
    /\ SuppressedIsOnRecord
    /\ RepeatsThrottled
    /\ OneRowPerSuccess
=============================================================================
