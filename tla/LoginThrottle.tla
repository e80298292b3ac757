--------------------------- MODULE LoginThrottle ---------------------------
(***************************************************************************)
(* The login throttle: login_rate_limits and the attempts that read and    *)
(* write it (control-service httpapi/auth_security.go, passwordLogin,      *)
(* CleanupRetention).                                                      *)
(*                                                                         *)
(* An attempt reads the rows of its two keys with one statement each. A    *)
(* failure is recorded in a transaction that updates both rows and prunes  *)
(* old ones; its row locks last until the commit, and a statement waits    *)
(* for the rows that another transaction has locked. A row cannot change   *)
(* while it is locked, so the new rows are computed at the commit.         *)
(***************************************************************************)
EXTENDS LoginPolicy

CONSTANTS
    Principals, Sources,
    Attempts,       \* login requests served at the same time
    FailureLimit,   \* LoginFailureLimit
    SourceLimit,    \* LoginSourceFailureLimit
    Window,         \* LoginFailureWindow
    BackoffBase,    \* LoginBackoffBase
    BackoffMax,     \* LoginBackoffMax
    MaxTime,        \* bound on the clock
    MaxAge          \* bound on the age of an attempt

\* config.Load: limits and durations are positive, the maximum is not below the base
\* and is a duration.
ASSUME ThrottleAssumption ==
    /\ {FailureLimit, SourceLimit, Window, BackoffBase, BackoffMax} \subseteq Nat \ {0}
    /\ BackoffMax >= BackoffBase /\ BackoffMax < Half
    /\ MaxTime \in Nat /\ MaxAge \in Nat
    /\ "any" \notin Principals

VARIABLES
    clock,
    rows,     \* login_rate_limits by key: [count, blocked, updated]
    att,      \* the attempts under way
    refused   \* auxiliary: plain refusals a key has given since its count began

throttleVars == <<clock, rows, att, refused>>

\* The keys of a principal at a source, and of the source itself.
ThrottleKeys == (Principals \cup {"any"}) \X Sources

NoRow == [count |-> 0, blocked |-> 0, updated |-> 0]
NoAtt == [step |-> "idle", principal |-> "any", source |-> "none", now |-> 0]

ThrottleInit ==
    /\ clock   = 0
    /\ rows    = [k \in ThrottleKeys |-> NoRow]
    /\ att     = [a \in Attempts |-> NoAtt]
    /\ refused = [k \in ThrottleKeys |-> 0]

RowExists(k) == rows[k].count > 0

PrincipalKey(a) == <<att[a].principal, att[a].source>>
SourceKey(a)    == <<"any", att[a].source>>
KeysOf(a)       == {PrincipalKey(a), SourceKey(a)}
Limit(k)        == IF k[1] = "any" THEN SourceLimit ELSE FailureLimit

\* loginThrottleForKey: blocked_until is NULL (0) or in the past.
Delayed(k, now) == RowExists(k) /\ rows[k].blocked > now

\* The rows an attempt has locked so far.
LocksHeld(a) ==
    CASE att[a].step = "source row" -> {PrincipalKey(a)}
      [] att[a].step = "prune"      -> KeysOf(a)
      [] OTHER                      -> {}
LockedFrom(k, a) == \E b \in Attempts \ {a} : k \in LocksHeld(b)

Answered(a)    == att' = [att EXCEPT ![a] = NoAtt]
StepTo(a, step)  == att' = [att EXCEPT ![a].step = step]

-----------------------------------------------------------------------------
(* passwordLogin *)

\* The time is taken and the first of the two rows is read.
Begin(a, p, src) ==
    /\ att[a] = NoAtt
    /\ IF Delayed(<<p, src>>, clock) THEN Answered(a)
       ELSE att' = [att EXCEPT ![a] = [step |-> "check", principal |-> p, source |-> src,
                                       now |-> clock]]
    /\ UNCHANGED <<clock, rows, refused>>

\* The row of the source is read; a blocked attempt is only audited.
CheckSource(a) ==
    /\ att[a].step = "check"
    /\ IF Delayed(SourceKey(a), att[a].now) THEN Answered(a) ELSE StepTo(a, "verify")
    /\ UNCHANGED <<clock, rows, refused>>

\* The password is right (and the session issued), or it is not.
VerifyPassword(a, ok) ==
    /\ att[a].step = "verify"
    /\ StepTo(a, IF ok THEN "success" ELSE "principal row")
    /\ UNCHANGED <<clock, rows, refused>>

-----------------------------------------------------------------------------
(* recordLoginSuccess *)

\* The row of the principal goes, the row of the source stays.
RecordSuccess(a) ==
    /\ att[a].step = "success"
    /\ RowExists(PrincipalKey(a)) => ~LockedFrom(PrincipalKey(a), a)
    /\ rows' = [rows EXCEPT ![PrincipalKey(a)] = NoRow]
    /\ refused' = [refused EXCEPT ![PrincipalKey(a)] = 0]
    /\ Answered(a)
    /\ UNCHANGED clock

\* Its failure is logged; the login has succeeded.
RecordSuccessFails(a) ==
    /\ att[a].step = "success"
    /\ Answered(a)
    /\ UNCHANGED <<clock, rows, refused>>

-----------------------------------------------------------------------------
(* recordLoginFailure *)

LockPrincipalRow(a) ==
    /\ att[a].step = "principal row"
    /\ ~LockedFrom(PrincipalKey(a), a)
    /\ StepTo(a, "source row")
    /\ UNCHANGED <<clock, rows, refused>>

LockSourceRow(a) ==
    /\ att[a].step = "source row"
    /\ ~LockedFrom(SourceKey(a), a)
    /\ StepTo(a, "prune")
    /\ UNCHANGED <<clock, rows, refused>>

\* The count starts again when the last failure is older than the window.
Restarts(k, now) == ~RowExists(k) \/ rows[k].updated < now - Window

\* Mutant: the window is measured from the wrong side.
CountedBackwards(k, now) ==
    IF ~RowExists(k) \/ rows[k].updated >= now - Window THEN 1 ELSE rows[k].count + 1

Counted(k, now) == IF Restarts(k, now) THEN 1 ELSE rows[k].count + 1

Backoff(k, now) == LoginBackoff(Counted(k, now), Limit(k), BackoffBase, BackoffMax)

FailureRow(k, now) ==
    [count |-> Counted(k, now), updated |-> now,
     blocked |-> IF Backoff(k, now) > 0 THEN now + Backoff(k, now) ELSE 0]

\* What the last DELETE of the transaction finds.
Prunable(a) ==
    {k \in ThrottleKeys \ KeysOf(a) : RowExists(k) /\ rows[k].updated < att[a].now - 2 * Window}

Refuses(a) == \A k \in KeysOf(a) : Backoff(k, att[a].now) = 0

\* The DELETE, which may have to wait, the audit row and the commit.
CommitFailure(a) ==
    /\ att[a].step = "prune"
    /\ \A k \in Prunable(a) : ~LockedFrom(k, a)
    /\ rows' = [k \in ThrottleKeys |-> IF k \in KeysOf(a) THEN FailureRow(k, att[a].now)
                               ELSE IF k \in Prunable(a) THEN NoRow ELSE rows[k]]
    /\ refused' = [k \in ThrottleKeys |->
           IF k \in KeysOf(a)
           THEN (IF Restarts(k, att[a].now) THEN 0 ELSE refused[k]) + (IF Refuses(a) THEN 1 ELSE 0)
           ELSE IF k \in Prunable(a) THEN 0 ELSE refused[k]]
    /\ Answered(a)
    /\ UNCHANGED clock

InFailure(a) == att[a].step \in {"principal row", "source row", "prune"}

\* Mutant: the transaction of a failed statement is not rolled back.
KeepsLocks(a) ==
    /\ InFailure(a)
    /\ StepTo(a, "prune")
    /\ UNCHANGED <<clock, rows, refused>>

\* A statement fails: the deferred rollback.
Rollback(a) ==
    /\ InFailure(a)
    /\ Answered(a)
    /\ UNCHANGED <<clock, rows, refused>>

-----------------------------------------------------------------------------
(* PostgreSQL, the retention job and the clock. *)

\* The attempts whose locks the next statement of a waits for.
WaitsFor(a) ==
    {b \in Attempts \ {a} :
        \/ att[a].step = "principal row" /\ PrincipalKey(a) \in LocksHeld(b)
        \/ att[a].step = "source row" /\ SourceKey(a) \in LocksHeld(b)
        \/ att[a].step = "prune" /\ Prunable(a) \cap LocksHeld(b) # {}}

\* The deadlock detector fails a statement of a cycle.
DeadlockDetected(a) ==
    /\ \E b \in WaitsFor(a) : a \in WaitsFor(b)
    /\ Rollback(a)

Retention == Max({Window, BackoffMax})
Outdated  == {k \in ThrottleKeys : RowExists(k) /\ rows[k].updated < clock - Retention}

\* CleanupRetention on login_rate_limits.
CleanUp ==
    /\ Outdated # {}
    /\ \A k \in Outdated, a \in Attempts : k \notin LocksHeld(a)
    /\ rows' = [k \in ThrottleKeys |-> IF k \in Outdated THEN NoRow ELSE rows[k]]
    /\ refused' = [k \in ThrottleKeys |-> IF k \in Outdated THEN 0 ELSE refused[k]]
    /\ UNCHANGED <<clock, att>>

Tick ==
    /\ clock < MaxTime
    /\ \A a \in Attempts : att[a] # NoAtt => clock - att[a].now < MaxAge
    /\ clock' = clock + 1
    /\ UNCHANGED <<rows, att, refused>>

Progress(a) ==
    \/ CheckSource(a)
    \/ \E ok \in BOOLEAN : VerifyPassword(a, ok)
    \/ RecordSuccess(a)
    \/ LockPrincipalRow(a)
    \/ LockSourceRow(a)
    \/ CommitFailure(a)
    \/ DeadlockDetected(a)

ThrottleNext ==
    \/ \E a \in Attempts :
          \/ \E p \in Principals, src \in Sources : Begin(a, p, src)
          \/ Progress(a)
          \/ RecordSuccessFails(a)
          \/ Rollback(a)
    \/ CleanUp
    \/ Tick

ThrottleSpec == ThrottleInit /\ [][ThrottleNext]_throttleVars

\* A statement that can run does, the queue of a row lock is served in order, so
\* that a waiting statement is not passed over for ever, and the detector acts.
FairSpec == ThrottleSpec /\ \A a \in Attempts : SF_throttleVars(Progress(a))

-----------------------------------------------------------------------------
(* Properties *)

(* The rows of login_rate_limits and the attempts have their types. *)
ThrottleTypeOK ==
    /\ clock \in 0 .. MaxTime
    /\ rows \in [ThrottleKeys -> [count : Nat, blocked : Nat, updated : 0 .. MaxTime]]
    /\ att \in [Attempts ->
          [step : {"idle", "check", "verify", "success", "principal row", "source row", "prune"},
           principal : Principals \cup {"any"}, source : Sources \cup {"none"},
           now : 0 .. MaxTime]]
    /\ refused \in [ThrottleKeys -> Nat]

(* However attempts overlap, a key answers fewer failures than its limit    *)
(* with a plain refusal before its count starts again: the failures of     *)
(* concurrent attempts are all counted.                                    *)
RefusalsBounded == \A k \in ThrottleKeys : refused[k] < Limit(k)

(* A block that is still running is only changed by an attempt of the same *)
(* principal or source that had passed the check before: neither pruning   *)
(* nor the retention job lifts the block of somebody else.                 *)
BlocksLast ==
    [][\A k \in ThrottleKeys :
          Delayed(k, clock) /\ rows'[k] # rows[k] =>
              \E a \in Attempts : k \in KeysOf(a) /\ att[a] # NoAtt /\ att'[a] = NoAtt]_throttleVars

(* Every attempt is answered, although transactions that prune each        *)
(* other's rows can wait for one another.                                  *)
EveryAttemptAnswered == \A a \in Attempts : att[a] # NoAtt ~> att[a] = NoAtt

\* The types, and the bound on plain refusals that recordLoginFailure keeps.
ThrottleInvariant ==
    /\ ThrottleTypeOK
    /\ RefusalsBounded
=============================================================================
