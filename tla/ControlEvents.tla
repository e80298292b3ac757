--------------------------- MODULE ControlEvents ---------------------------
(***************************************************************************)
(* Control events and their per-session deliveries (control-service        *)
(* httpapi/event_handlers.go, app.IssueUserSession).                       *)
(*                                                                         *)
(* Creating an event and opening a session are transactions of several     *)
(* statements at PostgreSQL's READ COMMITTED level: every statement sees   *)
(* the rows committed before it starts, row locks last until the commit,   *)
(* and an update that waited for a lock re-checks the row it waited for.   *)
(* The other handlers change rows with single statements.                  *)
(*                                                                         *)
(* Audiences are sets of users: scope resolution (global, team with its    *)
(* descendants, role, user) happens inside the fan-out statements, on      *)
(* memberships that this module keeps fixed.                               *)
(***************************************************************************)
EXTENDS Naturals, FiniteSets

CONSTANTS
    Events,     \* event ids
    EventSessions,   \* session ids
    Recipients,
    Audiences,  \* the sets of users events are addressed to
    SupersedeKeys

ASSUME EventsAssumption ==
    /\ Audiences \subseteq SUBSET Recipients
    /\ "none" \notin SupersedeKeys

VARIABLES
    events,     \* control_events: [state, audience, key, expired]
    sessionRows,   \* user_sessions: [state, user]
    delivery,   \* session_control_deliveries.state, by <<event, session>>
    creating,   \* open transactions of createControlEvent
    login,      \* open transactions of IssueUserSession
    cancelling, \* cancelled events whose deliveries are not withdrawn yet
    crossed     \* auxiliary: <<event, session>> whose transactions overlapped

eventVars == <<events, sessionRows, delivery, creating, login, cancelling, crossed>>

Pairs == Events \X EventSessions

NoEvent   == [state |-> "none", audience |-> {}, key |-> "none", expired |-> FALSE]
NoSessionRow == [state |-> "none", user |-> "none"]
NoTx      == [step |-> "none", row |-> NoEvent, old |-> {}, dropped |-> {}, targets |-> {}]
NoLogin   == [step |-> "none", user |-> "none", chosen |-> {}]

EventInit ==
    /\ events     = [e \in Events |-> NoEvent]
    /\ sessionRows   = [s \in EventSessions |-> NoSessionRow]
    /\ delivery   = [p \in Pairs |-> "none"]
    /\ creating   = [e \in Events |-> NoTx]
    /\ login      = [s \in EventSessions |-> NoLogin]
    /\ cancelling = {}
    /\ crossed    = {}

Active(e) == events[e].state = "active" /\ ~events[e].expired

\* Rows that an open transaction has updated.
LockedEvent(e) ==
    \E x \in Events : creating[x].step \in {"superseded", "fanned"} /\ e \in creating[x].old
LockedDelivery(p) ==
    \E x \in Events : creating[x].step \in {"superseded", "fanned"} /\ p \in creating[x].dropped

\* Sessions whose fan-out has run and that are not committed.
Entering == {s \in EventSessions : login[s].step = "fanned"}

-----------------------------------------------------------------------------
(* createControlEvent and createSkillAssignmentEvent. *)

\* The INSERT, and the start of the supersede statement: its snapshot holds the
\* active events with the same key and their pending deliveries.
CreateInsert(e, audience, key) ==
    /\ events[e] = NoEvent
    /\ creating[e] = NoTx
    /\ LET old == IF key = "none" THEN {}
                  ELSE {x \in Events : events[x].state = "active" /\ events[x].key = key}
       IN  /\ creating' = [creating EXCEPT ![e] =
                 [step |-> "waiting", old |-> old, targets |-> {},
                  dropped |-> {p \in old \X EventSessions : delivery[p] = "pending"},
                  row |-> [state |-> "active", audience |-> audience, key |-> key,
                           expired |-> FALSE]]]
           /\ crossed' = crossed \cup ((old \cup {e}) \X Entering)
    /\ UNCHANGED <<events, sessionRows, delivery, login, cancelling>>

\* The rest of the supersede statement: rows changed meanwhile are skipped.
CreateSupersede(e) ==
    /\ creating[e].step = "waiting"
    /\ \A x \in creating[e].old : ~LockedEvent(x)
    /\ LET old == {x \in creating[e].old : events[x].state = "active"}
       IN  creating' = [creating EXCEPT ![e].step = "superseded", ![e].old = old,
                ![e].dropped = {p \in @ : p[1] \in old /\ delivery[p] = "pending"}]
    /\ UNCHANGED <<events, sessionRows, delivery, login, cancelling, crossed>>

\* The fan-out's SELECT: committed sessions that are not revoked.
FanOutTargets(audience) ==
    {s \in EventSessions : sessionRows[s].state = "open" /\ sessionRows[s].user \in audience}

CreateFanOut(e) ==
    /\ creating[e].step = "superseded"
    /\ creating' = [creating EXCEPT ![e].step = "fanned",
                                    ![e].targets = FanOutTargets(creating[e].row.audience)]
    /\ UNCHANGED <<events, sessionRows, delivery, login, cancelling, crossed>>

\* The deliveries as the commit leaves them.
FannedOut(e, p) ==
    IF p \in creating[e].dropped THEN "superseded"
    ELSE IF p[1] = e /\ p[2] \in creating[e].targets /\ delivery[p] = "none" THEN "pending"
    ELSE delivery[p]

CreateCommit(e) ==
    /\ creating[e].step = "fanned"
    /\ events' = [x \in Events |->
          IF x = e THEN creating[e].row
          ELSE IF x \in creating[e].old THEN [events[x] EXCEPT !.state = "superseded"]
          ELSE events[x]]
    /\ delivery' = [p \in Pairs |-> FannedOut(e, p)]
    /\ creating' = [creating EXCEPT ![e] = NoTx]
    /\ UNCHANGED <<sessionRows, login, cancelling, crossed>>

\* A statement or the commit fails: the deferred rollback.
CreateAbort(e) ==
    /\ creating[e] # NoTx
    /\ creating' = [creating EXCEPT ![e] = NoTx]
    /\ UNCHANGED <<events, sessionRows, delivery, login, cancelling, crossed>>

-----------------------------------------------------------------------------
(* cancelControlEvent: two statements outside a transaction. *)

CancelEvent(e) ==
    /\ events[e].state = "active"
    /\ ~LockedEvent(e)
    /\ events' = [events EXCEPT ![e].state = "cancelled"]
    /\ cancelling' = cancelling \cup {e}
    /\ crossed' = crossed \cup ({e} \X Entering)
    /\ UNCHANGED <<sessionRows, delivery, creating, login>>

\* The result of the second statement is ignored: when it fails it never runs
\* and the event stays in cancelling.
CancelDeliveries(e) ==
    /\ e \in cancelling
    /\ \A s \in EventSessions : ~LockedDelivery(<<e, s>>)
    /\ delivery' = [p \in Pairs |->
          IF p[1] = e /\ delivery[p] = "pending" THEN "superseded" ELSE delivery[p]]
    /\ cancelling' = cancelling \ {e}
    /\ crossed' = crossed \cup ({e} \X Entering)
    /\ UNCHANGED <<events, sessionRows, creating, login>>

-----------------------------------------------------------------------------
(* IssueUserSession and RevokeUserSessionByID. *)

\* Mutant: a new session misses the events that are waiting for its user.
NothingWaiting(u) == {}

\* The fan-out's SELECT for a new session.
Waiting(u) == {e \in Events : Active(e) /\ u \in events[e].audience}

LoginFanOut(s, u) ==
    /\ sessionRows[s] = NoSessionRow
    /\ login[s] = NoLogin
    /\ login' = [login EXCEPT ![s] = [step |-> "fanned", user |-> u, chosen |-> Waiting(u)]]
    /\ crossed' = crossed \cup
          ({e \in Events : creating[e] # NoTx \/ e \in cancelling
                             \/ \E x \in Events : e \in creating[x].old} \X {s})
    /\ UNCHANGED <<events, sessionRows, delivery, creating, cancelling>>

LoginCommit(s) ==
    /\ login[s].step = "fanned"
    /\ sessionRows' = [sessionRows EXCEPT ![s] = [state |-> "open", user |-> login[s].user]]
    /\ delivery' = [p \in Pairs |->
          IF p[2] = s /\ p[1] \in login[s].chosen THEN "pending" ELSE delivery[p]]
    /\ login' = [login EXCEPT ![s] = NoLogin]
    /\ UNCHANGED <<events, creating, cancelling, crossed>>

LoginAbort(s) ==
    /\ login[s] # NoLogin
    /\ login' = [login EXCEPT ![s] = NoLogin]
    /\ UNCHANGED <<events, sessionRows, delivery, creating, cancelling, crossed>>

RevokeSession(s) ==
    /\ sessionRows[s].state = "open"
    /\ sessionRows' = [sessionRows EXCEPT ![s].state = "revoked"]
    /\ UNCHANGED <<events, delivery, creating, login, cancelling, crossed>>

-----------------------------------------------------------------------------
(* Requests of a session.  ValidateAccessSession refuses a revoked one. *)

Update(p, states, state) ==
    /\ sessionRows[p[2]].state = "open"
    /\ delivery[p] \in states
    /\ ~LockedDelivery(p)
    /\ delivery' = [delivery EXCEPT ![p] = state]
    /\ UNCHANGED <<events, sessionRows, creating, login, cancelling, crossed>>

\* acknowledgeUserSessionDelivery: a failed delivery can be received again.
Acknowledge(p) == Update(p, {"pending", "failed"}, "received")

\* reportUserSessionDeliveryResult
Report(p, result) == Update(p, {"received", "running", "failed"}, result)

Lapsed(e) == events[e].state # "none" /\ events[e].expired

\* The UPDATE that closes undelivered copies of events past their expiry.
SweptDelivery(p) == IF Lapsed(p[1]) /\ delivery[p] = "pending" THEN "expired" ELSE delivery[p]

\* Heartbeat and list run it for their own session.
ExpireDeliveries(s) ==
    /\ sessionRows[s].state = "open"
    /\ \A e \in Events : ~LockedDelivery(<<e, s>>)
    /\ delivery' = [p \in Pairs |-> IF p[2] = s THEN SweptDelivery(p) ELSE delivery[p]]
    /\ delivery' # delivery
    /\ UNCHANGED <<events, sessionRows, creating, login, cancelling, crossed>>

\* The same UPDATE by event, when an administrator lists the deliveries.
ExpireEventDeliveries(e) ==
    /\ \A s \in EventSessions : ~LockedDelivery(<<e, s>>)
    /\ delivery' = [p \in Pairs |-> IF p[1] = e THEN SweptDelivery(p) ELSE delivery[p]]
    /\ delivery' # delivery
    /\ UNCHANGED <<events, sessionRows, creating, login, cancelling, crossed>>

\* expires_at passes.
Expire(e) ==
    /\ events[e].state # "none"
    /\ ~events[e].expired
    /\ events' = [events EXCEPT ![e].expired = TRUE]
    /\ UNCHANGED <<sessionRows, delivery, creating, login, cancelling, crossed>>

-----------------------------------------------------------------------------
EventNext ==
    \/ \E e \in Events :
          \/ \E a \in Audiences, k \in SupersedeKeys \cup {"none"} : CreateInsert(e, a, k)
          \/ CreateSupersede(e) \/ CreateFanOut(e) \/ CreateCommit(e) \/ CreateAbort(e)
          \/ CancelEvent(e) \/ CancelDeliveries(e) \/ Expire(e)
          \/ ExpireEventDeliveries(e)
    \/ \E s \in EventSessions :
          \/ \E u \in Recipients : LoginFanOut(s, u)
          \/ LoginCommit(s) \/ LoginAbort(s) \/ RevokeSession(s) \/ ExpireDeliveries(s)
    \/ \E p \in Pairs :
          Acknowledge(p) \/ \E r \in {"running", "succeeded", "failed"} : Report(p, r)

EventSpec == EventInit /\ [][EventNext]_eventVars

-----------------------------------------------------------------------------
(* Properties. *)

EventStates == {"none", "active", "superseded", "cancelled"}
DeliveryStates == {"none", "pending", "received", "running", "succeeded", "failed",
                   "expired", "superseded"}

\* Row types; a delivery exists only for a committed event and session
\* (the foreign keys of session_control_deliveries).
EventTypeOK ==
    /\ \A e \in Events :
          /\ events[e].state \in EventStates
          /\ events[e].audience \subseteq Recipients
          /\ creating[e].step \in {"none", "waiting", "superseded", "fanned"}
          /\ creating[e].old \subseteq Events \ {e}
          /\ creating[e].targets \subseteq EventSessions
    /\ \A s \in EventSessions :
          /\ sessionRows[s].state \in {"none", "open", "revoked"}
          /\ login[s].chosen \subseteq Events
    /\ delivery \in [Pairs -> DeliveryStates]
    /\ \A p \in Pairs : delivery[p] # "none" =>
          events[p[1]].state # "none" /\ sessionRows[p[2]].state # "none"

Missing(p) ==
    /\ Active(p[1])
    /\ sessionRows[p[2]].state = "open"
    /\ sessionRows[p[2]].user \in events[p[1]].audience
    /\ delivery[p] = "none"

\* The two fan-outs meet: an open session whose login did not overlap the
\* event's creation has a delivery of every active event addressed to its user,
\* whichever came first.
FanOutMeets == \A p \in Pairs \ crossed : ~Missing(p)

\* Withdrawing an event withdraws its undelivered copies: once the superseding
\* or cancelling statements are through, no session whose login did not overlap
\* them keeps a pending delivery.
WithdrawnNotPending ==
    \A p \in Pairs \ crossed :
        events[p[1]].state \in {"superseded", "cancelled"} /\ p[1] \notin cancelling
            => delivery[p] # "pending"

\* Work a session has taken on is never taken away from it: a received delivery
\* changes only by that session's own reports, and success is final.
ReceivedWorkStays ==
    [][\A p \in Pairs :
        /\ delivery[p] \in {"received", "running", "failed"}
             => delivery'[p] \in {"received", "running", "failed", "succeeded"}
        /\ delivery[p] = "succeeded" => delivery'[p] = "succeeded"]_eventVars

\* The types; the two fan-outs meet; withdrawn events are not pending.
EventInvariant ==
    /\ EventTypeOK
    /\ FanOutMeets
    /\ WithdrawnNotPending
=============================================================================
