----------------------------- MODULE ControlInbox -----------------------------
(***************************************************************************)
(* The control events of one agent host (examples/node-agent/src/agent.ts, *)
(* state.ts) against the deliveries of its session (control-service        *)
(* httpapi/event_handlers.go).                                             *)
(*                                                                         *)
(* A run resumes what is in the inbox, receives what is pending into it    *)
(* and resumes again; telemetry goes through an outbox. Every call may be  *)
(* lost before or after the server acts on it, which ends the run, and the *)
(* process may stop anywhere: the next run starts from what is on disk.    *)
(* How deliveries are made is in ControlEvents, what an execution does in  *)
(* SkillSync; here it succeeds or fails. The inbox is worked off in any    *)
(* order, by updated_at in the code.                                       *)
(***************************************************************************)
EXTENDS Naturals, FiniteSets

CONSTANTS
    Deliveries,
    MaxBreaks   \* bound on lost calls, stops of the process and failed executions

ASSUME InboxAssumption == MaxBreaks \in Nat

VARIABLES
    delivered,  \* session_control_deliveries: state by delivery
    inbox,      \* the host's inbox: state by delivery
    unsent,     \* telemetry on disk
    telemetry,  \* telemetry_events of the server
    run,        \* the run under way: [phase, todo, item, again]
    executed,   \* auxiliary: the deliveries an execution has succeeded for
    breaks

inboxVars == <<delivered, inbox, unsent, telemetry, run, executed, breaks>>

Withdrawn == {"superseded", "expired"}
Resting   == [phase |-> "idle", todo |-> {}, item |-> {}, again |-> FALSE]
Results   == {"succeeded", "failed"}

\* The states a delivery takes on the server and in the inbox of the host, and what
\* a run has in hand.
InboxTypeOK ==
    /\ delivered \in [Deliveries -> {"none", "pending", "received", "running"} \cup Withdrawn \cup Results]
    /\ inbox \in [Deliveries -> {"none", "received", "running"} \cup Results]
    /\ unsent \subseteq Deliveries \X Results /\ telemetry \subseteq Deliveries \X Results
    /\ run.todo \subseteq Deliveries /\ run.item \subseteq Deliveries /\ Cardinality(run.item) <= 1
    /\ executed \subseteq Deliveries
    /\ breaks \in 0 .. MaxBreaks

InboxInit ==
    /\ delivered = [d \in Deliveries |-> "none"]
    /\ inbox = [d \in Deliveries |-> "none"]
    /\ unsent = {} /\ telemetry = {} /\ executed = {}
    /\ run = Resting /\ breaks = 0

Break == breaks < MaxBreaks /\ breaks' = breaks + 1

ItemAtHand == CHOOSE d \in run.item : TRUE

-----------------------------------------------------------------------------
(* The server. *)

\* An event reaches the session (createControlEvent and its kin).
Deliver(d) ==
    /\ delivered[d] = "none"
    /\ delivered' = [delivered EXCEPT ![d] = "pending"]
    /\ UNCHANGED <<inbox, unsent, telemetry, run, executed, breaks>>

\* A later event, cancelControlEvent or the expiry takes a pending delivery back.
WithdrawDelivery(d, state) ==
    /\ delivered[d] = "pending"
    /\ delivered' = [delivered EXCEPT ![d] = state]
    /\ UNCHANGED <<inbox, unsent, telemetry, run, executed, breaks>>

\* acknowledgeUserSessionDelivery: what the row becomes, and whether it answers
\* DELIVERY_STATE_CONFLICT.
AcknowledgedState(state) == IF state \in {"pending", "failed"} THEN "received" ELSE state
AckConflict(state)  == state \in {"none"} \cup Withdrawn

\* reportUserSessionDeliveryResult: a recorded success is immutable.
Reported(state, status) == IF state \in {"received", "running", "failed"} THEN status ELSE state
ReportConflict(state)   == state \in {"none", "pending"} \cup Withdrawn

-----------------------------------------------------------------------------
(* The run. *)

\* Mutant: what was running when the process stopped is not resumed.
OnlyReceived == {d \in Deliveries : inbox[d] \in {"received", "failed"}}

\* listPendingInbox.
PendingInbox == {d \in Deliveries : inbox[d] \in {"received", "running", "failed"}}

\* The events the server accepts: all of a valid batch, or none when its insert
\* fails.
StoredTelemetry(stored) == IF stored THEN unsent ELSE {}

\* flushTelemetry: what the server accepts leaves the outbox; when the answer is
\* lost the run ends and the same events are sent again.
FlushTelemetry(from, to, stored) ==
    /\ run.phase = from
    /\ telemetry' = IF stored THEN telemetry \cup unsent ELSE telemetry
    /\ \/ /\ unsent' = unsent \ StoredTelemetry(stored)
          /\ run' = [run EXCEPT !.phase = to]
          /\ UNCHANGED breaks
       \/ /\ Break
          /\ run' = Resting
          /\ UNCHANGED unsent
    /\ UNCHANGED <<delivered, inbox, executed>>

\* resumeInbox lists what is pending in the inbox, before and after the heartbeat.
ResumeInbox ==
    /\ run.phase = "resume"
    /\ run' = [run EXCEPT !.phase = "items", !.todo = PendingInbox]
    /\ UNCHANGED <<delivered, inbox, unsent, telemetry, executed, breaks>>

ItemsDone ==
    /\ run.phase = "items" /\ run.todo = {} /\ run.item = {}
    /\ run' = [run EXCEPT !.phase = IF run.again THEN "flush" ELSE "heartbeat"]
    /\ UNCHANGED <<delivered, inbox, unsent, telemetry, executed, breaks>>

\* The acknowledgement before an execution: a conflict ends the run.
AcknowledgeAgain(d) ==
    /\ run.phase = "items" /\ d \in run.todo /\ run.item = {}
    /\ delivered' = [delivered EXCEPT ![d] = AcknowledgedState(@)]
    /\ run' = IF AckConflict(delivered[d]) THEN Resting
              ELSE [run EXCEPT !.phase = "ready", !.todo = @ \ {d}, !.item = {d}]
    /\ UNCHANGED <<inbox, unsent, telemetry, executed, breaks>>

\* execute: the inbox says running, then the server is told.
SetRunning ==
    /\ run.phase = "ready"
    /\ inbox' = [inbox EXCEPT ![ItemAtHand] = "running"]
    /\ run' = [run EXCEPT !.phase = "running"]
    /\ UNCHANGED <<delivered, unsent, telemetry, executed, breaks>>

ReportRunning ==
    /\ run.phase = "running"
    /\ delivered' = [delivered EXCEPT ![ItemAtHand] = Reported(@, "running")]
    /\ run' = IF ReportConflict(delivered[ItemAtHand]) THEN Resting ELSE [run EXCEPT !.phase = "execute"]
    /\ UNCHANGED <<inbox, unsent, telemetry, executed, breaks>>

\* The task, by SkillReconciler and reportSkillSync.
Execute(ok) ==
    /\ run.phase = "execute"
    /\ IF ok THEN UNCHANGED breaks ELSE Break
    /\ executed' = IF ok THEN executed \cup run.item ELSE executed
    /\ run' = [run EXCEPT !.phase = IF ok THEN "report" ELSE "reportFailed"]
    /\ UNCHANGED <<delivered, inbox, unsent, telemetry>>

\* The server is told; a conflict or a lost answer falls into the catch.
ReportSucceeded ==
    /\ run.phase = "report"
    /\ delivered' = [delivered EXCEPT ![ItemAtHand] = Reported(@, "succeeded")]
    /\ \/ ~ReportConflict(delivered[ItemAtHand]) /\ run' = [run EXCEPT !.phase = "keepSucceeded"] /\ UNCHANGED breaks
       \/ Break /\ run' = [run EXCEPT !.phase = "reportFailed"]
    /\ UNCHANGED <<inbox, unsent, telemetry, executed>>

ReportFailed ==
    /\ run.phase = "reportFailed"
    /\ delivered' = [delivered EXCEPT ![ItemAtHand] = Reported(@, "failed")]
    /\ run' = IF ReportConflict(delivered[ItemAtHand]) THEN Resting ELSE [run EXCEPT !.phase = "keepFailed"]
    /\ UNCHANGED <<inbox, unsent, telemetry, executed, breaks>>

\* setInboxState, then queueTelemetry.
KeepResult(phase, status) ==
    /\ run.phase = phase
    /\ inbox' = [inbox EXCEPT ![ItemAtHand] = status]
    /\ run' = [run EXCEPT !.phase = "queue"]
    /\ UNCHANGED <<delivered, unsent, telemetry, executed, breaks>>

QueueTelemetry ==
    /\ run.phase = "queue"
    /\ unsent' = unsent \cup {<<ItemAtHand, inbox[ItemAtHand]>>}
    /\ run' = [run EXCEPT !.phase = "items", !.item = {}]
    /\ UNCHANGED <<delivered, inbox, telemetry, executed, breaks>>

\* heartbeatUserSession says whether anything is pending.
PendingForSession == {d \in Deliveries : delivered[d] = "pending"}

Heartbeat ==
    /\ run.phase = "heartbeat"
    /\ run' = IF PendingForSession # {} THEN [run EXCEPT !.phase = "list"]
              ELSE [run EXCEPT !.phase = "resume", !.again = TRUE]
    /\ UNCHANGED <<delivered, inbox, unsent, telemetry, executed, breaks>>

\* receiveControlEvents lists a page: every pending delivery fits one page here.
ListControlEvents ==
    /\ run.phase = "list"
    /\ run' = [run EXCEPT !.phase = "persist", !.todo = PendingForSession]
    /\ UNCHANGED <<delivered, inbox, unsent, telemetry, executed, breaks>>

\* Mutant: the delivery is acknowledged without being kept.
NotKept(state) == state

\* persistInbox: a delivery that is there keeps its row.
Kept(state) == IF state = "none" THEN "received" ELSE state

PersistInbox(d) ==
    /\ run.phase = "persist" /\ d \in run.todo
    /\ inbox' = [inbox EXCEPT ![d] = Kept(@)]
    /\ run' = [run EXCEPT !.phase = "acknowledge", !.item = {d}]
    /\ UNCHANGED <<delivered, unsent, telemetry, executed, breaks>>

AcknowledgeReceived ==
    /\ run.phase = "acknowledge"
    /\ delivered' = [delivered EXCEPT ![ItemAtHand] = AcknowledgedState(@)]
    /\ run' = IF AckConflict(delivered[ItemAtHand]) THEN Resting
              ELSE [run EXCEPT !.phase = "persist", !.todo = @ \ run.item, !.item = {}]
    /\ UNCHANGED <<inbox, unsent, telemetry, executed, breaks>>

PageDone ==
    /\ run.phase = "persist" /\ run.todo = {}
    /\ run' = [run EXCEPT !.phase = "resume", !.again = TRUE]
    /\ UNCHANGED <<delivered, inbox, unsent, telemetry, executed, breaks>>

\* runOnce begins.
RunOnce ==
    /\ run.phase = "idle"
    /\ run' = [Resting EXCEPT !.phase = "first"]
    /\ UNCHANGED <<delivered, inbox, unsent, telemetry, executed, breaks>>

\* A call that never reached the server, or the end of the process.
StopRun ==
    /\ run.phase # "idle"
    /\ Break
    /\ run' = Resting
    /\ UNCHANGED <<delivered, inbox, unsent, telemetry, executed>>

AgentStep ==
    \/ RunOnce \/ ResumeInbox \/ ItemsDone \/ SetRunning \/ ReportRunning \/ Execute(TRUE)
    \/ ReportSucceeded \/ ReportFailed \/ QueueTelemetry
    \/ KeepResult("keepSucceeded", "succeeded") \/ KeepResult("keepFailed", "failed")
    \/ Heartbeat \/ ListControlEvents \/ AcknowledgeReceived \/ PageDone
    \/ \E stored \in BOOLEAN : \/ FlushTelemetry("first", "resume", stored)
                               \/ FlushTelemetry("flush", "idle", stored)
    \/ \E d \in Deliveries : AcknowledgeAgain(d) \/ PersistInbox(d)

InboxNext ==
    \/ AgentStep
    \/ Execute(FALSE) \/ StopRun
    \/ \E d \in Deliveries : Deliver(d) \/ \E state \in Withdrawn : WithdrawDelivery(d, state)

InboxSpec == InboxInit /\ [][InboxNext]_inboxVars

-----------------------------------------------------------------------------
(* Properties. *)

\* receiveControlEvents: a delivery the server takes as received is in the
\* inbox, whatever is lost and wherever the process stops, so it is executed
\* though the server never sends it again.
AcknowledgedIsKept ==
    \A d \in Deliveries :
        delivered[d] \in {"received", "running"} \cup Results => inbox[d] # "none"

\* execute, reportUserSessionDeliveryResult: a delivery the server records as
\* succeeded was executed, and one the inbox has done with is recorded.
SuccessIsReal ==
    \A d \in Deliveries : /\ delivered[d] = "succeeded" => d \in executed
                          /\ inbox[d] = "succeeded" => delivered[d] = "succeeded"

\* A delivery in the inbox that the server has taken back.
Poisoned == \E d \in Deliveries : delivered[d] \in Withdrawn /\ inbox[d] # "none"

\* Every pending delivery is withdrawn or executed (release-readiness.md 38: the
\* agent "persists event inbox and telemetry outbox state [and] converges after
\* restart").
EveryDeliverySettles ==
    \A d \in Deliveries : delivered[d] = "pending" ~> delivered[d] \in Withdrawn \cup {"succeeded"}

\* resumeInbox: the same, as long as no delivery is taken back between being
\* listed and being acknowledged.
SettlesUnlessPoisoned == []~Poisoned => EveryDeliverySettles

\* reportUserSessionDeliveryResult: a recorded success never changes.
SuccessIsImmutable ==
    [][\A d \in Deliveries : delivered[d] = "succeeded" => delivered'[d] = "succeeded"]_inboxVars

\* flushTelemetry, removeTelemetry: telemetry leaves the outbox only when the
\* server has it.
TelemetryIsNotLost ==
    [][\A e \in unsent : e \in unsent' \cup telemetry']_inboxVars

\* The types; what the host acknowledged it keeps, and a reported success is real.
InboxInvariant ==
    /\ InboxTypeOK
    /\ AcknowledgedIsKept
    /\ SuccessIsReal
=============================================================================
