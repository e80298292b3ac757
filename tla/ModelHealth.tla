------------------------------ MODULE ModelHealth ------------------------------
(***************************************************************************)
(* The model health prober of the control service (app/model_health.go).   *)
(*                                                                         *)
(* Each process runs rounds. A round reads the models to probe with their  *)
(* statuses once, then resolves, probes, records and announces one model   *)
(* after the other until its deadline; models are edited and upstreams     *)
(* change at any time.                                                     *)
(***************************************************************************)
EXTENDS Integers, Sequences, FiniteSets, SequencesExt

CONSTANTS
    ProbedModels,  \* the models, in the order of the listing
    Upstreams,     \* what may stand behind a model
    Probers,       \* processes
    MaxRounds, MaxFlaps, MaxLostAlerts

ModelSet == Range(ProbedModels)

\* A listing names each model once.
ASSUME HealthAssumption ==
    /\ ProbedModels \in Seq(ModelSet)
    /\ \A i, j \in DOMAIN ProbedModels : ProbedModels[i] = ProbedModels[j] => i = j
    /\ IsFiniteSet(Probers)
    /\ MaxRounds \in Nat

VARIABLES
    upstream,      \* what a call to the model's endpoint meets
    probed,        \* [enabled, status, since, checked] of models
    rounds,        \* [phase, now, queue, outcome, late] by process; the queue holds
                   \* the statuses read, by place in the listing
    announced,     \* status in the last alert of a model
    lostAlerts,    \* alerts that were lost, by model
    seenSince,     \* auxiliary: outcomes possible at some moment since a round began
    flaps, roundCount

healthVars == <<upstream, probed, rounds, announced, lostAlerts, seenSince, flaps, roundCount>>

NoRound == [phase |-> "idle", now |-> 0, queue |-> <<>>, outcome |-> "unknown", late |-> FALSE]

HealthInit ==
    /\ upstream \in [ModelSet -> Upstreams]
    /\ probed = [m \in ModelSet |-> [enabled |-> TRUE, status |-> "unknown", since |-> 0, checked |-> 0]]
    /\ rounds = [p \in Probers |-> NoRound]
    /\ announced = [m \in ModelSet |-> "unknown"] /\ lostAlerts = {}
    /\ seenSince = [p \in Probers |-> [m \in ModelSet |-> {}]]
    /\ flaps = 0 /\ roundCount = 0

-----------------------------------------------------------------------------
(* An upstream is [protocol, credential, catalog, completion]: whether the    *)
(* credential can be opened and what the two calls answer.                   *)

\* probeOpenAICompletion and probeAnthropic; "names" is a refusal that mentions
\* the model, "proxy" a 200 without a completion.
Completion(up) ==
    CASE up.completion = "dead"  -> "unreachable"
      [] up.completion = "ok"    -> "healthy"
      [] up.completion = "401"   -> "credential_invalid"
      [] up.completion = "403"   -> "denied"
      [] up.completion = "names" -> "model_missing"
      [] up.completion = "404"   -> IF up.protocol = "anthropic" THEN "model_missing" ELSE "error"
      [] OTHER                   -> "error"

\* probeOpenAI: the catalog decides if it names models, else a completion does.
ByCatalog(up) ==
    CASE up.catalog = "dead"   -> "unreachable"
      [] up.catalog = "lists"  -> "healthy"
      [] up.catalog = "others" -> "model_missing"
      [] up.catalog = "401"    -> "credential_invalid"
      [] up.catalog = "403"    -> "denied"
      [] up.catalog \in {"empty", "404"} -> Completion(up)
      [] OTHER                 -> "error"

\* modelCredential, probeModel.
ProbeModel(up) ==
    CASE ~up.credential                      -> "error"
      [] up.protocol = "openai-compatible"   -> ByCatalog(up)
      [] up.protocol = "anthropic"           -> Completion(up)
      [] OTHER                               -> "error"

-----------------------------------------------------------------------------

Idle(p) == rounds[p].phase = "idle"

\* The enabled models with their statuses, at one moment.
StartRound(p) ==
    LET listed == {i \in DOMAIN ProbedModels : probed[ProbedModels[i]].enabled} IN
    /\ Idle(p) /\ roundCount < MaxRounds
    /\ roundCount' = roundCount + 1
    /\ rounds' = [rounds EXCEPT ![p] = [NoRound EXCEPT !.phase = "probe", !.now = roundCount + 1,
                      !.queue = [i \in listed |-> probed[ProbedModels[i]].status]]]
    /\ seenSince' = [seenSince EXCEPT ![p] = [m \in ModelSet |-> {ProbeModel(upstream[m])}]]
    /\ UNCHANGED <<upstream, probed, announced, lostAlerts, flaps>>

\* The place of the row at hand, its model and the status that the round read.
Place(p)       == Min(DOMAIN rounds[p].queue)
RowModel(p)    == ProbedModels[Place(p)]
Current(p)     == rounds[p].queue[Place(p)]
NothingLeft(p) == DOMAIN rounds[p].queue = {}

\* The deadline of a round.
Deadline(p) ==
    /\ ~Idle(p) /\ ~rounds[p].late
    /\ rounds' = [rounds EXCEPT ![p].late = TRUE]
    /\ UNCHANGED <<upstream, probed, announced, lostAlerts, seenSince, flaps, roundCount>>

\* The loop ends with the queue or with the deadline; a call cut off by the
\* deadline looks like a failing credential or an unreachable upstream.
Probe(p) ==
    /\ rounds[p].phase = "probe"
    /\ IF NothingLeft(p) \/ rounds[p].late
       THEN rounds' = [rounds EXCEPT ![p] = NoRound]
       ELSE \E o \in {ProbeModel(upstream[RowModel(p)])} :
                rounds' = [rounds EXCEPT ![p].phase = "record", ![p].outcome = o]
    /\ UNCHANGED <<upstream, probed, announced, lostAlerts, seenSince, flaps, roundCount>>

CutOff(p) ==
    /\ rounds[p].phase = "probe" /\ ~NothingLeft(p) /\ ~rounds[p].late
    /\ \E o \in {"error", "unreachable"} :
           rounds' = [rounds EXCEPT ![p].phase = "record", ![p].outcome = o, ![p].late = TRUE]
    /\ UNCHANGED <<upstream, probed, announced, lostAlerts, seenSince, flaps, roundCount>>

\* Mutant: a round past its deadline still records.
RecordsAnyway(p) == TRUE

\* Exec with the round's context fails once the deadline has passed.
CanRecord(p) == ~rounds[p].late

\* Mutant: every check moves health_since.
SinceNow(row, status, now) == now

\* health_since moves with the status only.
Since(row, status, now) == IF row.status # status \/ row.since = 0 THEN now ELSE row.since

\* recordModelHealth; a failure to record ends the round.
RecordModelHealth(p) ==
    LET m == RowModel(p) IN
    /\ rounds[p].phase = "record"
    /\ IF CanRecord(p)
       THEN /\ probed' = [probed EXCEPT ![m].status = rounds[p].outcome, ![m].checked = rounds[p].now,
                                        ![m].since = Since(probed[m], rounds[p].outcome, rounds[p].now)]
            /\ rounds' = [rounds EXCEPT ![p].phase = "notify"]
       ELSE rounds' = [rounds EXCEPT ![p] = NoRound] /\ UNCHANGED probed
    /\ UNCHANGED <<upstream, announced, lostAlerts, seenSince, flaps, roundCount>>

\* The caller's gate; the notification does not use the round's deadline.
Changed(p) == rounds[p].outcome # Current(p)

\* notifyModelHealthChange: best effort.
NotifyModelHealthChange(p, ok) ==
    LET m == RowModel(p) IN
    /\ rounds[p].phase = "notify"
    /\ ok \/ (Changed(p) /\ Cardinality(lostAlerts) < MaxLostAlerts)
    /\ announced' = IF ok /\ Changed(p) THEN [announced EXCEPT ![m] = rounds[p].outcome] ELSE announced
    /\ lostAlerts' = IF ~ok THEN lostAlerts \cup {m} ELSE IF Changed(p) THEN lostAlerts \ {m} ELSE lostAlerts
    /\ rounds' = [rounds EXCEPT ![p].phase = "probe", ![p].queue = Restrict(@, DOMAIN @ \ {Place(p)})]
    /\ UNCHANGED <<upstream, probed, seenSince, flaps, roundCount>>

\* The upstream changes, or an administrator changes the model's endpoint,
\* protocol or credential, or disables it.
Flap(m, up) ==
    /\ flaps < MaxFlaps /\ flaps' = flaps + 1
    /\ upstream' = [upstream EXCEPT ![m] = up]
    /\ seenSince' = [p \in Probers |-> [seenSince[p] EXCEPT ![m] = @ \cup {ProbeModel(up)}]]
    /\ UNCHANGED <<probed, rounds, announced, lostAlerts, roundCount>>

Enable(m, enabled) ==
    /\ flaps < MaxFlaps /\ flaps' = flaps + 1
    /\ probed' = [probed EXCEPT ![m].enabled = enabled]
    /\ UNCHANGED <<upstream, rounds, announced, lostAlerts, seenSince, roundCount>>

ProberStep(p) ==
    \/ StartRound(p) \/ Probe(p) \/ CutOff(p) \/ Deadline(p) \/ RecordModelHealth(p)
    \/ \E ok \in BOOLEAN : NotifyModelHealthChange(p, ok)

HealthNext ==
    \/ \E p \in Probers : ProberStep(p)
    \/ \E m \in ModelSet : \/ \E up \in Upstreams : Flap(m, up)
                           \/ \E e \in BOOLEAN : Enable(m, e)

HealthSpec == HealthInit /\ [][HealthNext]_healthVars

-----------------------------------------------------------------------------
(* Properties. *)

HealthStatuses == {"unknown", "healthy", "credential_invalid", "denied", "model_missing", "unreachable", "error"}

\* A status never dates from after the check that found it, as long as one
\* process probes.
HealthTypeOK ==
    \A m \in ModelSet :
        /\ probed[m].status \in HealthStatuses
        /\ announced[m] \in HealthStatuses
        /\ probed[m].checked \in 0 .. MaxRounds
        /\ Cardinality(Probers) = 1 => probed[m].since <= probed[m].checked

\* CheckModelHealth: a recorded status is what a probe of the model could find at
\* some moment of its round: a call cut off by the deadline of the round never
\* makes a model unreachable.
StatusWasObserved ==
    \A p \in Probers : rounds[p].phase = "notify" => probed[RowModel(p)].status # rounds[p].outcome
                                                     \/ rounds[p].outcome \in seenSince[p][RowModel(p)]

\* notifyModelHealthChange: "a canceled probe round must not swallow the alert".
\* Between rounds of a single process, the last alert about a model names its
\* status, unless that alert was lost on its way.
AlertsFollowStatus ==
    (Cardinality(Probers) = 1 /\ \A p \in Probers : Idle(p)) =>
        \A m \in ModelSet \ lostAlerts : announced[m] = probed[m].status

\* health_since: the start of the current status moves only when it does.
SinceMarksTheChange ==
    [][\A m \in ModelSet : probed'[m].since # probed[m].since =>
           probed'[m].status # probed[m].status \/ probed[m].since = 0]_healthVars

\* The types; a status was observed; alerts name the status.
HealthInvariant ==
    /\ HealthTypeOK
    /\ StatusWasObserved
    /\ AlertsFollowStatus
=============================================================================
