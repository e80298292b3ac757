-------------------------- MODULE PublicationRelay --------------------------
(***************************************************************************)
(* The publication relay: workers that turn the selected intent of the     *)
(* ledger into AEP custom resources (control-service/internal/             *)
(* publicationrelay).  One ModelRoute per model, one ModelPolicy per       *)
(* native limit rule, and the singleton DeploymentConfig, whose marker is  *)
(* stamped last and stands for the aggregate.                              *)
(*                                                                         *)
(* Every call to the Kubernetes API is a step of its own: a worker can     *)
(* stall, lose its lease or die between any two of them, and a write whose *)
(* caller has given up can still reach the API server later.               *)
(***************************************************************************)
EXTENDS PublicationLedger

CONSTANTS
    Unrepresentable, \* definitions routeSpec refuses (ErrSnapshot)
    Rejected,        \* definitions routeSpec accepts but the CRD schema refuses
    MaxFaults        \* bound on disturbances: API errors, lost requests, crashes,
                     \* a lease that lapses under a working holder, a busy lock,
                     \* status writes of the operator

ASSUME RelayAssumption ==
    /\ Unrepresentable \subseteq Defs
    /\ Rejected \subseteq Defs
    /\ Models \cap Limits = {}
    /\ "deployment" \notin Models \cup Limits
    /\ MaxFaults \in Nat

VARIABLES
    cr,     \* the API server: [rv, marker, spec] of every object, rv = 0 if absent
    late,   \* writes whose caller has given up and that may still arrive
    work,   \* progress of every worker
    faults  \* disturbances so far

relayVars == <<cr, late, work, faults>>
vars      == <<ledgerVars, relayVars>>

-----------------------------------------------------------------------------
(* What an intent asks for. *)

Children == Models \cup Limits
Objects  == Children \cup {"deployment"}

\* The payloads up to sequence s: the immutable inputs of one delivery
\* (publicationInputs reads no newer operation).
Prefix(s) == [i \in 1 .. s |-> intents[i].payload]

\* The operations of history h whose definition of model m routeSpec accepts.
Accepted(h, m) ==
    {i \in DOMAIN h : m \in DOMAIN h[i].routes
                        /\ h[i].routes[m].def \notin Unrepresentable}

Newest(S) == CHOOSE i \in S : \A j \in S : j <= i

\* Mutant: a model that left the intent is forgotten instead of disabled.
WithoutTombstones(h) == h[Len(h)].routes

\* desiredRoutes: the current routes, and for every other model of the history
\* a disabled tombstone with its newest representable definition.
DesiredRoutes(h) ==
    LET current == h[Len(h)].routes
    IN  [m \in {x \in Models : Accepted(h, x) # {}} |->
            IF m \in DOMAIN current THEN current[m]
            ELSE [def |-> h[Newest(Accepted(h, m))].routes[m].def, enabled |-> FALSE]]

\* desiredPolicies: every captured rule, disabled ones included.
DesiredPolicies(h) ==
    IF h[Len(h)].selected THEN h[Len(h)].limits ELSE EmptyTable

\* The errors desiredRoutes and desiredPolicies return as ErrSnapshot.
Representable(h) ==
    /\ \A m \in DOMAIN h[Len(h)].routes : h[Len(h)].routes[m].def \notin Unrepresentable
    /\ \A l \in DOMAIN DesiredPolicies(h) :
          LET rule == DesiredPolicies(h)[l]
          IN  rule.enabled => rule.refs \cap Models \subseteq DOMAIN DesiredRoutes(h)

DesiredOf(h) ==
    [o \in DOMAIN DesiredRoutes(h) \cup DOMAIN DesiredPolicies(h) |->
        IF o \in DOMAIN DesiredRoutes(h) THEN DesiredRoutes(h)[o] ELSE DesiredPolicies(h)[o]]

Desired(s) == DesiredOf(Prefix(s))

-----------------------------------------------------------------------------
(* Objects and requests. *)

NoSpec == [absent |-> TRUE]
Absent == [rv |-> 0, marker |-> 0, spec |-> NoSpec]

\* The CRD schema check of the API server.
SchemaRefuses(o, spec) == o \in Models /\ spec.def \in Rejected

\* Mutant: the content is read anew when the request is built.
RequestOfNewest(o, base, s) ==
    [object |-> o, rv |-> base.rv, marker |-> s,
     spec |-> IF o = "deployment" THEN NoSpec ELSE Desired(Len(intents))[o]]

Request(o, base, s) ==
    [object |-> o, rv |-> base.rv, marker |-> s,
     spec |-> IF o = "deployment" THEN NoSpec ELSE Desired(s)[o]]

\* Create needs an absent object, Update the resourceVersion it was read at:
\* with rv = 0 for absent objects both compare rv.
Accepts(r) == cr[r.object].rv = r.rv

Applied(r) ==
    cr' = [cr EXCEPT ![r.object] = [rv |-> r.rv + 1, marker |-> r.marker, spec |-> r.spec]]

-----------------------------------------------------------------------------
(* Workers. *)

Idle == [pc |-> "idle", stage |-> "routes", view |-> EmptyTable, done |-> {},
         outcome |-> "retry"]

RelayInit ==
    /\ Init
    /\ cr = [o \in Objects |-> IF o = "deployment"
                THEN [rv |-> 1, marker |-> 0, spec |-> NoSpec] ELSE Absent]
    /\ late = {}
    /\ work = [w \in Workers |-> Idle]
    /\ faults = 0

At(w, pc) == work[w].pc = pc

\* The next program point of w; its other fields as given by a record.
Goto(w, next) == work' = [work EXCEPT ![w] = next]

To(w, pc) == Goto(w, [work[w] EXCEPT !.pc = pc, !.view = EmptyTable, !.done = {}])

\* Project returns: the step still has to acknowledge the outcome.
Return(w, outcome) == Goto(w, [Idle EXCEPT !.pc = "finish", !.outcome = outcome])

Disturbed == faults < MaxFaults /\ faults' = faults + 1

\* Mutant: the fence compares nothing.
NeverNewer(object, s) == FALSE

\* checkMarker: a newer publication has been here.
Newer(object, s) == object.marker > s

\* Mutant: disabled objects are not written.
StagedEnabled(w) ==
    {o \in DOMAIN Desired(claim[w].seq) :
        Desired(claim[w].seq)[o].enabled
          /\ o \in (IF work[w].stage = "routes" THEN Models ELSE Limits)}

\* The objects of the current stage that the intent asks for.
Staged(w) ==
    DOMAIN Desired(claim[w].seq)
        \cap (IF work[w].stage = "routes" THEN Models ELSE Limits)

\* The first transaction of stepRoutes.
Invalidate(w) ==
    /\ At(w, "idle")
    /\ IF Pending THEN QueueReferenceInvalidations ELSE UNCHANGED ledgerVars
    /\ To(w, "claim")
    /\ UNCHANGED <<cr, late, faults>>

\* The second one.  Nothing to claim ends the step.
StepClaim(w) ==
    /\ At(w, "claim")
    /\ IF intents = <<>> THEN UNCHANGED ledgerVars ELSE ClaimDataPlanePublication(w)
    /\ IF claim'[w] = NoClaim THEN Goto(w, Idle) ELSE To(w, "open")
    /\ UNCHANGED <<cr, late, faults>>

\* pg_try_advisory_xact_lock finds another transaction: an invalidation is left
\* to a later step, a claim ends this one.
LockBusy(w) ==
    /\ Disturbed
    /\ \/ At(w, "idle") /\ Pending /\ To(w, "claim")
       \/ At(w, "claim") /\ Goto(w, Idle)
    /\ UNCHANGED <<ledgerVars, cr, late>>

\* Project up to the first look at the aggregate.
Open(w) ==
    /\ At(w, "open")
    /\ LET s == claim[w].seq
       IN  CASE ~Representable(Prefix(s))       -> Return(w, "invalid")
             [] Representable(Prefix(s))
                  /\ Newer(cr["deployment"], s) -> Return(w, "superseded")
             [] OTHER                           -> To(w, "list")
    /\ UNCHANGED <<ledgerVars, cr, late, faults>>

\* One consistent List of the stage's kind.  projectPolicies refuses a policy
\* the snapshot does not know.
List(w) ==
    /\ At(w, "list")
    /\ LET kind == IF work[w].stage = "routes" THEN Models ELSE Limits
       IN  IF work[w].stage = "policies" /\ \E l \in Limits \ Staged(w) : cr[l].rv > 0
             THEN Return(w, "ownership")
             ELSE Goto(w, [work[w] EXCEPT !.pc = "write", !.done = {},
                                          !.view = [o \in kind |-> cr[o]]])
    /\ UNCHANGED <<ledgerVars, cr, late, faults>>

\* The listed object needs no write: same marker, same spec.
UpToDate(w, o) ==
    LET s == claim[w].seq
    IN  work[w].view[o].marker = s /\ work[w].view[o].spec = Desired(s)[o]

Writing(w, o) == At(w, "write") /\ o \in Staged(w) \ work[w].done

Done(w, o) == Goto(w, [work[w] EXCEPT !.done = @ \cup {o}])

\* writeRoute and the loop body of projectPolicies, without a request.
SkipWrite(w, o) ==
    /\ Writing(w, o)
    /\ \/ Newer(work[w].view[o], claim[w].seq) /\ Return(w, "superseded")
       \/ UpToDate(w, o) /\ Done(w, o)
    /\ UNCHANGED <<ledgerVars, cr, late, faults>>

\* The same with a request.  A create is validated before it is compared with
\* the store, an update after; a conflict is retried by a later step.
Write(w, o) ==
    /\ Writing(w, o)
    /\ ~Newer(work[w].view[o], claim[w].seq)
    /\ ~UpToDate(w, o)
    /\ LET r == Request(o, work[w].view[o], claim[w].seq)
       IN  \/ /\ SchemaRefuses(o, r.spec)
              /\ r.rv = 0 \/ Accepts(r)
              /\ Return(w, "invalid")
              /\ UNCHANGED cr
           \/ /\ ~SchemaRefuses(o, r.spec)
              /\ Accepts(r)
              /\ Applied(r)
              /\ Done(w, o)
           \/ /\ ~Accepts(r)
              /\ ~(SchemaRefuses(o, r.spec) /\ r.rv = 0)
              /\ Return(w, "retry")
              /\ UNCHANGED cr
    /\ UNCHANGED <<ledgerVars, late, faults>>

\* The caller's deadline passes while the request is on its way.
LoseWrite(w, o) ==
    /\ Writing(w, o)
    /\ ~Newer(work[w].view[o], claim[w].seq)
    /\ ~UpToDate(w, o)
    /\ Disturbed
    /\ LET r == Request(o, work[w].view[o], claim[w].seq)
       IN  late' = IF SchemaRefuses(o, r.spec) THEN late ELSE late \cup {r}
    /\ Return(w, "retry")
    /\ UNCHANGED <<ledgerVars, cr>>

\* What the re-read says of one desired object.
Verdict(o, s) ==
    CASE cr[o].rv = 0                                       -> "retry"
      [] cr[o].rv > 0 /\ Newer(cr[o], s)                    -> "superseded"
      [] cr[o].rv > 0 /\ cr[o].marker = s
                      /\ cr[o].spec = Desired(s)[o]         -> "projected"
      [] OTHER                                              -> "ownership"

\* The re-read of all objects of a stage and what follows it: the policy stage
\* when the intent selects limits, then the aggregate.
Verify(w) ==
    /\ At(w, "write")
    /\ Staged(w) \subseteq work[w].done
    /\ LET s == claim[w].seq
           strangers == work[w].stage = "policies"
                          /\ {l \in Limits : cr[l].rv > 0} # Staged(w)
           bad == {o \in Staged(w) : Verdict(o, s) # "projected"}
       IN  \/ strangers /\ Return(w, "ownership")
           \/ ~strangers /\ \E o \in bad : Return(w, Verdict(o, s))
           \/ /\ ~strangers /\ bad = {}
              /\ IF work[w].stage = "routes" /\ intents[s].payload.selected
                   THEN Goto(w, [Idle EXCEPT !.pc = "list", !.stage = "policies"])
                   ELSE To(w, "stamp")
    /\ UNCHANGED <<ledgerVars, cr, late, faults>>

\* The fresh read of the aggregate.
Stamp(w) ==
    /\ At(w, "stamp")
    /\ LET s == claim[w].seq
           live == cr["deployment"]
       IN  CASE Newer(live, s)                      -> Return(w, "superseded")
             [] ~Newer(live, s) /\ live.marker = s  -> To(w, "confirm")
             [] OTHER -> Goto(w, [work[w] EXCEPT !.pc = "update",
                                    !.view = [o \in {"deployment"} |-> live]])
    /\ UNCHANGED <<ledgerVars, cr, late, faults>>

Update(w) ==
    /\ At(w, "update")
    /\ LET r == Request("deployment", work[w].view["deployment"], claim[w].seq)
       IN  \/ Accepts(r) /\ Applied(r) /\ To(w, "confirm")
           \/ ~Accepts(r) /\ Return(w, "retry") /\ UNCHANGED cr
    /\ UNCHANGED <<ledgerVars, late, faults>>

LoseUpdate(w) ==
    /\ At(w, "update")
    /\ Disturbed
    /\ late' = late \cup {Request("deployment", work[w].view["deployment"], claim[w].seq)}
    /\ Return(w, "retry")
    /\ UNCHANGED <<ledgerVars, cr>>

\* The last read of Project.
Confirm(w) ==
    /\ At(w, "confirm")
    /\ Return(w, LET s == claim[w].seq
                     live == cr["deployment"]
                 IN  IF Newer(live, s) THEN "superseded"
                     ELSE IF live.marker = s THEN "projected" ELSE "ownership")
    /\ UNCHANGED <<ledgerVars, cr, late, faults>>

\* A read fails or the deadline of Project passes.
ApiError(w) ==
    /\ work[w].pc \in {"open", "list", "write", "stamp", "update", "confirm"}
    /\ Disturbed
    /\ Return(w, "retry")
    /\ UNCHANGED <<ledgerVars, cr, late>>

StepFinish(w) ==
    /\ At(w, "finish")
    /\ FinishDataPlanePublication(w, work[w].outcome)
    /\ Goto(w, Idle)
    /\ UNCHANGED <<cr, late, faults>>

\* The process restarts, or the acknowledgement cannot be written.
Crash(w) ==
    /\ claim[w] # NoClaim
    /\ Disturbed
    /\ ForgetClaim(w)
    /\ Goto(w, Idle)
    /\ UNCHANGED <<cr, late>>

-----------------------------------------------------------------------------
(* The API server and time. *)

\* A request whose caller has given up arrives after all.
Arrive(r) ==
    /\ late' = late \ {r}
    /\ IF Accepts(r) THEN Applied(r) ELSE UNCHANGED cr
    /\ UNCHANGED <<ledgerVars, work, faults>>

\* The operator writes a status: the resourceVersion moves, nothing else.
OperatorTouch(o) ==
    /\ cr[o].rv > 0
    /\ Disturbed
    /\ cr' = [cr EXCEPT ![o].rv = @ + 1]
    /\ UNCHANGED <<ledgerVars, late, work>>

Held(i) == \E w \in Workers : claim[w] = [seq |-> i, token |-> outbox[i].attempts]

\* The deadlines of one step (5 + 10 + 5 seconds) fit into the 30 seconds of a
\* lease: it lapses under a working holder only when the process is suspended.
LeaseLapses(i) ==
    /\ LeaseExpires(i)
    /\ IF Held(i) THEN Disturbed ELSE UNCHANGED faults
    /\ UNCHANGED <<cr, late, work>>

Due(i) == RetryDue(i) /\ UNCHANGED relayVars

-----------------------------------------------------------------------------
\* One program step of worker w.
Step(w) ==
    \/ Invalidate(w) \/ StepClaim(w) \/ Open(w) \/ List(w)
    \/ \E o \in Children : SkipWrite(w, o) \/ Write(w, o)
    \/ Verify(w) \/ Stamp(w) \/ Update(w) \/ Confirm(w) \/ StepFinish(w)

Disturbance(w) ==
    \/ LockBusy(w) \/ LoseUpdate(w) \/ ApiError(w) \/ Crash(w)
    \/ \E o \in Children : LoseWrite(w, o)

RelayNext ==
    \/ Administration /\ UNCHANGED relayVars
    \/ \E w \in Workers : Step(w) \/ Disturbance(w)
    \/ \E r \in late : Arrive(r)
    \/ \E o \in Objects : OperatorTouch(o)
    \/ \E i \in Seqs : LeaseLapses(i) \/ Due(i)

RelaySpec == RelayInit /\ [][RelayNext]_vars

\* Every worker loop keeps stepping (wait.UntilWithContext restarts a failed
\* cycle after a second, a crashed process is restarted) and time passes.
LiveSpec ==
    /\ RelaySpec
    /\ \A w \in Workers : WF_vars(Step(w))
    /\ \A i \in 1 .. (MaxPublications + MaxSignals) :
          /\ WF_vars(i \in Seqs /\ ~Held(i) /\ LeaseLapses(i))
          /\ WF_vars(i \in Seqs /\ Due(i))

-----------------------------------------------------------------------------
(* The abstract specification. *)

Acknowledged ==
    LET projected == {i \in Seqs : status[i].phase = "projected"}
    IN  IF projected = {} THEN 0 ELSE Newest(projected)

Delivery == INSTANCE DeliveryContract WITH
    Things       <- Children,
    needs        <- [i \in Seqs |-> DOMAIN DesiredRoutes(Prefix(i))
                                      \cup DOMAIN DesiredPolicies(Prefix(i))],
    placed       <- [o \in Children |-> cr[o].marker],
    stamped      <- cr["deployment"].marker,
    acknowledged <- Acknowledged

\* Ledger and relay together keep the delivery contract: objects only move
\* forward, the aggregate follows its objects, and only the newest intent is
\* acknowledged, after the aggregate carries it.
KeepsContract == Delivery!Contract

-----------------------------------------------------------------------------
(* Properties. *)

Exists(o) == cr[o].rv > 0

\* Every table keeps its type and every object is absent or carries a marker of
\* an operation of the ledger.
RelayTypeOK ==
    /\ cr \in [Objects -> [rv : Nat, marker : 0 .. Len(intents),
                           spec : Route \cup Rule \cup {NoSpec}]]
    /\ \A w \in Workers :
          /\ work[w].pc \in {"idle", "claim", "open", "list", "write", "stamp",
                             "update", "confirm", "finish"}
          /\ work[w].stage \in {"routes", "policies"}
          /\ work[w].outcome \in Outcomes
          /\ claim[w] = NoClaim <=> work[w].pc \in {"idle", "claim"}

\* Marker and spec are written together and never mixed up by racing, delayed or
\* repeated writers: a live child is exactly what the operation in its marker
\* asked for.
SpecFollowsMarker ==
    \A o \in Children : Exists(o) =>
        /\ cr[o].marker \in Seqs
        /\ o \in DOMAIN Desired(cr[o].marker)
        /\ cr[o].spec = Desired(cr[o].marker)[o]

\* The aggregate is stamped last: when it carries operation d, every object d
\* asks for has been written by d or by a newer operation.
AggregateStampedLast ==
    LET d == cr["deployment"].marker
    IN  d > 0 => \A o \in DOMAIN Desired(d) : cr[o].marker >= d

\* An acknowledged operation is in the cluster: projected is never reported
\* before the aggregate carries it.
ProjectedIsStamped ==
    \A i \in Seqs : status[i].phase = "projected" => cr["deployment"].marker >= i

\* While the selected intent is projected, the cluster holds exactly its objects
\* with its specs, disabled tombstones included: nothing an earlier operation
\* left enabled survives, and no delayed write of one comes back.
ProjectedIsLive ==
    intents # <<>> /\ status[Len(intents)].phase = "projected" =>
        LET n == Len(intents)
        IN  \A o \in Children :
              IF o \in DOMAIN Desired(n)
                THEN cr[o].marker = n /\ cr[o].spec = Desired(n)[o]
                ELSE ~Exists(o)

\* End to end: once a deletion's withdrawal is selected and projected, no route
\* of a deleted model is live and enabled.
DeletedModelsWithdrawn ==
    intents # <<>> /\ ~Pending /\ status[Len(intents)].phase = "projected" =>
        \A m \in Models : Exists(m) /\ cr[m].spec.enabled =>
            m \in DOMAIN catalog /\ Latest.born[m] = epoch[m]

\* The relays never trip over each other's objects: with no foreign writer, no
\* operation is failed for an ownership conflict.
NoOwnershipConflict == \A i \in Seqs : status[i].code # "CR_OWNERSHIP_CONFLICT"

\* An operation is failed as unrepresentable only for its own content, so
\* publishing a repaired catalog under a new key succeeds.
FailsForItsOwnContent ==
    \A i \in Seqs : status[i].code = "INVALID_OPERATOR_SNAPSHOT" =>
        \/ ~Representable(Prefix(i))
        \/ \E m \in DOMAIN intents[i].payload.routes :
              intents[i].payload.routes[m].def \in Rejected

\* No object ever goes back to an older operation.
MarkersNeverRollBack == [][\A o \in Objects : cr'[o].marker >= cr[o].marker]_vars

\* Every accepted operation reaches a terminal phase although workers crash,
\* stall and lose requests.
EveryOperationSettles ==
    \A i \in 1 .. (MaxPublications + MaxSignals) :
        (i \in Seqs) ~> (i \in Seqs /\ status[i].phase \in Terminal)

\* Every deletion is eventually turned into a withdrawal, or found to need none.
WithdrawalsSelected == Pending ~> ~Pending

\* The types of the relays and of the cluster; the aggregate is stamped last and
\* only complete deliveries are acknowledged; the relays do not take each other's
\* objects for foreign ones; a deleted model is withdrawn end to end.
RelayInvariant ==
    /\ RelayTypeOK
    /\ AggregateStampedLast
    /\ ProjectedIsStamped
    /\ NoOwnershipConflict
    /\ DeletedModelsWithdrawn
=============================================================================
