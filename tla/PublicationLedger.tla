-------------------------- MODULE PublicationLedger --------------------------
(***************************************************************************)
(* The durable side of gateway publication for one deployment: the         *)
(* PostgreSQL tables behind control-service/internal/repository.           *)
(*                                                                         *)
(*   data_plane_publications (+ immutable snapshots)   intents, status     *)
(*   data_plane_publication_outbox                     outbox              *)
(*   models, users/teams/roles                         catalog, subjects   *)
(*   gateway_limits                                    limits              *)
(*   gateway_model_removals                            removals            *)
(*   gateway_reference_invalidations                   signal              *)
(*                                                                         *)
(* Every action is one committed transaction.  Capture, replay and         *)
(* invalidation hold the deployment's publication lock and then its native *)
(* lock; deletion triggers and rule writers hold the native lock; a claim  *)
(* holds the publication lock; an acknowledgement is one guarded UPDATE.   *)
(*                                                                         *)
(* Publication i has sequence number i: the sequence column is assigned    *)
(* under the publication lock, so it is increasing in commit order.  Gaps  *)
(* left by rolled back transactions carry no information and are dropped.  *)
(***************************************************************************)
EXTENDS Naturals, Sequences, FiniteSets

CONSTANTS
    Models,          \* model ids of the catalog
    Defs,            \* route definitions a model can have (endpoint, protocol,
                     \* upstream model, credential reference)
    Unpublishable,   \* definitions for which no route is derived
    Limits,          \* ids of native limit rules
    Subjects,        \* users, teams and roles a rule can be scoped to
    Scopes,          \* sets of references of one rule: its scope, its model, both
                     \* or (global) none
    Switches,        \* values of "enabled" that clients write
    Inclusions,      \* values of includeGatewayLimits that clients send
    Revisions,       \* labels a client may give explicitly
    Keys,            \* idempotency keys of clients
    Workers,         \* publication relay workers
    MaxPublications, \* bound on the number of publications
    MaxSignals,      \* bound on the number of reference deletions
    MaxVersion,      \* bound on the version a rule reaches by edits
    MaxAttempts      \* bound on the claims of one publication

ASSUME LedgerAssumption ==
    /\ Unpublishable \subseteq Defs
    /\ Models \cap Subjects = {}
    /\ Scopes \subseteq SUBSET (Models \cup Subjects)
    /\ Switches \subseteq BOOLEAN /\ Inclusions \subseteq BOOLEAN
    /\ "derived" \notin Revisions
    /\ "system" \notin Keys
    /\ MaxPublications \in Nat /\ MaxSignals \in Nat /\ MaxVersion \in Nat
    /\ MaxAttempts \in Nat

VARIABLES
    catalog,   \* model id -> [def, enabled], for the models that exist
    epoch,     \* auxiliary: how often each model id has been deleted
    subjects,  \* the users, teams and roles that exist
    limits,    \* rule id -> row, for every rule ever created
    removals,  \* model id -> last_publication_sequence of its last deletion
    signal,    \* [version, acknowledged]
    intents,   \* immutable columns of the publications, by sequence
    status,    \* [phase, code] of the publications, by sequence
    outbox,    \* delivery row of the publications, by sequence
    claim      \* what each worker believes it holds: [seq, token]

catalogVars == <<catalog, epoch, subjects, limits, removals>>
ledgerVars  == <<catalog, epoch, subjects, limits, removals, signal,
                 intents, status, outbox, claim>>

-----------------------------------------------------------------------------
(* Values. *)

\* Functions from a subset of S to T: a table keyed by S.
Table(S, T) == UNION {[D -> T] : D \in SUBSET S}

EmptyTable == [x \in {} |-> x]

\* Insert or replace one row.
Upsert(table, key, row) ==
    [x \in DOMAIN table \cup {key} |-> IF x = key THEN row ELSE table[x]]

Route == [def : Defs, enabled : BOOLEAN]
Rule  == [version : Nat, enabled : BOOLEAN, refs : Scopes]
RuleRow == [version : Nat, enabled : BOOLEAN, refs : Scopes,
            deleted : BOOLEAN, retired : BOOLEAN]

\* PublicationSnapshot.Payload.  selected says whether gatewayLimits is there.
Payload == [routes : Table(Models, Route), selected : BOOLEAN,
            limits : Table(Limits, Rule)]

\* born is auxiliary: the incarnation of each model the routes were taken from.
Intent == [key : Keys \cup {"system"}, revision : Revisions \cup {"derived"},
           payload : Payload, born : [Models -> Nat]]

Phases   == {"queued", "projecting", "projected", "failed", "superseded"}
Terminal == {"projected", "failed", "superseded"}
Codes    == {"", "INVALID_OPERATOR_SNAPSHOT", "CR_OWNERSHIP_CONFLICT"}
Status   == [phase : Phases, code : Codes]

\* claim_token and lease_until are both set or both NULL ("none"); attempts
\* stands for the token, a fresh uuid at every claim.
OutboxRow == [attempts : Nat, lease : {"none", "live", "expired"},
              due : BOOLEAN, completed : BOOLEAN]

NoClaim == [seq |-> 0, token |-> 0]
Claim   == [seq : Nat, token : Nat]

Outcomes == {"retry", "projected", "superseded", "invalid", "ownership"}

Seqs   == 1 .. Len(intents)
Latest == intents[Len(intents)]
Pending == signal.version > signal.acknowledged

-----------------------------------------------------------------------------
Init ==
    /\ catalog  = EmptyTable
    /\ epoch    = [m \in Models |-> 0]
    /\ subjects = Subjects
    /\ limits   = EmptyTable
    /\ removals = [m \in Models |-> 0]
    /\ signal   = [version |-> 0, acknowledged |-> 0]
    /\ intents  = <<>>
    /\ status   = <<>>
    /\ outbox   = <<>>
    /\ claim    = [w \in Workers |-> NoClaim]

-----------------------------------------------------------------------------
(* Catalog, identities and rules. *)

\* createModel and updateModel: an absent model is created, a present one
\* changes its definition or its enabled flag.
PutModel(m, d, e) ==
    /\ catalog' = Upsert(catalog, m, [def |-> d, enabled |-> e])
    /\ catalog' # catalog
    /\ UNCHANGED <<epoch, subjects, limits, removals, signal, intents, status,
                   outbox, claim>>

\* The three ways a rule's row is rewritten in place.
Edited(row, refs, e) == [row EXCEPT !.version = @ + 1, !.enabled = e, !.refs = refs]

SoftDeleted(row) ==
    [row EXCEPT !.deleted = TRUE, !.enabled = FALSE, !.version = @ + 1]

Retired(row) ==
    [row EXCEPT !.deleted = TRUE, !.retired = TRUE, !.enabled = FALSE, !.version = @ + 1]

\* putGatewayLimit: the references must exist; an existing rule keeps its id and
\* gets the next version, a soft-deleted one can no longer be written.
PutLimit(l, refs, e) ==
    /\ refs \subseteq DOMAIN catalog \cup subjects
    /\ IF l \in DOMAIN limits
         THEN /\ ~limits[l].deleted
              /\ limits[l].version < MaxVersion
              /\ limits' = [limits EXCEPT ![l] = Edited(@, refs, e)]
         ELSE limits' = Upsert(limits, l, [version |-> 1, enabled |-> e,
                            refs |-> refs, deleted |-> FALSE, retired |-> FALSE])
    /\ UNCHANGED <<catalog, epoch, subjects, removals, signal, intents, status,
                   outbox, claim>>

\* deleteGatewayLimit: a soft delete that keeps the row as a disabled fence.
DeleteLimit(l) ==
    /\ l \in DOMAIN limits
    /\ ~limits[l].deleted
    /\ limits' = [limits EXCEPT ![l] = SoftDeleted(@)]
    /\ UNCHANGED <<catalog, epoch, subjects, removals, signal, intents, status,
                   outbox, claim>>

\* The rules a deletion of reference t retires.
References(t) == {l \in DOMAIN limits : t \in limits[l].refs /\ ~limits[l].retired}

\* invalidate_gateway_reference, the part on gateway_limits.
Retire(t) ==
    limits' = [l \in DOMAIN limits |->
                 IF l \in References(t) THEN Retired(limits[l]) ELSE limits[l]]

Raise == signal' = [signal EXCEPT !.version = @ + 1]

\* The trigger's row in gateway_model_removals.
RecordRemoval(m) == removals' = [removals EXCEPT ![m] = Len(intents)]

\* deleteModel with the BEFORE DELETE trigger in the same transaction.
DeleteModel(m) ==
    /\ m \in DOMAIN catalog
    /\ signal.version < MaxSignals
    /\ catalog' = [x \in DOMAIN catalog \ {m} |-> catalog[x]]
    /\ epoch' = [epoch EXCEPT ![m] = @ + 1]
    /\ Retire(m)
    /\ RecordRemoval(m)
    /\ Raise
    /\ UNCHANGED <<subjects, intents, status, outbox, claim>>

\* Deletion of a user, team or role: the signal is raised only when a rule was
\* affected.
DeleteSubject(u) ==
    /\ u \in subjects
    /\ signal.version < MaxSignals
    /\ subjects' = subjects \ {u}
    /\ Retire(u)
    /\ IF References(u) = {} THEN UNCHANGED signal ELSE Raise
    /\ UNCHANGED <<catalog, epoch, removals, intents, status, outbox, claim>>

\* Role and team ids are derived from names, so a deleted id can come back.
CreateSubject(u) ==
    /\ u \notin subjects
    /\ subjects' = subjects \cup {u}
    /\ UNCHANGED <<catalog, epoch, limits, removals, signal, intents, status,
                   outbox, claim>>

-----------------------------------------------------------------------------
(* Selecting intent. *)

\* insertPublication: operation, audit and outbox row in one transaction.
InsertPublication(key, revision, payload, born) ==
    /\ intents' = Append(intents, [key |-> key, revision |-> revision,
                                   payload |-> payload, born |-> born])
    /\ status' = Append(status, [phase |-> "queued", code |-> ""])
    /\ outbox' = Append(outbox, [attempts |-> 0, lease |-> "none",
                                 due |-> TRUE, completed |-> FALSE])

\* A label is bound to the first content published under it.  A derived label
\* is the digest of the content and never conflicts.
RevisionFree(revision, payload) ==
    revision # "derived" =>
        \A i \in Seqs : intents[i].revision = revision => intents[i].payload = payload

\* deriveDataPlaneRoutes: disabled models are carried as disabled routes.
DerivedRoutes ==
    [m \in {x \in DOMAIN catalog : catalog[x].def \notin Unpublishable} |-> catalog[m]]

\* GatewayLimits(includeDeleted = true): soft-deleted rows stay as disabled rules.
DraftLimits ==
    [l \in DOMAIN limits |->
        [version |-> limits[l].version, refs |-> limits[l].refs,
         enabled |-> limits[l].enabled /\ ~limits[l].deleted]]

\* A publication that does not include limits inherits the latest intent's.
Captured(include) ==
    [routes   |-> DerivedRoutes,
     selected |-> include \/ (intents # <<>> /\ Latest.payload.selected),
     limits   |-> IF include THEN DraftLimits
                  ELSE IF intents = <<>> THEN EmptyTable
                  ELSE Latest.payload.limits]

\* An enabled rule on a model needs that model among the captured routes.
ValidPayload(p) ==
    \A l \in DOMAIN p.limits :
        p.limits[l].enabled => p.limits[l].refs \cap Models \subseteq DOMAIN p.routes

KeyUnused(k) == \A i \in Seqs : intents[i].key # k

\* createDataPlanePublication / QueueGatewayPublication.  A key already bound
\* returns the bound operation or a conflict and changes nothing.
QueueGatewayPublication(k, revision, include) ==
    /\ Len(intents) < MaxPublications
    /\ KeyUnused(k)
    /\ ValidPayload(Captured(include))
    /\ RevisionFree(revision, Captured(include))
    /\ InsertPublication(k, revision, Captured(include), epoch)
    /\ UNCHANGED <<catalog, epoch, subjects, limits, removals, signal, claim>>

\* Only the latest intent can be replayed, and no withdrawal may be pending.
Replayable(i) == i = Len(intents) /\ ~Pending

\* ReplayDataPlanePublication: the selected snapshot as a new operation.
ReplayDataPlanePublication(k, i) ==
    /\ Len(intents) < MaxPublications
    /\ KeyUnused(k)
    /\ i \in Seqs
    /\ Replayable(i)
    /\ InsertPublication(k, intents[i].revision, intents[i].payload, intents[i].born)
    /\ UNCHANGED <<catalog, epoch, subjects, limits, removals, signal, claim>>

\* Mutant: a re-created model counts as present although its predecessor was
\* deleted after the latest publication.
PresentByIdOnly == DOMAIN catalog

\* The models whose route in the latest intent may stay enabled.
PresentModels == {m \in DOMAIN catalog : removals[m] < Len(intents)}

\* Mutant: a retired rule is compared by its enabled flag only, at equal version.
SupersededAtEqualVersion(l, rule) ==
    limits[l].retired /\ limits[l].version = rule.version /\ rule.enabled

\* A captured rule that its retired row disables or outdates.
SupersededRule(l, rule) ==
    /\ limits[l].retired
    /\ limits[l].version >= rule.version
    /\ rule.enabled \/ limits[l].version > rule.version

\* invalidateSelected
Invalidated(p) ==
    [p EXCEPT
       !.routes = [m \in DOMAIN p.routes |->
           IF m \in PresentModels THEN p.routes[m]
           ELSE [p.routes[m] EXCEPT !.enabled = FALSE]],
       !.limits = [l \in DOMAIN p.limits |->
           IF SupersededRule(l, p.limits[l])
             THEN [p.limits[l] EXCEPT !.enabled = FALSE, !.version = limits[l].version]
             ELSE p.limits[l]]]

\* Mutant: a withdrawal that changes nothing is left unacknowledged.
OnlyNeededInvalidations ==
    /\ Pending
    /\ intents # <<>> /\ Invalidated(Latest.payload) # Latest.payload
    /\ InsertPublication("system", "derived", Invalidated(Latest.payload), Latest.born)
    /\ signal' = [signal EXCEPT !.acknowledged = signal.version]
    /\ UNCHANGED <<catalog, epoch, subjects, limits, removals, claim>>

\* QueueReferenceInvalidations: the replacement intent, when the selected one
\* changes, commits together with the acknowledgement of the signal.
QueueReferenceInvalidations ==
    /\ Pending
    /\ IF intents # <<>> /\ Invalidated(Latest.payload) # Latest.payload
         THEN InsertPublication("system", "derived", Invalidated(Latest.payload), Latest.born)
         ELSE UNCHANGED <<intents, status, outbox>>
    /\ signal' = [signal EXCEPT !.acknowledged = signal.version]
    /\ UNCHANGED <<catalog, epoch, subjects, limits, removals, claim>>

-----------------------------------------------------------------------------
(* Delivery: claim, lease, acknowledgement. *)

Superseding(i) == i < Len(intents) /\ status[i].phase \in {"queued", "projecting"}

\* Mutant: the phase of an older intent changes but its outbox row stays open.
OutboxLeftOpen(i) == outbox[i]

\* The lease a claim takes: a new token and 30 seconds.
ClaimedRow(row) == [row EXCEPT !.attempts = @ + 1, !.lease = "live"]

\* The second UPDATE of the claim: superseded intents complete their outbox row.
OutboxClosed(i) == [outbox[i] EXCEPT !.completed = TRUE, !.lease = "none"]

\* Mutant: a lease that has expired still bars the claim.
ClaimableUnleased(i) == ~outbox[i].completed /\ outbox[i].due /\ outbox[i].lease = "none"

Claimable(i) == ~outbox[i].completed /\ outbox[i].due /\ outbox[i].lease # "live"

\* ClaimDataPlanePublication by worker w.  Older undelivered intents are
\* superseded even when the latest one cannot be claimed.
ClaimDataPlanePublication(w) ==
    /\ claim[w] = NoClaim
    /\ intents # <<>>
    /\ outbox[Len(intents)].attempts < MaxAttempts
    /\ LET n == Len(intents)
           taken == status[n].phase \in {"queued", "projecting"} /\ Claimable(n)
       IN  /\ status' = [i \in Seqs |->
                 IF Superseding(i) THEN [phase |-> "superseded", code |-> ""]
                 ELSE IF i = n /\ taken THEN [phase |-> "projecting", code |-> ""]
                 ELSE status[i]]
           /\ outbox' = [i \in Seqs |->
                 IF Superseding(i) THEN OutboxClosed(i)
                 ELSE IF i = n /\ taken THEN ClaimedRow(outbox[i])
                 ELSE outbox[i]]
           /\ claim' = [claim EXCEPT ![w] =
                 IF taken THEN [seq |-> n, token |-> outbox[n].attempts + 1] ELSE NoClaim]
    /\ UNCHANGED <<catalog, epoch, subjects, limits, removals, signal, intents>>

\* Mutant: the acknowledgement does not compare claim tokens.
OwnsAnyToken(w) ==
    LET i == claim[w].seq
    IN  /\ outbox[i].lease = "live"
        /\ ~outbox[i].completed
        /\ status[i].phase = "projecting"
        /\ i = Len(intents)

\* Mutant: the acknowledgement does not look for a newer intent.
OwnsOutdated(w) ==
    LET i == claim[w].seq
    IN  /\ outbox[i].lease = "live"
        /\ outbox[i].attempts = claim[w].token
        /\ ~outbox[i].completed
        /\ status[i].phase = "projecting"

\* The WHERE clause of FinishDataPlanePublication.
OwnsLatest(w) ==
    LET i == claim[w].seq
    IN  /\ outbox[i].lease = "live"
        /\ outbox[i].attempts = claim[w].token
        /\ ~outbox[i].completed
        /\ status[i].phase = "projecting"
        /\ i = Len(intents)

FinishedStatus(outcome) ==
    CASE outcome = "retry"     -> [phase |-> "queued", code |-> ""]
      [] outcome = "invalid"   -> [phase |-> "failed", code |-> "INVALID_OPERATOR_SNAPSHOT"]
      [] outcome = "ownership" -> [phase |-> "failed", code |-> "CR_OWNERSHIP_CONFLICT"]
      [] OTHER                 -> [phase |-> outcome, code |-> ""]

\* Acknowledgement closes the row; a retry gives it back after a pause.
FinishedRow(row, outcome) ==
    [row EXCEPT !.lease = "none", !.due = (outcome # "retry"),
                !.completed = (outcome # "retry")]

\* FinishDataPlanePublication by worker w.  A lost claim changes nothing in the
\* database; either way the worker forgets the delivery.
FinishDataPlanePublication(w, outcome) ==
    /\ claim[w] # NoClaim
    /\ LET i == claim[w].seq
       IN  IF OwnsLatest(w)
             THEN /\ status' = [status EXCEPT ![i] = FinishedStatus(outcome)]
                  /\ outbox' = [outbox EXCEPT ![i] = FinishedRow(@, outcome)]
             ELSE UNCHANGED <<status, outbox>>
    /\ claim' = [claim EXCEPT ![w] = NoClaim]
    /\ UNCHANGED <<catalog, epoch, subjects, limits, removals, signal, intents>>

\* A worker process dies: what it holds in memory is gone, its lease is not.
ForgetClaim(w) ==
    /\ claim[w] # NoClaim
    /\ claim' = [claim EXCEPT ![w] = NoClaim]
    /\ UNCHANGED <<catalog, epoch, subjects, limits, removals, signal, intents,
                   status, outbox>>

\* The 30 seconds of a lease pass.
LeaseExpires(i) ==
    /\ i \in Seqs
    /\ outbox[i].lease = "live"
    /\ outbox' = [outbox EXCEPT ![i].lease = "expired"]
    /\ UNCHANGED <<catalog, epoch, subjects, limits, removals, signal, intents,
                   status, claim>>

\* next_attempt_at passes.
RetryDue(i) ==
    /\ i \in Seqs
    /\ ~outbox[i].due
    /\ outbox' = [outbox EXCEPT ![i].due = TRUE]
    /\ UNCHANGED <<catalog, epoch, subjects, limits, removals, signal, intents,
                   status, claim>>

-----------------------------------------------------------------------------
Administration ==
    \/ \E m \in Models, d \in Defs, e \in Switches : PutModel(m, d, e)
    \/ \E m \in Models : DeleteModel(m)
    \/ \E l \in Limits, refs \in Scopes, e \in Switches : PutLimit(l, refs, e)
    \/ \E l \in Limits : DeleteLimit(l)
    \/ \E u \in Subjects : DeleteSubject(u)
    \/ \E u \in Subjects : CreateSubject(u)
    \/ \E k \in Keys, r \in Revisions \cup {"derived"}, b \in Inclusions :
          QueueGatewayPublication(k, r, b)
    \/ \E k \in Keys, i \in Seqs : ReplayDataPlanePublication(k, i)

Passage == \E i \in Seqs : LeaseExpires(i) \/ RetryDue(i)

Next ==
    \/ Administration
    \/ QueueReferenceInvalidations
    \/ Passage
    \/ \E w \in Workers :
          \/ ClaimDataPlanePublication(w)
          \/ \E o \in Outcomes : FinishDataPlanePublication(w, o)
          \/ ForgetClaim(w)

Spec == Init /\ [][Next]_ledgerVars

-----------------------------------------------------------------------------
(* Properties. *)

\* Every table keeps its type; the three publication tables have one row per
\* operation (insertPublication writes all of them in one transaction).
TypeOK ==
    /\ catalog \in Table(Models, Route)
    /\ epoch \in [Models -> Nat]
    /\ subjects \in SUBSET Subjects
    /\ limits \in Table(Limits, RuleRow)
    /\ removals \in [Models -> Nat]
    /\ signal \in [version : Nat, acknowledged : Nat]
    /\ intents \in Seq(Intent)
    /\ status \in [Seqs -> Status]
    /\ outbox \in [Seqs -> OutboxRow]
    /\ claim \in [Workers -> Claim]

\* The publication row and its outbox row, updated by separate statements of
\* claim and acknowledgement, agree: an intent is closed in the outbox exactly
\* when its phase is terminal, it is projecting exactly when somebody has
\* claimed it, and only failures carry a code.  An open intent can therefore
\* always be claimed again, and a closed one never is.
OutboxAgrees ==
    \A i \in Seqs :
        /\ outbox[i].completed <=> status[i].phase \in Terminal
        /\ outbox[i].lease # "none" <=> status[i].phase = "projecting"
        /\ status[i].code # "" <=> status[i].phase = "failed"

\* Worker w can still acknowledge the delivery it holds.
MayAcknowledge(w) == claim[w] # NoClaim /\ OwnsLatest(w)

\* Claim tokens and leases fence acknowledgements: whatever the workers still
\* hold in memory after stalls and restarts, at most one of them can close the
\* latest intent.
OneAcknowledger ==
    \A v, w \in Workers : MayAcknowledge(v) /\ MayAcknowledge(w) => v = w

\* Once no withdrawal is pending, every enabled route of the selected intent
\* comes from the model that exists now, not from a deleted predecessor with
\* the same id (QueueReferenceInvalidations, ReplayDataPlanePublication and the
\* deletion trigger together).
SelectedRoutesCurrent ==
    intents # <<>> /\ ~Pending =>
        \A m \in DOMAIN Latest.payload.routes :
            Latest.payload.routes[m].enabled =>
                m \in DOMAIN catalog /\ Latest.born[m] = epoch[m]

\* Once no withdrawal is pending, no rule that a deletion retired is enabled in
\* the selected intent, inherited and replayed intents included.
SelectedRulesCurrent ==
    intents # <<>> /\ ~Pending =>
        \A l \in DOMAIN Latest.payload.limits :
            Latest.payload.limits[l].enabled => ~limits[l].retired

\* An operation changes phase to projected or failed only while it is the
\* selected intent, and a terminal phase never changes again: a delayed worker
\* cannot acknowledge for an intent that a newer one replaced.
TerminalForGood ==
    [][\A i \in Seqs :
        /\ status[i].phase \in Terminal => status'[i] = status[i]
        /\ status'[i].phase \in {"projected", "failed"} /\ status'[i] # status[i]
             => i = Len(intents)]_ledgerVars

-----------------------------------------------------------------------------
(* What the invariants above rest on. *)

\* Workers remember claims that were really made, and never the same one.
ClaimsDistinct ==
    /\ \A w \in Workers : claim[w] # NoClaim =>
          /\ claim[w].seq \in Seqs
          /\ claim[w].token \in 1 .. outbox[claim[w].seq].attempts
    /\ \A v, w \in Workers : claim[v] = claim[w] /\ claim[v] # NoClaim => v = w

SignalOrdered == signal.acknowledged <= signal.version

\* An enabled route of the selected intent whose model is gone or replaced was
\* removed under that very intent, and the signal of the removal is pending.
RoutesTracked ==
    intents # <<>> =>
        \A m \in DOMAIN Latest.payload.routes :
            Latest.payload.routes[m].enabled =>
                \/ m \in DOMAIN catalog /\ Latest.born[m] = epoch[m]
                \/ Pending /\ removals[m] = Len(intents)

\* A rule of the selected intent is never ahead of its row, and it is enabled
\* over a retired row only while the signal of the retirement is pending.
RulesTracked ==
    /\ \A l \in DOMAIN limits : limits[l].retired => limits[l].deleted
    /\ intents # <<>> =>
          \A l \in DOMAIN Latest.payload.limits :
              /\ l \in DOMAIN limits
              /\ Latest.payload.limits[l].version <= limits[l].version
              /\ Latest.payload.limits[l].enabled => ~limits[l].retired \/ Pending

LedgerInvariant ==
    /\ TypeOK
    /\ OutboxAgrees
    /\ ClaimsDistinct
    /\ SignalOrdered
    /\ RoutesTracked
    /\ RulesTracked
=============================================================================
