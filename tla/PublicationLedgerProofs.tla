----------------------- MODULE PublicationLedgerProofs -----------------------
(***************************************************************************)
(* Theorems about PublicationLedger, for every set of models, rules,       *)
(* references, keys and workers and for every bound.                       *)
(***************************************************************************)
EXTENDS PublicationLedger, SequenceTheorems, TLAPS

-----------------------------------------------------------------------------
(* Tables. *)

\* A function into T on a subset of S is a table.
LEMMA TableIntro ==
    ASSUME NEW S, NEW T, NEW D \in SUBSET S, NEW f \in [D -> T]
    PROVE  f \in Table(S, T)
BY DEF Table

\* A table is a function into T on a subset of S.
LEMMA TableElim ==
    ASSUME NEW S, NEW T, NEW f \in Table(S, T)
    PROVE  DOMAIN f \in SUBSET S /\ f \in [DOMAIN f -> T]
<1>1. PICK D \in SUBSET S : f \in [D -> T]
  BY DEF Table
<1> QED
  BY <1>1

\* Upsert adds one row to a table (createModel, putGatewayLimit).
LEMMA UpsertTable ==
    ASSUME NEW S, NEW T, NEW f \in Table(S, T), NEW k \in S, NEW v \in T
    PROVE  Upsert(f, k, v) \in Table(S, T)
<1>1. DOMAIN f \in SUBSET S /\ f \in [DOMAIN f -> T]
  BY TableElim
<1>2. Upsert(f, k, v) \in [DOMAIN f \cup {k} -> T]
  BY <1>1 DEF Upsert
<1>3. DOMAIN f \cup {k} \in SUBSET S
  BY <1>1
<1> QED
  BY <1>2, <1>3, TableIntro

\* The empty table.
LEMMA EmptyIsTable == ASSUME NEW S, NEW T PROVE EmptyTable \in Table(S, T)
<1>1. EmptyTable \in [{} -> T]
  BY DEF EmptyTable
<1> QED
  BY <1>1, TableIntro

-----------------------------------------------------------------------------
(* Rows by sequence number. *)

\* A column indexed by 1 .. n is a sequence of n rows.
LEMMA ColumnIsSeq ==
    ASSUME NEW S, NEW n \in Nat, NEW f \in [1 .. n -> S]
    PROVE  f \in Seq(S) /\ Len(f) = n
OBVIOUS

\* Appending a row to a sequence of rows.
LEMMA AppendRow ==
    ASSUME NEW S, NEW f \in Seq(S), NEW e \in S
    PROVE  /\ Append(f, e) \in [1 .. Len(f) + 1 -> S]
           /\ Append(f, e)[Len(f) + 1] = e
           /\ \A i \in 1 .. Len(f) : Append(f, e)[i] = f[i]
<1>1. /\ Append(f, e) \in Seq(S)
      /\ Len(Append(f, e)) = Len(f) + 1
      /\ Append(f, e)[Len(f) + 1] = e
      /\ \A i \in 1 .. Len(f) : Append(f, e)[i] = f[i]
  BY AppendProperties
<1>2. Append(f, e) \in [1 .. Len(Append(f, e)) -> S]
  BY <1>1, LenProperties
<1> QED
  BY <1>1, <1>2, Zenon

\* insertPublication adds one typed row to each publication table.
LEMMA InsertTyped ==
    ASSUME TypeOK,
           NEW key \in Keys \cup {"system"}, NEW revision \in Revisions \cup {"derived"},
           NEW payload \in Payload, NEW born \in [Models -> Nat],
           InsertPublication(key, revision, payload, born)
    PROVE  /\ intents' \in Seq(Intent)
           /\ Len(intents) \in Nat
           /\ Len(intents') = Len(intents) + 1
           /\ status' \in [1 .. Len(intents) + 1 -> Status]
           /\ outbox' \in [1 .. Len(intents) + 1 -> OutboxRow]
           /\ intents'[Len(intents) + 1] = [key |-> key, revision |-> revision,
                                            payload |-> payload, born |-> born]
           /\ \A i \in Seqs : status'[i] = status[i] /\ outbox'[i] = outbox[i]
           /\ status'[Len(intents) + 1].phase = "queued"
           /\ status'[Len(intents) + 1].code = ""
           /\ ~outbox'[Len(intents) + 1].completed
           /\ outbox'[Len(intents) + 1].lease = "none"
           /\ outbox'[Len(intents) + 1].attempts = 0
<1> DEFINE row == [key |-> key, revision |-> revision, payload |-> payload, born |-> born]
           st  == [phase |-> "queued", code |-> ""]
           ob  == [attempts |-> 0, lease |-> "none", due |-> TRUE, completed |-> FALSE]
<1>1. row \in Intent /\ intents \in Seq(Intent)
  BY DEF Intent, TypeOK
<1>2. st \in Status /\ ob \in OutboxRow
  BY DEF Status, Phases, Codes, OutboxRow
<1>3. Len(intents) \in Nat
  BY <1>1
<1>4. intents' = Append(intents, row) /\ status' = Append(status, st) /\ outbox' = Append(outbox, ob)
  BY DEF InsertPublication
<1>5. /\ intents' \in Seq(Intent)
      /\ Len(intents') = Len(intents) + 1
      /\ intents'[Len(intents) + 1] = row
  <2>1. intents' = Append(intents, row)
    BY <1>4
  <2> HIDE DEF row
  <2> QED
    BY ONLY <1>1, <2>1, AppendProperties
<1>6. /\ status \in [1 .. Len(intents) -> Status]
      /\ outbox \in [1 .. Len(intents) -> OutboxRow]
  BY DEF TypeOK, Seqs
<1>7. status \in Seq(Status) /\ Len(status) = Len(intents)
  BY ONLY <1>3, <1>6, ColumnIsSeq
<1>8. outbox \in Seq(OutboxRow) /\ Len(outbox) = Len(intents)
  BY ONLY <1>3, <1>6, ColumnIsSeq
<1> HIDE DEF row, st, ob
<1>9. /\ status' \in [1 .. Len(intents) + 1 -> Status]
      /\ status'[Len(intents) + 1] = st
      /\ \A i \in 1 .. Len(intents) : status'[i] = status[i]
  <2>1. /\ Append(status, st) \in [1 .. Len(intents) + 1 -> Status]
        /\ Append(status, st)[Len(intents) + 1] = st
        /\ \A i \in 1 .. Len(intents) : Append(status, st)[i] = status[i]
    BY ONLY <1>2, <1>7, AppendRow
  <2> QED
    BY <1>4, <2>1
<1>10. /\ outbox' \in [1 .. Len(intents) + 1 -> OutboxRow]
      /\ outbox'[Len(intents) + 1] = ob
      /\ \A i \in 1 .. Len(intents) : outbox'[i] = outbox[i]
  <2>1. /\ Append(outbox, ob) \in [1 .. Len(intents) + 1 -> OutboxRow]
        /\ Append(outbox, ob)[Len(intents) + 1] = ob
        /\ \A i \in 1 .. Len(intents) : Append(outbox, ob)[i] = outbox[i]
    BY ONLY <1>2, <1>8, AppendRow
  <2> QED
    BY <1>4, <2>1
<1>11. st.phase = "queued" /\ st.code = ""
  BY DEF st
<1>12. ~ob.completed /\ ob.lease = "none" /\ ob.attempts = 0
  BY DEF ob
<1>13. intents'[Len(intents) + 1] = [key |-> key, revision |-> revision,
                                     payload |-> payload, born |-> born]
  BY <1>5, Zenon DEF row
<1> QED
  BY <1>3, <1>5, <1>9, <1>10, <1>11, <1>12, <1>13, Zenon DEF Seqs

\* The selected intent, when there is one, is a row of its table.
LEMMA LatestTyped ==
    ASSUME TypeOK, intents # <<>>
    PROVE  /\ Len(intents) \in Nat \ {0}
           /\ Len(intents) \in Seqs
           /\ Latest.payload \in Payload
           /\ Latest.born \in [Models -> Nat]
           /\ Latest.revision \in Revisions \cup {"derived"}
<1>1. intents \in Seq(Intent)
  BY DEF TypeOK
<1>2. Len(intents) \in Nat \ {0}
  BY <1>1, EmptySeq
<1>3. Latest \in Intent
  BY <1>1, <1>2, ElementOfSeq DEF Latest
<1> QED
  BY <1>2, <1>3 DEF Intent, Seqs

\* A capture from the catalog and the draft rules is a payload.
LEMMA CapturedTyped ==
    ASSUME TypeOK, NEW include \in BOOLEAN
    PROVE  Captured(include) \in Payload
<1>1. DOMAIN catalog \in SUBSET Models /\ catalog \in [DOMAIN catalog -> Route]
  BY TableElim DEF TypeOK
<1>2. DerivedRoutes \in Table(Models, Route)
  <2> DEFINE D == {x \in DOMAIN catalog : catalog[x].def \notin Unpublishable}
  <2>1. D \in SUBSET Models
    BY <1>1
  <2>2. DerivedRoutes \in [D -> Route]
    BY <1>1 DEF DerivedRoutes
  <2> QED
    BY <2>1, <2>2, TableIntro
<1>3. DraftLimits \in Table(Limits, Rule)
  <2>1. DOMAIN limits \in SUBSET Limits /\ limits \in [DOMAIN limits -> RuleRow]
    BY TableElim DEF TypeOK
  <2>2. DraftLimits \in [DOMAIN limits -> Rule]
    BY <2>1 DEF DraftLimits, Rule, RuleRow
  <2> QED
    BY <2>1, <2>2, TableIntro
<1>4. intents # <<>> => Latest.payload \in Payload
  BY LatestTyped
<1>5. EmptyTable \in Table(Limits, Rule)
  BY EmptyIsTable
<1> QED
  BY <1>2, <1>3, <1>4, <1>5 DEF Captured, Payload

\* So is the replacement that invalidation computes.
LEMMA InvalidatedTyped ==
    ASSUME TypeOK, NEW p \in Payload,
           \A l \in DOMAIN p.limits : l \in DOMAIN limits
    PROVE  Invalidated(p) \in Payload
<1>1. DOMAIN p.routes \in SUBSET Models /\ p.routes \in [DOMAIN p.routes -> Route]
  BY TableElim DEF Payload
<1>2. DOMAIN p.limits \in SUBSET Limits /\ p.limits \in [DOMAIN p.limits -> Rule]
  BY TableElim DEF Payload
<1>3. DOMAIN limits \in SUBSET Limits /\ limits \in [DOMAIN limits -> RuleRow]
  BY TableElim DEF TypeOK
<1> DEFINE routes == [m \in DOMAIN p.routes |-> IF m \in PresentModels THEN p.routes[m]
                        ELSE [p.routes[m] EXCEPT !.enabled = FALSE]]
           rules  == [l \in DOMAIN p.limits |-> IF SupersededRule(l, p.limits[l])
                        THEN [p.limits[l] EXCEPT !.enabled = FALSE, !.version = limits[l].version]
                        ELSE p.limits[l]]
<1>4. routes \in [DOMAIN p.routes -> Route]
  BY <1>1 DEF Route
<1>5. rules \in [DOMAIN p.limits -> Rule]
  BY <1>2, <1>3 DEF Rule, RuleRow
<1>6. routes \in Table(Models, Route) /\ rules \in Table(Limits, Rule)
  BY <1>1, <1>2, <1>4, <1>5, TableIntro
<1>7. Invalidated(p) = [p EXCEPT !.routes = routes, !.limits = rules]
  BY DEF Invalidated
<1> QED
  BY <1>6, <1>7 DEF Payload

-----------------------------------------------------------------------------
(* Rows rewritten in place. *)

\* A rule that is edited (putGatewayLimit) stays a row.
LEMMA RuleEdited ==
    ASSUME NEW r \in RuleRow, NEW e \in BOOLEAN, NEW t \in Scopes
    PROVE  /\ Edited(r, t, e) \in RuleRow
           /\ Edited(r, t, e).version = r.version + 1
           /\ Edited(r, t, e).retired = r.retired
           /\ Edited(r, t, e).deleted = r.deleted
<1>1. ASSUME NEW v \in Nat
      PROVE  [r EXCEPT !.version = v, !.enabled = e, !.refs = t] \in RuleRow
  BY DEF RuleRow
<1>2. r.version + 1 \in Nat
  BY DEF RuleRow
<1>3. [r EXCEPT !.version = r.version + 1, !.enabled = e, !.refs = t] \in RuleRow
  BY <1>1, <1>2
<1> QED
  BY <1>3 DEF Edited, RuleRow

\* A rule that is soft-deleted (deleteGatewayLimit) stays a row.
LEMMA RuleDeleted ==
    ASSUME NEW r \in RuleRow
    PROVE  /\ SoftDeleted(r) \in RuleRow
           /\ SoftDeleted(r).version = r.version + 1
           /\ SoftDeleted(r).retired = r.retired
           /\ SoftDeleted(r).deleted = TRUE
<1>1. ASSUME NEW v \in Nat
      PROVE  [r EXCEPT !.deleted = TRUE, !.enabled = FALSE, !.version = v] \in RuleRow
  BY DEF RuleRow
<1>2. r.version + 1 \in Nat
  BY DEF RuleRow
<1>3. [r EXCEPT !.deleted = TRUE, !.enabled = FALSE, !.version = r.version + 1] \in RuleRow
  BY <1>1, <1>2
<1> QED
  BY <1>3 DEF SoftDeleted, RuleRow

\* A rule that the deletion trigger retires stays a row.
LEMMA RuleRetired ==
    ASSUME NEW r \in RuleRow
    PROVE  /\ Retired(r) \in RuleRow
           /\ Retired(r).version = r.version + 1
           /\ Retired(r).deleted = TRUE
<1>1. ASSUME NEW v \in Nat
      PROVE  [r EXCEPT !.deleted = TRUE, !.retired = TRUE, !.enabled = FALSE,
                       !.version = v] \in RuleRow
  BY DEF RuleRow
<1>2. r.version + 1 \in Nat
  BY DEF RuleRow
<1>3. [r EXCEPT !.deleted = TRUE, !.retired = TRUE, !.enabled = FALSE,
                !.version = r.version + 1] \in RuleRow
  BY <1>1, <1>2
<1> QED
  BY <1>3 DEF Retired, RuleRow

\* An outbox row that is claimed, closed, acknowledged or passed by time stays a
\* row (claim, Finish, lease_until and next_attempt_at).
LEMMA OutboxRowTyped ==
    ASSUME NEW r \in OutboxRow, NEW o
    PROVE  /\ ClaimedRow(r) \in OutboxRow
           /\ FinishedRow(r, o) \in OutboxRow
           /\ [r EXCEPT !.completed = TRUE, !.lease = "none"] \in OutboxRow
           /\ [r EXCEPT !.lease = "expired"] \in OutboxRow
           /\ [r EXCEPT !.due = TRUE] \in OutboxRow
<1>1. ClaimedRow(r) \in OutboxRow
  <2>1. ASSUME NEW v \in Nat
        PROVE  [r EXCEPT !.attempts = v, !.lease = "live"] \in OutboxRow
    BY DEF OutboxRow
  <2>2. r.attempts + 1 \in Nat
    BY DEF OutboxRow
  <2>3. [r EXCEPT !.attempts = r.attempts + 1, !.lease = "live"] \in OutboxRow
    BY <2>1, <2>2
  <2> QED
    BY <2>3 DEF ClaimedRow
<1>2. FinishedRow(r, o) \in OutboxRow
  <2>1. ASSUME NEW b \in BOOLEAN
        PROVE  [r EXCEPT !.lease = "none", !.due = b, !.completed = b] \in OutboxRow
    BY DEF OutboxRow
  <2> QED
    BY <2>1 DEF FinishedRow
<1>3. [r EXCEPT !.completed = TRUE, !.lease = "none"] \in OutboxRow
  BY DEF OutboxRow
<1>4. [r EXCEPT !.lease = "expired"] \in OutboxRow
  BY DEF OutboxRow
<1>5. [r EXCEPT !.due = TRUE] \in OutboxRow
  BY DEF OutboxRow
<1> QED
  BY <1>1, <1>2, <1>3, <1>4, <1>5

-----------------------------------------------------------------------------
(* Every action keeps the types. *)

\* The empty tables of a new deployment are well typed.
LEMMA TypeInit == Init => TypeOK
<1> SUFFICES ASSUME Init PROVE TypeOK
  OBVIOUS
<1>1. catalog \in Table(Models, Route) /\ limits \in Table(Limits, RuleRow)
  BY EmptyIsTable DEF Init
<1>2. intents \in Seq(Intent) /\ Len(intents) = 0
  BY EmptySeq DEF Init
<1>3. Seqs = {}
  BY <1>2 DEF Seqs
<1>4. status \in [Seqs -> Status] /\ outbox \in [Seqs -> OutboxRow]
  <2>1. status = <<>> /\ outbox = <<>>
    BY DEF Init
  <2>2. <<>> \in Seq(Status) /\ <<>> \in Seq(OutboxRow) /\ Len(<<>>) = 0
    BY EmptySeq
  <2> QED
    BY <1>3, <2>1, <2>2
<1> QED
  BY <1>1, <1>2, <1>4 DEF Init, TypeOK, NoClaim, Claim

\* invalidate_gateway_reference rewrites rows in place.
LEMMA RetireTyped ==
    ASSUME TypeOK, NEW t, Retire(t)
    PROVE  /\ limits' \in Table(Limits, RuleRow)
           /\ DOMAIN limits' = DOMAIN limits
<1>1. DOMAIN limits \in SUBSET Limits /\ limits \in [DOMAIN limits -> RuleRow]
  BY TableElim DEF TypeOK
<1>2. ASSUME NEW l \in DOMAIN limits
      PROVE  limits'[l] \in RuleRow
  <2>1. limits[l] \in RuleRow
    BY <1>1
  <2>2. Retired(limits[l]) \in RuleRow
    BY <2>1, RuleRetired
  <2> QED
    BY <2>1, <2>2 DEF Retire
<1>3. limits' \in [DOMAIN limits -> RuleRow]
  BY <1>2 DEF Retire
<1> QED
  BY <1>1, <1>3, TableIntro

\* Every handler, relay transaction and passage of time keeps the types.
LEMMA TypeStep ==
    ASSUME TypeOK, RulesTracked, [Next]_ledgerVars
    PROVE  TypeOK'
<1> USE LedgerAssumption
<1>1. ASSUME NEW m \in Models, NEW d \in Defs, NEW e \in Switches, PutModel(m, d, e)
      PROVE  TypeOK'
  <2>1. [def |-> d, enabled |-> e] \in Route
    BY DEF Route
  <2>2. catalog' \in Table(Models, Route)
    BY <1>1, <2>1, UpsertTable DEF PutModel, TypeOK
  <2> QED
    BY <1>1, <2>2 DEF PutModel, TypeOK, Seqs
<1>2. ASSUME NEW m \in Models, DeleteModel(m)
      PROVE  TypeOK'
  <2>1. DOMAIN catalog \in SUBSET Models /\ catalog \in [DOMAIN catalog -> Route]
    BY TableElim DEF TypeOK
  <2>2. catalog' \in [DOMAIN catalog \ {m} -> Route] /\ DOMAIN catalog \ {m} \in SUBSET Models
    BY <1>2, <2>1 DEF DeleteModel
  <2>3. catalog' \in Table(Models, Route)
    BY <2>2, TableIntro
  <2>4. limits' \in Table(Limits, RuleRow)
    BY <1>2, RetireTyped DEF DeleteModel
  <2>5. epoch' \in [Models -> Nat] /\ removals' \in [Models -> Nat]
    BY <1>2 DEF DeleteModel, RecordRemoval, TypeOK
  <2>6. signal' \in [version : Nat, acknowledged : Nat]
    <3>1. signal \in [version : Nat, acknowledged : Nat] /\ Raise
      BY <1>2 DEF DeleteModel, TypeOK
    <3> QED
      BY <3>1 DEF Raise
  <2> QED
    BY <1>2, <2>3, <2>4, <2>5, <2>6 DEF DeleteModel, TypeOK, Seqs
<1>3. ASSUME NEW l \in Limits, NEW t \in Scopes, NEW e \in Switches, PutLimit(l, t, e)
      PROVE  TypeOK'
  <2>1. CASE l \in DOMAIN limits
    <3>1. DOMAIN limits \in SUBSET Limits /\ limits \in [DOMAIN limits -> RuleRow]
      BY TableElim DEF TypeOK
    <3>2. limits' \in [DOMAIN limits -> RuleRow]
      <4>1. Edited(limits[l], t, e) \in RuleRow
        BY <2>1, <3>1, RuleEdited
      <4> QED
        BY <1>3, <2>1, <3>1, <4>1 DEF PutLimit
    <3>3. limits' \in Table(Limits, RuleRow)
      BY <3>1, <3>2, TableIntro
    <3> QED
      BY <1>3, <3>3 DEF PutLimit, TypeOK, Seqs
  <2>2. CASE l \notin DOMAIN limits
    <3> DEFINE row == [version |-> 1, enabled |-> e, refs |-> t, deleted |-> FALSE, retired |-> FALSE]
    <3>1. row \in RuleRow
      BY DEF RuleRow
    <3>2. limits' = Upsert(limits, l, row)
      BY <1>3, <2>2 DEF PutLimit
    <3> HIDE DEF row
    <3>3. limits' \in Table(Limits, RuleRow)
      BY <3>1, <3>2, UpsertTable DEF TypeOK
    <3> QED
      BY <1>3, <3>3 DEF PutLimit, TypeOK, Seqs
  <2> QED
    BY <2>1, <2>2
<1>4. ASSUME NEW l \in Limits, DeleteLimit(l)
      PROVE  TypeOK'
  <2>1. DOMAIN limits \in SUBSET Limits /\ limits \in [DOMAIN limits -> RuleRow]
    BY TableElim DEF TypeOK
  <2>2. limits' \in [DOMAIN limits -> RuleRow]
    <3>1. SoftDeleted(limits[l]) \in RuleRow
      BY <1>4, <2>1, RuleDeleted DEF DeleteLimit
    <3> QED
      BY <1>4, <2>1, <3>1 DEF DeleteLimit
  <2>3. limits' \in Table(Limits, RuleRow)
    BY <2>1, <2>2, TableIntro
  <2> QED
    BY <1>4, <2>3 DEF DeleteLimit, TypeOK, Seqs
<1>5. ASSUME NEW u \in Subjects, DeleteSubject(u)
      PROVE  TypeOK'
  <2>1. limits' \in Table(Limits, RuleRow)
    BY <1>5, RetireTyped DEF DeleteSubject
  <2>2. signal' \in [version : Nat, acknowledged : Nat]
    BY <1>5 DEF DeleteSubject, Raise, TypeOK
  <2> QED
    BY <1>5, <2>1, <2>2 DEF DeleteSubject, TypeOK, Seqs
<1>6. ASSUME NEW u \in Subjects, CreateSubject(u)
      PROVE  TypeOK'
  BY <1>6 DEF CreateSubject, TypeOK, Seqs
<1>7. ASSUME NEW key \in Keys \cup {"system"}, NEW revision \in Revisions \cup {"derived"},
             NEW payload \in Payload, NEW born \in [Models -> Nat],
             InsertPublication(key, revision, payload, born),
             signal' \in [version : Nat, acknowledged : Nat],
             UNCHANGED <<catalog, epoch, subjects, limits, removals, claim>>
      PROVE  TypeOK'
  <2>1. /\ intents' \in Seq(Intent)
        /\ Len(intents') = Len(intents) + 1
        /\ status' \in [1 .. Len(intents) + 1 -> Status]
        /\ outbox' \in [1 .. Len(intents) + 1 -> OutboxRow]
    BY <1>7, InsertTyped
  <2> QED
    BY <1>7, <2>1 DEF TypeOK, Seqs
<1>8. ASSUME NEW k \in Keys, NEW r \in Revisions \cup {"derived"}, NEW b \in Inclusions,
             QueueGatewayPublication(k, r, b)
      PROVE  TypeOK'
  <2>1. Captured(b) \in Payload
    BY CapturedTyped
  <2>2. epoch \in [Models -> Nat] /\ signal \in [version : Nat, acknowledged : Nat]
    BY DEF TypeOK
  <2> QED
    BY <1>7, <1>8, <2>1, <2>2 DEF QueueGatewayPublication
<1>9. ASSUME NEW k \in Keys, NEW i \in Seqs, ReplayDataPlanePublication(k, i)
      PROVE  TypeOK'
  <2>1. intents[i] \in Intent
    BY ElementOfSeq DEF TypeOK, Seqs
  <2>2. /\ intents[i].payload \in Payload
        /\ intents[i].born \in [Models -> Nat]
        /\ intents[i].revision \in Revisions \cup {"derived"}
    BY <2>1 DEF Intent
  <2>3. signal \in [version : Nat, acknowledged : Nat]
    BY DEF TypeOK
  <2> QED
    BY <1>7, <1>9, <2>2, <2>3 DEF ReplayDataPlanePublication
<1>10. ASSUME QueueReferenceInvalidations
       PROVE  TypeOK'
  <2>1. signal' \in [version : Nat, acknowledged : Nat]
    BY <1>10 DEF QueueReferenceInvalidations, TypeOK
  <2>2. CASE intents # <<>> /\ Invalidated(Latest.payload) # Latest.payload
    <3>1. Latest.payload \in Payload /\ Latest.born \in [Models -> Nat]
      BY <2>2, LatestTyped
    <3>2. Invalidated(Latest.payload) \in Payload
      BY <2>2, <3>1, InvalidatedTyped DEF RulesTracked
    <3> QED
      BY <1>7, <1>10, <2>1, <2>2, <3>1, <3>2 DEF QueueReferenceInvalidations
  <2>3. CASE ~(intents # <<>> /\ Invalidated(Latest.payload) # Latest.payload)
    BY <1>10, <2>1, <2>3 DEF QueueReferenceInvalidations, TypeOK, Seqs
  <2> QED
    BY <2>2, <2>3
<1>11. ASSUME NEW w \in Workers, ClaimDataPlanePublication(w)
       PROVE  TypeOK'
  <2>1. Len(intents) \in Seqs
    BY <1>11, LatestTyped DEF ClaimDataPlanePublication
  <2>2. outbox \in [Seqs -> OutboxRow] /\ status \in [Seqs -> Status]
    BY DEF TypeOK
  <2>3. status' \in [Seqs -> Status]
    BY <1>11, <2>2 DEF ClaimDataPlanePublication, Status, Phases, Codes
  <2>4. outbox' \in [Seqs -> OutboxRow]
    <3>1. ASSUME NEW i \in Seqs
          PROVE  /\ ClaimedRow(outbox[i]) \in OutboxRow
                 /\ OutboxClosed(i) \in OutboxRow
      BY <2>2, OutboxRowTyped DEF OutboxClosed
    <3> QED
      BY <1>11, <2>2, <3>1 DEF ClaimDataPlanePublication
  <2>5. claim' \in [Workers -> Claim]
    <3>1. NoClaim \in Claim
      BY DEF NoClaim, Claim
    <3>2. [seq |-> Len(intents), token |-> outbox[Len(intents)].attempts + 1] \in Claim
      BY <2>1, <2>2 DEF Claim, OutboxRow, Seqs
    <3> QED
      BY <1>11, <3>1, <3>2 DEF ClaimDataPlanePublication, TypeOK
  <2> QED
    BY <1>11, <2>3, <2>4, <2>5 DEF ClaimDataPlanePublication, TypeOK, Seqs
<1>12. ASSUME NEW w \in Workers, NEW o \in Outcomes, FinishDataPlanePublication(w, o)
       PROVE  TypeOK'
  <2>1. outbox \in [Seqs -> OutboxRow] /\ status \in [Seqs -> Status]
    BY DEF TypeOK
  <2>2. FinishedStatus(o) \in Status
    BY DEF FinishedStatus, Status, Phases, Codes, Outcomes
  <2>3. status' \in [Seqs -> Status]
    BY <1>12, <2>1, <2>2 DEF FinishDataPlanePublication
  <2>4. outbox' \in [Seqs -> OutboxRow]
    <3>1. ASSUME NEW i \in Seqs
          PROVE  FinishedRow(outbox[i], o) \in OutboxRow
      BY <2>1, OutboxRowTyped
    <3> QED
      BY <1>12, <2>1, <3>1 DEF FinishDataPlanePublication
  <2>5. claim' \in [Workers -> Claim]
    BY <1>12 DEF FinishDataPlanePublication, TypeOK, Claim, NoClaim
  <2> QED
    BY <1>12, <2>3, <2>4, <2>5 DEF FinishDataPlanePublication, TypeOK, Seqs
<1>13. ASSUME NEW w \in Workers, ForgetClaim(w)
       PROVE  TypeOK'
  BY <1>13 DEF ForgetClaim, TypeOK, Seqs, Claim, NoClaim
<1>14. ASSUME NEW i \in Seqs, LeaseExpires(i) \/ RetryDue(i)
       PROVE  TypeOK'
  <2>1. /\ outbox[i] \in OutboxRow
        /\ [outbox[i] EXCEPT !.lease = "expired"] \in OutboxRow
        /\ [outbox[i] EXCEPT !.due = TRUE] \in OutboxRow
    BY OutboxRowTyped DEF TypeOK
  <2>2. outbox' \in [Seqs -> OutboxRow]
    BY <1>14, <2>1 DEF LeaseExpires, RetryDue, TypeOK
  <2> QED
    BY <1>14, <2>2 DEF LeaseExpires, RetryDue, TypeOK, Seqs
<1>15. ASSUME UNCHANGED ledgerVars
       PROVE  TypeOK'
  BY <1>15 DEF ledgerVars, TypeOK, Seqs
<1> QED
  BY <1>1, <1>2, <1>3, <1>4, <1>5, <1>6, <1>8, <1>9, <1>10, <1>11, <1>12, <1>13, <1>14, <1>15
     DEF Next, Administration, Passage

-----------------------------------------------------------------------------
(* Publication rows and outbox rows move together. *)

\* An action that leaves the publication tables alone.
LEMMA OutboxKept ==
    ASSUME OutboxAgrees, UNCHANGED <<intents, status, outbox>>
    PROVE  OutboxAgrees'
BY DEF OutboxAgrees, Seqs

\* insertPublication adds an open, unclaimed row to both tables.
LEMMA OutboxInserted ==
    ASSUME TypeOK, OutboxAgrees,
           NEW key \in Keys \cup {"system"}, NEW revision \in Revisions \cup {"derived"},
           NEW payload \in Payload, NEW born \in [Models -> Nat],
           InsertPublication(key, revision, payload, born)
    PROVE  OutboxAgrees'
<1>1. /\ Len(intents) \in Nat
      /\ Len(intents') = Len(intents) + 1
      /\ \A i \in Seqs : status'[i] = status[i] /\ outbox'[i] = outbox[i]
      /\ status'[Len(intents) + 1].phase = "queued"
      /\ status'[Len(intents) + 1].code = ""
      /\ ~outbox'[Len(intents) + 1].completed
      /\ outbox'[Len(intents) + 1].lease = "none"
  BY InsertTyped
<1> SUFFICES ASSUME NEW i \in Seqs'
             PROVE  /\ outbox'[i].completed <=> status'[i].phase \in Terminal
                    /\ outbox'[i].lease # "none" <=> status'[i].phase = "projecting"
                    /\ status'[i].code # "" <=> status'[i].phase = "failed"
  BY DEF OutboxAgrees
<1>4. CASE i \in Seqs
  <2>1. status'[i] = status[i] /\ outbox'[i] = outbox[i]
    BY <1>1, <1>4
  <2> QED
    BY <1>4, <2>1, Zenon DEF OutboxAgrees
<1>5. CASE i = Len(intents) + 1
  BY <1>1, <1>5 DEF Terminal
<1>6. i \in Seqs \/ i = Len(intents) + 1
  <2>1. i \in 1 .. Len(intents')
    BY DEF Seqs
  <2>2. Len(intents) \in Nat /\ Len(intents') = Len(intents) + 1
    BY <1>1
  <2> QED
    BY <2>1, <2>2 DEF Seqs
<1> QED
  BY <1>4, <1>5, <1>6, Zenon

\* Every transaction changes a publication row and its outbox row together.
LEMMA OutboxStep ==
    ASSUME TypeOK, RulesTracked, OutboxAgrees, [Next]_ledgerVars
    PROVE  OutboxAgrees'
<1> USE LedgerAssumption
<1>1. ASSUME UNCHANGED <<intents, status, outbox>> PROVE OutboxAgrees'
  BY <1>1, OutboxKept
<1>2. ASSUME NEW k \in Keys, NEW r \in Revisions \cup {"derived"}, NEW b \in Inclusions,
             QueueGatewayPublication(k, r, b)
      PROVE  OutboxAgrees'
  <2>1. Captured(b) \in Payload /\ epoch \in [Models -> Nat]
    BY CapturedTyped DEF TypeOK
  <2> QED
    BY <1>2, <2>1, OutboxInserted DEF QueueGatewayPublication
<1>3. ASSUME NEW k \in Keys, NEW i \in Seqs, ReplayDataPlanePublication(k, i)
      PROVE  OutboxAgrees'
  <2>1. intents[i] \in Intent
    BY ElementOfSeq DEF TypeOK, Seqs
  <2>2. /\ intents[i].payload \in Payload
        /\ intents[i].born \in [Models -> Nat]
        /\ intents[i].revision \in Revisions \cup {"derived"}
    BY <2>1 DEF Intent
  <2> QED
    BY <1>3, <2>2, OutboxInserted DEF ReplayDataPlanePublication
<1>4. ASSUME QueueReferenceInvalidations
      PROVE  OutboxAgrees'
  <2>1. CASE intents # <<>> /\ Invalidated(Latest.payload) # Latest.payload
    <3>1. Latest.payload \in Payload /\ Latest.born \in [Models -> Nat]
      BY <2>1, LatestTyped
    <3>2. Invalidated(Latest.payload) \in Payload
      BY <2>1, <3>1, InvalidatedTyped DEF RulesTracked
    <3> QED
      BY <1>4, <2>1, <3>1, <3>2, OutboxInserted DEF QueueReferenceInvalidations
  <2>2. CASE ~(intents # <<>> /\ Invalidated(Latest.payload) # Latest.payload)
    BY <1>1, <1>4, <2>2 DEF QueueReferenceInvalidations
  <2> QED
    BY <2>1, <2>2
<1>5. ASSUME NEW w \in Workers, ClaimDataPlanePublication(w)
      PROVE  OutboxAgrees'
  <2>1. Len(intents) \in Seqs /\ Seqs' = Seqs
    BY <1>5, LatestTyped DEF ClaimDataPlanePublication, Seqs
  <2>2. outbox \in [Seqs -> OutboxRow] /\ status \in [Seqs -> Status]
    BY DEF TypeOK
  <2> SUFFICES ASSUME NEW i \in Seqs
               PROVE  /\ outbox'[i].completed <=> status'[i].phase \in Terminal
                      /\ outbox'[i].lease # "none" <=> status'[i].phase = "projecting"
                      /\ status'[i].code # "" <=> status'[i].phase = "failed"
    BY <2>1 DEF OutboxAgrees
  <2>3. CASE Superseding(i)
    <3> DEFINE st == [phase |-> "superseded", code |-> ""]
    <3>1. outbox'[i] = OutboxClosed(i) /\ status'[i] = st
      BY <1>5, <2>3 DEF ClaimDataPlanePublication
    <3>2. OutboxClosed(i).completed = TRUE /\ OutboxClosed(i).lease = "none"
      BY <2>2 DEF OutboxClosed, OutboxRow
    <3>3. st.phase = "superseded" /\ st.code = ""
      OBVIOUS
    <3> HIDE DEF st
    <3>4. outbox'[i].completed /\ outbox'[i].lease = "none"
      BY <3>1, <3>2, Zenon
    <3>5. status'[i].phase = "superseded" /\ status'[i].code = ""
      BY <3>1, <3>3, Zenon
    <3> QED
      BY <3>4, <3>5, Zenon DEF Terminal
  <2>4. CASE ~Superseding(i) /\ outbox'[i] = outbox[i] /\ status'[i] = status[i]
    BY <2>4, Zenon DEF OutboxAgrees
  <2> DEFINE st == [phase |-> "projecting", code |-> ""]
  <2>5. CASE Claimable(i) /\ outbox'[i] = ClaimedRow(outbox[i]) /\ status'[i] = st
    <3>1. ~outbox[i].completed
      BY <2>5 DEF Claimable
    <3>2. ClaimedRow(outbox[i]).lease = "live" /\ ClaimedRow(outbox[i]).completed = outbox[i].completed
      BY <2>2 DEF ClaimedRow, OutboxRow
    <3>3. st.phase = "projecting" /\ st.code = ""
      OBVIOUS
    <3> HIDE DEF st
    <3>4. ~outbox'[i].completed /\ outbox'[i].lease = "live"
      BY <2>5, <3>1, <3>2, Zenon
    <3>5. status'[i].phase = "projecting" /\ status'[i].code = ""
      BY <2>5, <3>3, Zenon
    <3> QED
      BY <3>4, <3>5, Zenon DEF Terminal
  <2> QED
    BY <1>5, <2>1, <2>3, <2>4, <2>5 DEF ClaimDataPlanePublication
<1>6. ASSUME NEW w \in Workers, NEW o \in Outcomes, FinishDataPlanePublication(w, o)
      PROVE  OutboxAgrees'
  <2>1. CASE OwnsLatest(w)
    <3>1. Seqs' = Seqs /\ claim[w].seq = Len(intents)
      BY <1>6, <2>1 DEF FinishDataPlanePublication, Seqs, OwnsLatest
    <3>2. outbox \in [Seqs -> OutboxRow] /\ status \in [Seqs -> Status]
      BY DEF TypeOK
    <3> SUFFICES ASSUME NEW i \in Seqs
                 PROVE  /\ outbox'[i].completed <=> status'[i].phase \in Terminal
                        /\ outbox'[i].lease # "none" <=> status'[i].phase = "projecting"
                        /\ status'[i].code # "" <=> status'[i].phase = "failed"
      BY <3>1 DEF OutboxAgrees
    <3>3. CASE i # claim[w].seq
      BY <1>6, <2>1, <3>2, <3>3 DEF FinishDataPlanePublication, OutboxAgrees
    <3>4. CASE i = claim[w].seq
      <4>1. outbox'[i] = FinishedRow(outbox[i], o) /\ status'[i] = FinishedStatus(o)
        BY <1>6, <2>1, <3>2, <3>4 DEF FinishDataPlanePublication
      <4>2. /\ FinishedRow(outbox[i], o).lease = "none"
            /\ FinishedRow(outbox[i], o).completed <=> o # "retry"
        BY <3>2 DEF FinishedRow, OutboxRow
      <4>3. /\ FinishedStatus(o).phase \in Terminal <=> o # "retry"
            /\ FinishedStatus(o).phase # "projecting"
            /\ FinishedStatus(o).code # "" <=> FinishedStatus(o).phase = "failed"
        BY DEF FinishedStatus, Outcomes, Terminal
      <4> QED
        BY <4>1, <4>2, <4>3
    <3> QED
      BY <3>3, <3>4
  <2>2. CASE ~OwnsLatest(w)
    BY <1>1, <1>6, <2>2 DEF FinishDataPlanePublication
  <2> QED
    BY <2>1, <2>2
<1>7. ASSUME NEW n \in Seqs, LeaseExpires(n) \/ RetryDue(n)
      PROVE  OutboxAgrees'
  <2>1. Seqs' = Seqs /\ status' = status
    BY <1>7 DEF LeaseExpires, RetryDue, Seqs
  <2>2. outbox \in [Seqs -> OutboxRow]
    BY DEF TypeOK
  <2>3. ASSUME NEW i \in Seqs
        PROVE  /\ outbox'[i].completed = outbox[i].completed
               /\ outbox'[i].lease # "none" <=> outbox[i].lease # "none"
    BY <1>7, <2>2 DEF LeaseExpires, RetryDue, OutboxRow
  <2> QED
    BY <2>1, <2>3 DEF OutboxAgrees
<1>8. CASE UNCHANGED ledgerVars
  BY <1>1, <1>8 DEF ledgerVars
<1>9. CASE Administration
  BY <1>1, <1>2, <1>3, <1>9
     DEF Administration, PutModel, DeleteModel, PutLimit, DeleteLimit, DeleteSubject, CreateSubject
<1>10. ASSUME NEW w \in Workers, ForgetClaim(w) PROVE OutboxAgrees'
  BY <1>1, <1>10 DEF ForgetClaim
<1> QED
  BY <1>4, <1>5, <1>6, <1>7, <1>8, <1>9, <1>10 DEF Next, Passage

-----------------------------------------------------------------------------
(* No two workers remember the same claim. *)

\* Dropping claims, inserting publications and counting no attempt keeps the
\* remembered claims real and distinct.
LEMMA ClaimsKept ==
    ASSUME ClaimsDistinct,
           \A w \in Workers : claim'[w] = claim[w] \/ claim'[w] = NoClaim,
           \A i \in Seqs : i \in Seqs' /\ outbox'[i].attempts = outbox[i].attempts
    PROVE  ClaimsDistinct'
<1>1. ASSUME NEW w \in Workers, claim'[w] # NoClaim
      PROVE  /\ claim'[w].seq \in Seqs'
             /\ claim'[w].token \in 1 .. outbox'[claim'[w].seq].attempts
  <2>1. claim'[w] = claim[w] /\ claim[w] # NoClaim
    BY <1>1
  <2>2. claim[w].seq \in Seqs /\ claim[w].token \in 1 .. outbox[claim[w].seq].attempts
    BY <2>1 DEF ClaimsDistinct
  <2>3. claim[w].seq \in Seqs' /\ outbox'[claim[w].seq].attempts = outbox[claim[w].seq].attempts
    BY <2>2
  <2> QED
    BY <2>1, <2>2, <2>3
<1>2. ASSUME NEW v \in Workers, NEW w \in Workers, claim'[v] = claim'[w], claim'[v] # NoClaim
      PROVE  v = w
  <2>1. claim'[v] = claim[v] /\ claim'[w] = claim[w] /\ claim[v] # NoClaim
    BY <1>2
  <2> QED
    BY <1>2, <2>1 DEF ClaimsDistinct
<1> QED
  BY <1>1, <1>2 DEF ClaimsDistinct

\* insertPublication leaves the claims and the attempts alone.
LEMMA ClaimsInserted ==
    ASSUME TypeOK, ClaimsDistinct,
           NEW key \in Keys \cup {"system"}, NEW revision \in Revisions \cup {"derived"},
           NEW payload \in Payload, NEW born \in [Models -> Nat],
           InsertPublication(key, revision, payload, born), UNCHANGED claim
    PROVE  ClaimsDistinct'
<1>1. /\ Len(intents) \in Nat
      /\ Len(intents') = Len(intents) + 1
      /\ \A i \in Seqs : outbox'[i] = outbox[i]
  BY InsertTyped
<1>2. \A i \in Seqs : i \in Seqs' /\ outbox'[i].attempts = outbox[i].attempts
  BY <1>1 DEF Seqs
<1> QED
  BY <1>2, ClaimsKept

\* A claim hands out a token nobody holds; nothing else gives a worker a claim.
LEMMA ClaimsStep ==
    ASSUME TypeOK, RulesTracked, ClaimsDistinct, [Next]_ledgerVars
    PROVE  ClaimsDistinct'
<1> USE LedgerAssumption
<1>1. ASSUME UNCHANGED <<intents, outbox, claim>> PROVE ClaimsDistinct'
  BY <1>1, ClaimsKept DEF Seqs
<1>2. ASSUME NEW k \in Keys, NEW r \in Revisions \cup {"derived"}, NEW b \in Inclusions,
             QueueGatewayPublication(k, r, b)
      PROVE  ClaimsDistinct'
  <2>1. Captured(b) \in Payload /\ epoch \in [Models -> Nat]
    BY CapturedTyped DEF TypeOK
  <2> QED
    BY <1>2, <2>1, ClaimsInserted DEF QueueGatewayPublication
<1>3. ASSUME NEW k \in Keys, NEW i \in Seqs, ReplayDataPlanePublication(k, i)
      PROVE  ClaimsDistinct'
  <2>1. intents[i] \in Intent
    BY ElementOfSeq DEF TypeOK, Seqs
  <2>2. /\ intents[i].payload \in Payload
        /\ intents[i].born \in [Models -> Nat]
        /\ intents[i].revision \in Revisions \cup {"derived"}
    BY <2>1 DEF Intent
  <2> QED
    BY <1>3, <2>2, ClaimsInserted DEF ReplayDataPlanePublication
<1>4. ASSUME QueueReferenceInvalidations
      PROVE  ClaimsDistinct'
  <2>1. CASE intents # <<>> /\ Invalidated(Latest.payload) # Latest.payload
    <3>1. Latest.payload \in Payload /\ Latest.born \in [Models -> Nat]
      BY <2>1, LatestTyped
    <3>2. Invalidated(Latest.payload) \in Payload
      BY <2>1, <3>1, InvalidatedTyped DEF RulesTracked
    <3> QED
      BY <1>4, <2>1, <3>1, <3>2, ClaimsInserted DEF QueueReferenceInvalidations
  <2>2. CASE ~(intents # <<>> /\ Invalidated(Latest.payload) # Latest.payload)
    BY <1>1, <1>4, <2>2 DEF QueueReferenceInvalidations
  <2> QED
    BY <2>1, <2>2
<1>5. ASSUME NEW w \in Workers, ClaimDataPlanePublication(w)
      PROVE  ClaimsDistinct'
  <2> DEFINE n == Len(intents)
             new == [seq |-> n, token |-> outbox[n].attempts + 1]
             taken == status[n].phase \in {"queued", "projecting"} /\ Claimable(n)
  <2>1. n \in Seqs /\ Seqs' = Seqs
    BY <1>5, LatestTyped DEF ClaimDataPlanePublication, Seqs
  <2>2. outbox \in [Seqs -> OutboxRow] /\ claim \in [Workers -> Claim]
    BY DEF TypeOK
  <2>3. claim' = [claim EXCEPT ![w] = IF taken THEN new ELSE NoClaim]
    BY <1>5, Zenon DEF ClaimDataPlanePublication
  <2>4. ASSUME NEW i \in Seqs
        PROVE  IF taken /\ i = n THEN outbox'[i].attempts = outbox[i].attempts + 1
               ELSE outbox'[i].attempts = outbox[i].attempts
    <3>1. outbox'[i] = IF Superseding(i) THEN OutboxClosed(i)
                       ELSE IF i = n /\ taken THEN ClaimedRow(outbox[i]) ELSE outbox[i]
      BY <1>5 DEF ClaimDataPlanePublication
    <3>2. /\ OutboxClosed(i).attempts = outbox[i].attempts
          /\ ClaimedRow(outbox[i]).attempts = outbox[i].attempts + 1
      BY <2>2 DEF OutboxClosed, ClaimedRow, OutboxRow
    <3>3. Superseding(i) => i # n
      BY <2>1 DEF Superseding, Seqs
    <3> HIDE DEF taken
    <3> QED
      BY <3>1, <3>2, <3>3
  <2> HIDE DEF taken
  <2>5. CASE ~taken
    <3>1. \A v \in Workers : claim'[v] = claim[v] \/ claim'[v] = NoClaim
      BY <2>2, <2>3, <2>5
    <3>2. \A i \in Seqs : i \in Seqs' /\ outbox'[i].attempts = outbox[i].attempts
      BY <2>1, <2>4, <2>5
    <3> QED
      BY <3>1, <3>2, ClaimsKept
  <2>6. CASE taken
    <3>1. \A v \in Workers : claim'[v] = IF v = w THEN new ELSE claim[v]
      BY <2>2, <2>3, <2>6
    <3>2. outbox[n].attempts \in Nat /\ new.seq = n /\ new.token = outbox[n].attempts + 1
      BY <2>1, <2>2 DEF OutboxRow
    <3> HIDE DEF new
    <3>3. ASSUME NEW v \in Workers, v # w, claim[v] # NoClaim
          PROVE  /\ claim[v].seq \in Seqs
                 /\ claim[v].token \in 1 .. outbox'[claim[v].seq].attempts
                 /\ claim[v] # new
      <4>1. claim[v].seq \in Seqs /\ claim[v].token \in 1 .. outbox[claim[v].seq].attempts
        BY <3>3 DEF ClaimsDistinct
      <4>2. outbox[claim[v].seq].attempts \in Nat
        BY <2>2, <4>1 DEF OutboxRow
      <4>3. \/ outbox'[claim[v].seq].attempts = outbox[claim[v].seq].attempts
            \/ outbox'[claim[v].seq].attempts = outbox[claim[v].seq].attempts + 1
        BY <2>4, <4>1
      <4> QED
        BY <3>2, <4>1, <4>2, <4>3
    <3>4. new.seq \in Seqs /\ new.token \in 1 .. outbox'[new.seq].attempts
      BY <2>1, <2>4, <2>6, <3>2
    <3>5. ASSUME NEW v \in Workers, claim'[v] # NoClaim
          PROVE  claim'[v].seq \in Seqs' /\ claim'[v].token \in 1 .. outbox'[claim'[v].seq].attempts
      BY <2>1, <3>1, <3>3, <3>4, <3>5
    <3>6. ASSUME NEW u \in Workers, NEW v \in Workers, claim'[u] = claim'[v], claim'[u] # NoClaim
          PROVE  u = v
      BY <3>1, <3>3, <3>6 DEF ClaimsDistinct
    <3> QED
      BY <3>5, <3>6 DEF ClaimsDistinct
  <2> QED
    BY <2>5, <2>6
<1>6. ASSUME NEW w \in Workers, NEW o \in Outcomes, FinishDataPlanePublication(w, o)
      PROVE  ClaimsDistinct'
  <2>1. outbox \in [Seqs -> OutboxRow] /\ claim \in [Workers -> Claim]
    BY DEF TypeOK
  <2>2. \A v \in Workers : claim'[v] = claim[v] \/ claim'[v] = NoClaim
    BY <1>6, <2>1 DEF FinishDataPlanePublication
  <2>3. ASSUME NEW i \in Seqs
        PROVE  i \in Seqs' /\ outbox'[i].attempts = outbox[i].attempts
    <3>1. FinishedRow(outbox[i], o).attempts = outbox[i].attempts
      BY <2>1 DEF FinishedRow, OutboxRow
    <3>2. outbox'[i] = outbox[i] \/ outbox'[i] = FinishedRow(outbox[i], o)
      BY <1>6, <2>1 DEF FinishDataPlanePublication
    <3> QED
      BY <1>6, <3>1, <3>2 DEF FinishDataPlanePublication, Seqs
  <2> QED
    BY <2>2, <2>3, ClaimsKept
<1>7. ASSUME NEW n \in Seqs, LeaseExpires(n) \/ RetryDue(n)
      PROVE  ClaimsDistinct'
  <2>1. outbox \in [Seqs -> OutboxRow]
    BY DEF TypeOK
  <2>2. ASSUME NEW i \in Seqs
        PROVE  i \in Seqs' /\ outbox'[i].attempts = outbox[i].attempts
    <3>1. UNCHANGED intents
      BY <1>7 DEF LeaseExpires, RetryDue
    <3>2. CASE LeaseExpires(n)
      BY <2>1, <3>1, <3>2 DEF LeaseExpires, OutboxRow, Seqs
    <3>3. CASE RetryDue(n)
      BY <2>1, <3>1, <3>3 DEF RetryDue, OutboxRow, Seqs
    <3> QED
      BY <1>7, <3>2, <3>3
  <2>3. UNCHANGED claim
    BY <1>7 DEF LeaseExpires, RetryDue
  <2> QED
    BY <2>2, <2>3, ClaimsKept
<1>8. CASE UNCHANGED ledgerVars
  BY <1>1, <1>8 DEF ledgerVars
<1>9. CASE Administration
  BY <1>1, <1>2, <1>3, <1>9
     DEF Administration, PutModel, DeleteModel, PutLimit, DeleteLimit, DeleteSubject, CreateSubject
<1>10. ASSUME NEW w \in Workers, ForgetClaim(w) PROVE ClaimsDistinct'
  <2>1. \A v \in Workers : claim'[v] = claim[v] \/ claim'[v] = NoClaim
    BY <1>10 DEF ForgetClaim, TypeOK
  <2> QED
    BY <1>10, <2>1, ClaimsKept DEF ForgetClaim, Seqs
<1> QED
  BY <1>4, <1>5, <1>6, <1>7, <1>8, <1>9, <1>10 DEF Next, Passage

-----------------------------------------------------------------------------
(* Withdrawals: the signal, the removals and the retired rules keep track of *)
(* what the selected intent still enables.                                   *)

\* insertPublication selects the new publication.
LEMMA InsertSelects ==
    ASSUME TypeOK,
           NEW key \in Keys \cup {"system"}, NEW revision \in Revisions \cup {"derived"},
           NEW payload \in Payload, NEW born \in [Models -> Nat],
           InsertPublication(key, revision, payload, born)
    PROVE  Latest'.payload = payload /\ Latest'.born = born
<1>1. /\ Len(intents') = Len(intents) + 1
      /\ intents'[Len(intents) + 1] = [key |-> key, revision |-> revision,
                                       payload |-> payload, born |-> born]
  BY InsertTyped
<1> QED
  BY <1>1 DEF Latest

\* Reference deletions raise the signal, invalidation acknowledges all of it.
LEMMA SignalStep ==
    ASSUME TypeOK, SignalOrdered, [Next]_ledgerVars
    PROVE  SignalOrdered'
<1>1. /\ signal \in [version : Nat, acknowledged : Nat]
      /\ signal.acknowledged <= signal.version
  BY DEF TypeOK, SignalOrdered
<1>2. \/ signal' = signal
      \/ signal' = [signal EXCEPT !.version = @ + 1]
      \/ signal' = [signal EXCEPT !.acknowledged = signal.version]
  BY DEF Next, Administration, Passage, ledgerVars, PutModel, DeleteModel, PutLimit, DeleteLimit,
         DeleteSubject, CreateSubject, QueueGatewayPublication, ReplayDataPlanePublication,
         QueueReferenceInvalidations, ClaimDataPlanePublication, FinishDataPlanePublication,
         ForgetClaim, LeaseExpires, RetryDue, Raise
<1> QED
  BY <1>1, <1>2 DEF SignalOrdered

\* A raised signal is pending, and raising it again keeps it so.
LEMMA RaisedIsPending ==
    ASSUME TypeOK, SignalOrdered, Raise
    PROVE  Pending'
<1>1. /\ signal \in [version : Nat, acknowledged : Nat]
      /\ signal.acknowledged <= signal.version
  BY DEF TypeOK, SignalOrdered
<1> QED
  BY <1>1 DEF Raise, Pending

\* What Invalidated keeps enabled.
LEMMA InvalidatedRoutes ==
    ASSUME TypeOK, NEW p \in Payload, NEW m \in DOMAIN Invalidated(p).routes,
           Invalidated(p).routes[m].enabled
    PROVE  m \in DOMAIN p.routes /\ m \in PresentModels /\ p.routes[m].enabled
<1>1. DOMAIN p.routes \in SUBSET Models /\ p.routes \in [DOMAIN p.routes -> Route]
  BY TableElim DEF Payload
<1> DEFINE routes == [x \in DOMAIN p.routes |-> IF x \in PresentModels THEN p.routes[x]
                        ELSE [p.routes[x] EXCEPT !.enabled = FALSE]]
           rules  == [l \in DOMAIN p.limits |-> IF SupersededRule(l, p.limits[l])
                        THEN [p.limits[l] EXCEPT !.enabled = FALSE, !.version = limits[l].version]
                        ELSE p.limits[l]]
<1>2. Invalidated(p) = [p EXCEPT !.routes = routes, !.limits = rules]
  BY DEF Invalidated
<1>3. Invalidated(p).routes = routes
  <2> HIDE DEF routes, rules
  <2> QED
    BY <1>2 DEF Payload
<1>4. m \in DOMAIN p.routes
  BY <1>3
<1>5. p.routes[m] \in Route
  BY <1>1, <1>4
<1>6. CASE m \notin PresentModels
  <2>1. routes[m] = [p.routes[m] EXCEPT !.enabled = FALSE]
    BY <1>4, <1>6
  <2>2. ~[p.routes[m] EXCEPT !.enabled = FALSE].enabled
    BY <1>5 DEF Route
  <2> HIDE DEF routes
  <2> QED
    BY <1>3, <2>1, <2>2, Zenon
<1>7. CASE m \in PresentModels
  <2>1. routes[m] = p.routes[m]
    BY <1>4, <1>7
  <2> HIDE DEF routes
  <2> QED
    BY <1>3, <1>4, <1>7, <2>1, Zenon
<1> QED
  BY <1>6, <1>7

\* Every transaction leaves the enabled routes of the selected intent accounted
\* for: by the model they were taken from, or by a removal still pending.
LEMMA RoutesStep ==
    ASSUME TypeOK, SignalOrdered, RulesTracked, RoutesTracked, [Next]_ledgerVars
    PROVE  RoutesTracked'
<1> USE LedgerAssumption
<1> DEFINE Fresh(m) == m \in DOMAIN catalog /\ Latest.born[m] = epoch[m]
           Marked(m) == Pending /\ removals[m] = Len(intents)
<1>1. ASSUME UNCHANGED <<epoch, removals, intents>>,
             \A m \in DOMAIN catalog : m \in DOMAIN catalog',
             Pending => Pending'
      PROVE  RoutesTracked'
  <2>1. Latest' = Latest /\ Len(intents') = Len(intents)
    BY <1>1 DEF Latest
  <2> QED
    BY <1>1, <2>1 DEF RoutesTracked
<1>2. ASSUME NEW m \in Models, DeleteModel(m)
      PROVE  RoutesTracked'
  <2>1. intents' = intents /\ Latest' = Latest
    BY <1>2 DEF DeleteModel, Latest
  <2>2. Pending'
    BY <1>2, RaisedIsPending DEF DeleteModel
  <2>3. removals' = [removals EXCEPT ![m] = Len(intents)] /\ epoch' = [epoch EXCEPT ![m] = @ + 1]
    BY <1>2 DEF DeleteModel, RecordRemoval
  <2>4. removals \in [Models -> Nat] /\ epoch \in [Models -> Nat]
    BY DEF TypeOK
  <2>5. \A x \in DOMAIN catalog : x # m => x \in DOMAIN catalog'
    BY <1>2 DEF DeleteModel
  <2> SUFFICES ASSUME intents # <<>>, NEW x \in DOMAIN Latest.payload.routes,
                      Latest.payload.routes[x].enabled
               PROVE  \/ x \in DOMAIN catalog' /\ Latest.born[x] = epoch'[x]
                      \/ Pending' /\ removals'[x] = Len(intents)
    BY <2>1 DEF RoutesTracked
  <2>6. Fresh(x) \/ Marked(x)
    BY DEF RoutesTracked
  <2>7. x \in Models
    BY LatestTyped, TableElim DEF Payload
  <2>8. x # m => removals'[x] = removals[x] /\ epoch'[x] = epoch[x]
    BY <2>3, <2>4, <2>7
  <2>9. x = m => removals'[x] = Len(intents)
    BY <2>3, <2>4, <2>7
  <2> QED
    BY <2>2, <2>5, <2>6, <2>8, <2>9
<1>3. ASSUME NEW u \in Subjects, DeleteSubject(u)
      PROVE  RoutesTracked'
  <2>1. Pending => Pending'
    BY <1>3, RaisedIsPending DEF DeleteSubject, Pending
  <2> QED
    BY <1>1, <1>3, <2>1 DEF DeleteSubject
<1>4. ASSUME NEW k \in Keys, NEW r \in Revisions \cup {"derived"}, NEW b \in Inclusions,
             QueueGatewayPublication(k, r, b)
      PROVE  RoutesTracked'
  <2>1. Captured(b) \in Payload /\ epoch \in [Models -> Nat]
    BY CapturedTyped DEF TypeOK
  <2>2. Latest'.payload = Captured(b) /\ Latest'.born = epoch
    BY <1>4, <2>1, InsertSelects DEF QueueGatewayPublication
  <2>3. Captured(b).routes = DerivedRoutes
    BY DEF Captured
  <2>4. \A m \in DOMAIN DerivedRoutes : m \in DOMAIN catalog
    BY DEF DerivedRoutes
  <2>5. catalog' = catalog /\ epoch' = epoch
    BY <1>4 DEF QueueGatewayPublication
  <2> QED
    BY <2>2, <2>3, <2>4, <2>5 DEF RoutesTracked
<1>5. ASSUME NEW k \in Keys, NEW i \in Seqs, ReplayDataPlanePublication(k, i)
      PROVE  RoutesTracked'
  <2>1. i = Len(intents) /\ ~Pending /\ intents # <<>>
    BY <1>5 DEF ReplayDataPlanePublication, Replayable, Seqs
  <2>2. /\ Latest.payload \in Payload
        /\ Latest.born \in [Models -> Nat]
        /\ Latest.revision \in Revisions \cup {"derived"}
    BY <2>1, LatestTyped
  <2>3. InsertPublication(k, Latest.revision, Latest.payload, Latest.born)
    BY <1>5, <2>1 DEF ReplayDataPlanePublication, Latest
  <2>4. Latest'.payload = Latest.payload /\ Latest'.born = Latest.born
    BY <2>2, <2>3, InsertSelects
  <2>5. catalog' = catalog /\ epoch' = epoch
    BY <1>5 DEF ReplayDataPlanePublication
  <2> QED
    BY <2>1, <2>4, <2>5 DEF RoutesTracked
<1>6. ASSUME QueueReferenceInvalidations
      PROVE  RoutesTracked'
  <2>1. catalog' = catalog /\ epoch' = epoch
    BY <1>6 DEF QueueReferenceInvalidations
  <2>2. ASSUME intents # <<>>, NEW m \in DOMAIN Invalidated(Latest.payload).routes,
               Invalidated(Latest.payload).routes[m].enabled
        PROVE  Fresh(m)
    <3>1. Latest.payload \in Payload /\ Len(intents) \in Nat
      BY <2>2, LatestTyped
    <3>2. /\ m \in DOMAIN Latest.payload.routes
          /\ m \in PresentModels
          /\ Latest.payload.routes[m].enabled
      BY <2>2, <3>1, InvalidatedRoutes
    <3>3. Fresh(m) \/ Marked(m)
      BY <2>2, <3>2 DEF RoutesTracked
    <3> QED
      BY <3>1, <3>2, <3>3 DEF PresentModels
  <2>3. CASE intents # <<>> /\ Invalidated(Latest.payload) # Latest.payload
    <3>1. Latest.payload \in Payload /\ Latest.born \in [Models -> Nat]
      BY <2>3, LatestTyped
    <3>2. Invalidated(Latest.payload) \in Payload
      BY <2>3, <3>1, InvalidatedTyped DEF RulesTracked
    <3>3. Latest'.payload = Invalidated(Latest.payload) /\ Latest'.born = Latest.born
      BY <1>6, <2>3, <3>1, <3>2, InsertSelects DEF QueueReferenceInvalidations
    <3> QED
      BY <2>1, <2>2, <2>3, <3>3 DEF RoutesTracked
  <2>4. CASE intents = <<>>
    BY <1>6, <2>4 DEF QueueReferenceInvalidations, RoutesTracked
  <2>5. CASE intents # <<>> /\ Invalidated(Latest.payload) = Latest.payload
    <3>1. intents' = intents /\ Latest' = Latest
      BY <1>6, <2>5 DEF QueueReferenceInvalidations, Latest
    <3> QED
      BY <2>1, <2>2, <2>5, <3>1 DEF RoutesTracked
  <2> QED
    BY <2>3, <2>4, <2>5
<1>7. ASSUME NEW m \in Models, NEW d \in Defs, NEW e \in Switches, PutModel(m, d, e)
      PROVE  RoutesTracked'
  BY <1>1, <1>7 DEF PutModel, Upsert, Pending
<1>8. CASE UNCHANGED <<catalog, epoch, removals, signal, intents>>
  BY <1>1, <1>8 DEF Pending
<1>9. CASE Administration
  BY <1>2, <1>3, <1>4, <1>5, <1>7, <1>8, <1>9
     DEF Administration, PutLimit, DeleteLimit, CreateSubject
<1> QED
  BY <1>6, <1>8, <1>9
     DEF Next, Passage, ledgerVars, ClaimDataPlanePublication, FinishDataPlanePublication,
         ForgetClaim, LeaseExpires, RetryDue

\* What Invalidated leaves of the captured rules: none is ahead of its row, and
\* none is enabled over a retired row.
LEMMA InvalidatedRules ==
    ASSUME TypeOK, NEW p \in Payload, NEW l \in DOMAIN Invalidated(p).limits,
           l \in DOMAIN p.limits => l \in DOMAIN limits /\ p.limits[l].version <= limits[l].version
    PROVE  /\ l \in DOMAIN p.limits
           /\ Invalidated(p).limits[l].version <= limits[l].version
           /\ Invalidated(p).limits[l].enabled => ~limits[l].retired
<1>1. DOMAIN p.limits \in SUBSET Limits /\ p.limits \in [DOMAIN p.limits -> Rule]
  BY TableElim DEF Payload
<1>2. DOMAIN limits \in SUBSET Limits /\ limits \in [DOMAIN limits -> RuleRow]
  BY TableElim DEF TypeOK
<1> DEFINE routes == [x \in DOMAIN p.routes |-> IF x \in PresentModels THEN p.routes[x]
                        ELSE [p.routes[x] EXCEPT !.enabled = FALSE]]
           rules  == [x \in DOMAIN p.limits |-> IF SupersededRule(x, p.limits[x])
                        THEN [p.limits[x] EXCEPT !.enabled = FALSE, !.version = limits[x].version]
                        ELSE p.limits[x]]
<1>3. Invalidated(p) = [p EXCEPT !.routes = routes, !.limits = rules]
  BY DEF Invalidated
<1>4. Invalidated(p).limits = rules
  <2> HIDE DEF routes, rules
  <2> QED
    BY <1>3 DEF Payload
<1>5. l \in DOMAIN p.limits /\ l \in DOMAIN limits /\ p.limits[l].version <= limits[l].version
  BY <1>4
<1>6. p.limits[l] \in Rule /\ limits[l] \in RuleRow
  BY <1>1, <1>2, <1>5
<1>7. limits[l].version \in Nat /\ p.limits[l].version \in Nat
  BY <1>6 DEF Rule, RuleRow
<1>8. CASE SupersededRule(l, p.limits[l])
  <2> DEFINE r == [p.limits[l] EXCEPT !.enabled = FALSE, !.version = limits[l].version]
  <2>1. rules[l] = r
    BY <1>5, <1>8
  <2>2. ~r.enabled
    BY <1>6 DEF Rule
  <2>3. r.version = limits[l].version
    BY <1>6 DEF Rule
  <2> HIDE DEF rules, r
  <2>4. Invalidated(p).limits[l] = r
    BY <1>4, <2>1, Zenon
  <2>5. ~Invalidated(p).limits[l].enabled
    BY <2>2, <2>4, Zenon
  <2>6. Invalidated(p).limits[l].version = limits[l].version
    BY <2>3, <2>4, Zenon
  <2>7. Invalidated(p).limits[l].version <= limits[l].version
    BY <1>7, <2>6
  <2> QED
    BY <1>5, <2>5, <2>7, Zenon
<1>9. CASE ~SupersededRule(l, p.limits[l])
  <2>1. rules[l] = p.limits[l]
    BY <1>5, <1>9
  <2> HIDE DEF rules
  <2>2. Invalidated(p).limits[l] = p.limits[l]
    BY <1>4, <2>1, Zenon
  <2>3. limits[l].version >= p.limits[l].version
    BY <1>5, <1>7
  <2>4. p.limits[l].enabled => ~limits[l].retired
    BY <1>9, <2>3, Zenon DEF SupersededRule
  <2> QED
    BY <1>5, <2>2, <2>4, Zenon
<1> QED
  BY <1>8, <1>9

\* Rewriting rows without lowering a version, and retiring rows only together
\* with the signal, keeps the rules of the selected intent tracked.
LEMMA RulesKept ==
    ASSUME TypeOK, RulesTracked, UNCHANGED intents, Pending => Pending',
           \A l \in DOMAIN limits :
               /\ l \in DOMAIN limits'
               /\ limits[l].version <= limits'[l].version
               /\ limits'[l].version \in Nat
               /\ limits'[l].retired => limits[l].retired \/ Pending',
           \A l \in DOMAIN limits' : limits'[l].retired => limits'[l].deleted
    PROVE  RulesTracked'
<1> DEFINE Tracked(l) == /\ l \in DOMAIN limits
                         /\ Latest.payload.limits[l].version <= limits[l].version
                         /\ Latest.payload.limits[l].enabled => ~limits[l].retired \/ Pending
<1>1. Latest' = Latest
  BY DEF Latest
<1> SUFFICES ASSUME intents # <<>>, NEW l \in DOMAIN Latest.payload.limits
             PROVE  /\ l \in DOMAIN limits'
                    /\ Latest.payload.limits[l].version <= limits'[l].version
                    /\ Latest.payload.limits[l].enabled => ~limits'[l].retired \/ Pending'
  BY <1>1 DEF RulesTracked
<1>2. Tracked(l)
  BY DEF RulesTracked
<1>3. limits[l] \in RuleRow /\ Latest.payload.limits[l] \in Rule
  <2>1. limits \in [DOMAIN limits -> RuleRow] /\ Latest.payload \in Payload
    BY TableElim, LatestTyped DEF TypeOK
  <2>2. Latest.payload.limits \in [DOMAIN Latest.payload.limits -> Rule]
    BY <2>1, TableElim DEF Payload
  <2> QED
    BY <1>2, <2>1, <2>2
<1>4. limits[l].version \in Nat /\ Latest.payload.limits[l].version \in Nat
  BY <1>3 DEF RuleRow, Rule
<1>5. Latest.payload.limits[l].version <= limits'[l].version
  BY <1>2, <1>4
<1> QED
  BY <1>2, <1>5, Zenon

\* Every transaction keeps the rules of the selected intent behind their rows,
\* and a retirement over an enabled one pending.
LEMMA RulesStep ==
    ASSUME TypeOK, SignalOrdered, RulesTracked, [Next]_ledgerVars
    PROVE  RulesTracked'
<1> USE LedgerAssumption
<1>1. DOMAIN limits \in SUBSET Limits /\ limits \in [DOMAIN limits -> RuleRow]
  BY TableElim DEF TypeOK
<1>2. ASSUME NEW l \in DOMAIN limits
      PROVE  /\ limits[l].version \in Nat
             /\ limits[l].version <= limits[l].version
             /\ limits[l].version <= limits[l].version + 1
             /\ limits[l].version + 1 \in Nat
             /\ limits[l].retired => limits[l].deleted
  <2>1. limits[l].version \in Nat
    BY <1>1 DEF RuleRow
  <2> QED
    BY <2>1 DEF RulesTracked
<1>3. ASSUME NEW t, Retire(t), intents' = intents, Pending => Pending', References(t) = {} \/ Pending'
      PROVE  RulesTracked'
  <2>1. ASSUME NEW l \in DOMAIN limits
        PROVE  /\ l \in DOMAIN limits'
               /\ limits[l].version <= limits'[l].version
               /\ limits'[l].version \in Nat
               /\ limits'[l].retired => limits[l].retired \/ Pending'
               /\ limits'[l].retired => limits'[l].deleted
    <3>1. l \in DOMAIN limits'
      BY <1>3 DEF Retire
    <3>2. CASE l \in References(t)
      <4>1. limits'[l] = Retired(limits[l])
        BY <1>3, <3>2 DEF Retire
      <4>2. Retired(limits[l]).version = limits[l].version + 1 /\ Retired(limits[l]).deleted
        BY <1>1, RuleRetired
      <4>3. Pending'
        BY <1>3, <3>2
      <4> QED
        BY <1>2, <3>1, <4>1, <4>2, <4>3, Zenon
    <3>3. CASE l \notin References(t)
      <4>1. limits'[l] = limits[l]
        BY <1>3, <3>3 DEF Retire
      <4> QED
        BY <1>2, <3>1, <4>1, Zenon
    <3> QED
      BY <3>2, <3>3
  <2>2. DOMAIN limits' = DOMAIN limits
    BY <1>3 DEF Retire
  <2> QED
    BY <1>3, <2>1, <2>2, RulesKept
<1>4. ASSUME NEW m \in Models, DeleteModel(m)
      PROVE  RulesTracked'
  <2>1. Pending'
    BY <1>4, RaisedIsPending DEF DeleteModel
  <2> QED
    BY <1>3, <1>4, <2>1 DEF DeleteModel
<1>5. ASSUME NEW u \in Subjects, DeleteSubject(u)
      PROVE  RulesTracked'
  <2>1. References(u) = {} \/ Pending'
    BY <1>5, RaisedIsPending DEF DeleteSubject
  <2>2. Pending => Pending'
    BY <1>5, RaisedIsPending DEF DeleteSubject, Pending
  <2> QED
    BY <1>3, <1>5, <2>1, <2>2 DEF DeleteSubject
<1>6. ASSUME NEW l \in Limits, NEW t \in Scopes, NEW e \in Switches, PutLimit(l, t, e)
      PROVE  RulesTracked'
  <2>1. intents' = intents /\ (Pending => Pending')
    BY <1>6 DEF PutLimit, Pending
  <2>2. CASE l \in DOMAIN limits
    <3>1. ~limits[l].deleted /\ limits' = [limits EXCEPT ![l] = Edited(limits[l], t, e)]
      BY <1>6, <2>2 DEF PutLimit
    <3>2. /\ Edited(limits[l], t, e).version = limits[l].version + 1
          /\ Edited(limits[l], t, e).retired = limits[l].retired
          /\ Edited(limits[l], t, e).deleted = limits[l].deleted
      BY <1>1, <2>2, RuleEdited
    <3>3. ASSUME NEW x \in DOMAIN limits
          PROVE  /\ x \in DOMAIN limits'
                 /\ limits[x].version <= limits'[x].version
                 /\ limits'[x].version \in Nat
                 /\ limits'[x].retired => limits[x].retired \/ Pending'
                 /\ limits'[x].retired => limits'[x].deleted
      <4>1. x \in DOMAIN limits'
        BY <3>1
      <4>2. limits'[x] = limits[x] \/ (x = l /\ limits'[x] = Edited(limits[l], t, e))
        BY <3>1
      <4> QED
        BY <1>2, <3>2, <4>1, <4>2, Zenon
    <3>4. DOMAIN limits' = DOMAIN limits
      BY <3>1
    <3> QED
      BY <2>1, <3>3, <3>4, RulesKept
  <2>3. CASE l \notin DOMAIN limits
    <3> DEFINE row == [version |-> 1, enabled |-> e, refs |-> t, deleted |-> FALSE, retired |-> FALSE]
    <3>1. limits' = Upsert(limits, l, row)
      BY <1>6, <2>3 DEF PutLimit
    <3>2. ~row.retired
      OBVIOUS
    <3> HIDE DEF row
    <3>3. /\ DOMAIN limits' = DOMAIN limits \cup {l}
          /\ limits'[l] = row
          /\ \A x \in DOMAIN limits : limits'[x] = limits[x]
      BY <2>3, <3>1 DEF Upsert
    <3>4. ASSUME NEW x \in DOMAIN limits
          PROVE  /\ x \in DOMAIN limits'
                 /\ limits[x].version <= limits'[x].version
                 /\ limits'[x].version \in Nat
                 /\ limits'[x].retired => limits[x].retired \/ Pending'
                 /\ limits'[x].retired => limits'[x].deleted
      BY <1>2, <3>3, Zenon
    <3>5. ~limits'[l].retired
      BY <3>2, <3>3, Zenon
    <3>6. \A x \in DOMAIN limits' : limits'[x].retired => limits'[x].deleted
      BY <3>3, <3>4, <3>5, Zenon
    <3> QED
      BY <2>1, <3>4, <3>6, RulesKept
  <2> QED
    BY <2>2, <2>3
<1>7. ASSUME NEW l \in Limits, DeleteLimit(l)
      PROVE  RulesTracked'
  <2>1. intents' = intents /\ (Pending => Pending')
    BY <1>7 DEF DeleteLimit, Pending
  <2>2. l \in DOMAIN limits /\ limits' = [limits EXCEPT ![l] = SoftDeleted(limits[l])]
    BY <1>7 DEF DeleteLimit
  <2>3. /\ SoftDeleted(limits[l]).version = limits[l].version + 1
        /\ SoftDeleted(limits[l]).retired = limits[l].retired
        /\ SoftDeleted(limits[l]).deleted
    BY <1>1, <2>2, RuleDeleted
  <2>4. ASSUME NEW x \in DOMAIN limits
        PROVE  /\ x \in DOMAIN limits'
               /\ limits[x].version <= limits'[x].version
               /\ limits'[x].version \in Nat
               /\ limits'[x].retired => limits[x].retired \/ Pending'
               /\ limits'[x].retired => limits'[x].deleted
    <3>1. x \in DOMAIN limits'
      BY <2>2
    <3>2. limits'[x] = limits[x] \/ (x = l /\ limits'[x] = SoftDeleted(limits[l]))
      BY <2>2
    <3> QED
      BY <1>2, <2>3, <3>1, <3>2, Zenon
  <2>5. DOMAIN limits' = DOMAIN limits
    BY <2>2
  <2> QED
    BY <2>1, <2>4, <2>5, RulesKept
<1>8. ASSUME NEW k \in Keys, NEW r \in Revisions \cup {"derived"}, NEW b \in Inclusions,
             QueueGatewayPublication(k, r, b)
      PROVE  RulesTracked'
  <2>1. Captured(b) \in Payload /\ epoch \in [Models -> Nat]
    BY CapturedTyped DEF TypeOK
  <2>2. Latest'.payload = Captured(b)
    BY <1>8, <2>1, InsertSelects DEF QueueGatewayPublication
  <2>3. limits' = limits /\ signal' = signal
    BY <1>8 DEF QueueGatewayPublication
  <2>4. Pending' <=> Pending
    BY <2>3 DEF Pending
  <2>5. ASSUME NEW l \in DOMAIN Captured(b).limits
        PROVE  /\ l \in DOMAIN limits
               /\ Captured(b).limits[l].version <= limits[l].version
               /\ Captured(b).limits[l].enabled => ~limits[l].retired \/ Pending
    <3>1. CASE b
      <4>1. Captured(b).limits = DraftLimits
        BY <3>1 DEF Captured
      <4>2. l \in DOMAIN limits
        BY <4>1 DEF DraftLimits
      <4>3. DraftLimits[l].version = limits[l].version
        BY <4>2 DEF DraftLimits
      <4>4. DraftLimits[l].enabled => ~limits[l].deleted
        BY <4>2 DEF DraftLimits
      <4> QED
        BY <1>2, <4>1, <4>2, <4>3, <4>4, Zenon
    <3>2. CASE ~b /\ intents # <<>>
      <4>1. Captured(b).limits = Latest.payload.limits
        BY <3>2 DEF Captured
      <4> QED
        BY <3>2, <4>1, Zenon DEF RulesTracked
    <3>3. CASE ~b /\ intents = <<>>
      <4>1. Captured(b).limits = EmptyTable
        BY <3>3 DEF Captured
      <4> QED
        BY <4>1 DEF EmptyTable
    <3> QED
      BY <3>1, <3>2, <3>3
  <2> QED
    BY <2>2, <2>3, <2>4, <2>5, Zenon DEF RulesTracked
<1>9. ASSUME NEW k \in Keys, NEW i \in Seqs, ReplayDataPlanePublication(k, i)
      PROVE  RulesTracked'
  <2>1. i = Len(intents) /\ intents # <<>>
    BY <1>9 DEF ReplayDataPlanePublication, Replayable, Seqs
  <2>2. /\ Latest.payload \in Payload
        /\ Latest.born \in [Models -> Nat]
        /\ Latest.revision \in Revisions \cup {"derived"}
    BY <2>1, LatestTyped
  <2>3. InsertPublication(k, Latest.revision, Latest.payload, Latest.born)
    BY <1>9, <2>1 DEF ReplayDataPlanePublication, Latest
  <2>4. Latest'.payload = Latest.payload
    BY <2>2, <2>3, InsertSelects
  <2>5. limits' = limits /\ signal' = signal
    BY <1>9 DEF ReplayDataPlanePublication
  <2>6. Pending' <=> Pending
    BY <2>5 DEF Pending
  <2> QED
    BY <2>1, <2>4, <2>5, <2>6, Zenon DEF RulesTracked
<1>10. ASSUME QueueReferenceInvalidations
       PROVE  RulesTracked'
  <2>1. limits' = limits
    BY <1>10 DEF QueueReferenceInvalidations
  <2>2. ASSUME intents # <<>>, NEW l \in DOMAIN Invalidated(Latest.payload).limits
        PROVE  /\ l \in DOMAIN limits
               /\ Invalidated(Latest.payload).limits[l].version <= limits[l].version
               /\ Invalidated(Latest.payload).limits[l].enabled => ~limits[l].retired
    <3>1. Latest.payload \in Payload
      BY <2>2, LatestTyped
    <3>2. l \in DOMAIN Latest.payload.limits =>
             /\ l \in DOMAIN limits
             /\ Latest.payload.limits[l].version <= limits[l].version
      BY <2>2 DEF RulesTracked
    <3>3. /\ l \in DOMAIN Latest.payload.limits
          /\ Invalidated(Latest.payload).limits[l].version <= limits[l].version
          /\ Invalidated(Latest.payload).limits[l].enabled => ~limits[l].retired
      BY <2>2, <3>1, <3>2, InvalidatedRules
    <3> QED
      BY <3>2, <3>3, Zenon
  <2>3. CASE intents # <<>> /\ Invalidated(Latest.payload) # Latest.payload
    <3>1. Latest.payload \in Payload /\ Latest.born \in [Models -> Nat]
      BY <2>3, LatestTyped
    <3>2. Invalidated(Latest.payload) \in Payload
      BY <2>3, <3>1, InvalidatedTyped DEF RulesTracked
    <3>3. Latest'.payload = Invalidated(Latest.payload)
      BY <1>10, <2>3, <3>1, <3>2, InsertSelects DEF QueueReferenceInvalidations
    <3> QED
      BY <2>1, <2>2, <2>3, <3>3, Zenon DEF RulesTracked
  <2>4. CASE intents = <<>>
    BY <1>10, <2>1, <2>4 DEF QueueReferenceInvalidations, RulesTracked
  <2>5. CASE intents # <<>> /\ Invalidated(Latest.payload) = Latest.payload
    <3>1. intents' = intents /\ Latest' = Latest
      BY <1>10, <2>5 DEF QueueReferenceInvalidations, Latest
    <3> QED
      BY <2>1, <2>2, <2>5, <3>1, Zenon DEF RulesTracked
  <2> QED
    BY <2>3, <2>4, <2>5
<1>11. CASE UNCHANGED <<limits, signal, intents>>
  BY <1>11 DEF RulesTracked, Latest, Pending
<1>12. CASE Administration
  BY <1>4, <1>5, <1>6, <1>7, <1>8, <1>9, <1>11, <1>12
     DEF Administration, PutModel, CreateSubject
<1> QED
  BY <1>10, <1>11, <1>12
     DEF Next, Passage, ledgerVars, ClaimDataPlanePublication, FinishDataPlanePublication,
         ForgetClaim, LeaseExpires, RetryDue

-----------------------------------------------------------------------------
(* The theorems. *)

\* The first state satisfies the invariant.
LEMMA LedgerStart ==
    ASSUME Init
    PROVE  LedgerInvariant
<1>1. TypeOK
  BY TypeInit
<1>2. intents = <<>> /\ limits = EmptyTable /\ signal = [version |-> 0, acknowledged |-> 0]
  BY DEF Init
<1>3. Seqs = {} /\ DOMAIN limits = {}
  BY <1>2, EmptySeq DEF Seqs, EmptyTable
<1>4. \A w \in Workers : claim[w] = NoClaim
  BY DEF Init
<1> QED
  BY <1>1, <1>2, <1>3, <1>4
     DEF LedgerInvariant, OutboxAgrees, ClaimsDistinct, SignalOrdered, RoutesTracked, RulesTracked

\* Every step keeps it.
LEMMA LedgerKept ==
    ASSUME LedgerInvariant, [Next]_ledgerVars
    PROVE  LedgerInvariant'
<1>1. TypeOK /\ OutboxAgrees /\ ClaimsDistinct /\ SignalOrdered /\ RoutesTracked /\ RulesTracked
  BY DEF LedgerInvariant
<1>2. TypeOK' /\ OutboxAgrees' /\ ClaimsDistinct'
  BY <1>1, TypeStep, OutboxStep, ClaimsStep
<1>3. SignalOrdered' /\ RoutesTracked' /\ RulesTracked'
  BY <1>1, SignalStep, RoutesStep, RulesStep
<1> QED
  BY <1>2, <1>3 DEF LedgerInvariant

\* The strengthened invariant is inductive.
THEOREM LedgerSafe == Spec => []LedgerInvariant
<1>1. LedgerInvariant /\ [Next]_ledgerVars => LedgerInvariant'
  BY LedgerKept
<1> QED
  BY <1>1, LedgerStart, PTL DEF Spec

\* Every table keeps its type whatever administrators, relays and clocks do.
THEOREM TypeCorrect == Spec => []TypeOK
<1>1. LedgerInvariant => TypeOK
  BY DEF LedgerInvariant
<1> QED
  BY <1>1, LedgerSafe, PTL

\* Publication rows and outbox rows agree after every transaction.
THEOREM OutboxCorrect == Spec => []OutboxAgrees
<1>1. LedgerInvariant => OutboxAgrees
  BY DEF LedgerInvariant
<1> QED
  BY <1>1, LedgerSafe, PTL

\* Whatever claims workers still remember, the token and the lease let at most
\* one of them acknowledge.
THEOREM AcknowledgerUnique == Spec => []OneAcknowledger
<1>1. LedgerInvariant => OneAcknowledger
  <2> SUFFICES ASSUME LedgerInvariant, NEW v \in Workers, NEW w \in Workers,
                      MayAcknowledge(v), MayAcknowledge(w)
               PROVE  v = w
    BY DEF OneAcknowledger
  <2>1. claim[v] \in Claim /\ claim[w] \in Claim
    BY DEF LedgerInvariant, TypeOK
  <2>2. claim[v].seq = Len(intents) /\ claim[w].seq = Len(intents)
    BY DEF MayAcknowledge, OwnsLatest
  <2>3. claim[v].token = claim[w].token
    BY <2>2 DEF MayAcknowledge, OwnsLatest
  <2>4. claim[v] = claim[w]
    BY <2>1, <2>2, <2>3 DEF Claim
  <2> QED
    BY <2>4 DEF MayAcknowledge, LedgerInvariant, ClaimsDistinct
<1> QED
  BY <1>1, LedgerSafe, PTL

\* Once no withdrawal is pending, the selected intent enables no route of a
\* deleted model, not even when its id is in use again.
THEOREM RoutesCurrent == Spec => []SelectedRoutesCurrent
<1>1. LedgerInvariant => SelectedRoutesCurrent
  BY DEF LedgerInvariant, RoutesTracked, SelectedRoutesCurrent
<1> QED
  BY <1>1, LedgerSafe, PTL

\* Once no withdrawal is pending, the selected intent enables no retired rule.
THEOREM RulesCurrent == Spec => []SelectedRulesCurrent
<1>1. LedgerInvariant => SelectedRulesCurrent
  BY DEF LedgerInvariant, RulesTracked, SelectedRulesCurrent
<1> QED
  BY <1>1, LedgerSafe, PTL

\* insertPublication leaves the phases of the earlier publications alone.
LEMMA PhasesInserted ==
    ASSUME TypeOK,
           NEW key \in Keys \cup {"system"}, NEW revision \in Revisions \cup {"derived"},
           NEW payload \in Payload, NEW born \in [Models -> Nat],
           InsertPublication(key, revision, payload, born)
    PROVE  \A i \in Seqs : status'[i] = status[i]
BY InsertTyped

\* Terminal phases are final, and only the selected intent is ever acknowledged.
THEOREM TerminalIsFinal == Spec => TerminalForGood
<1> DEFINE Final == \A i \in Seqs :
        /\ status[i].phase \in Terminal => status'[i] = status[i]
        /\ status'[i].phase \in {"projected", "failed"} /\ status'[i] # status[i]
             => i = Len(intents)
<1>1. ASSUME LedgerInvariant, [Next]_ledgerVars
      PROVE  [Final]_ledgerVars
  <2> USE LedgerAssumption
  <2>1. TypeOK /\ RulesTracked /\ status \in [Seqs -> Status]
    BY <1>1 DEF LedgerInvariant, TypeOK
  <2>2. ASSUME \A i \in Seqs : status'[i] = status[i] PROVE Final
    BY <2>2, Zenon
  <2>3. ASSUME NEW k \in Keys, NEW r \in Revisions \cup {"derived"}, NEW b \in Inclusions,
               QueueGatewayPublication(k, r, b)
        PROVE  Final
    <3>1. Captured(b) \in Payload /\ epoch \in [Models -> Nat]
      BY <2>1, CapturedTyped DEF TypeOK
    <3> QED
      BY <2>1, <2>2, <2>3, <3>1, PhasesInserted DEF QueueGatewayPublication
  <2>4. ASSUME NEW k \in Keys, NEW i \in Seqs, ReplayDataPlanePublication(k, i)
        PROVE  Final
    <3>1. intents[i] \in Intent
      BY <2>1, ElementOfSeq DEF TypeOK, Seqs
    <3>2. /\ intents[i].payload \in Payload
          /\ intents[i].born \in [Models -> Nat]
          /\ intents[i].revision \in Revisions \cup {"derived"}
      BY <3>1 DEF Intent
    <3> QED
      BY <2>1, <2>2, <2>4, <3>2, PhasesInserted DEF ReplayDataPlanePublication
  <2>5. ASSUME QueueReferenceInvalidations
        PROVE  Final
    <3>1. CASE intents # <<>> /\ Invalidated(Latest.payload) # Latest.payload
      <4>1. Latest.payload \in Payload /\ Latest.born \in [Models -> Nat]
        BY <2>1, <3>1, LatestTyped
      <4>2. Invalidated(Latest.payload) \in Payload
        BY <2>1, <3>1, <4>1, InvalidatedTyped DEF RulesTracked
      <4> QED
        BY <2>1, <2>2, <2>5, <3>1, <4>1, <4>2, PhasesInserted DEF QueueReferenceInvalidations
    <3>2. CASE ~(intents # <<>> /\ Invalidated(Latest.payload) # Latest.payload)
      BY <2>2, <2>5, <3>2 DEF QueueReferenceInvalidations
    <3> QED
      BY <3>1, <3>2
  <2>6. ASSUME NEW w \in Workers, ClaimDataPlanePublication(w)
        PROVE  Final
    <3> SUFFICES ASSUME NEW i \in Seqs, status'[i] # status[i]
                 PROVE  /\ status[i].phase \notin Terminal
                        /\ status'[i].phase \notin {"projected", "failed"}
      BY Zenon
    <3>1. status[i].phase \in {"queued", "projecting"}
      BY <2>6 DEF ClaimDataPlanePublication, Superseding
    <3> DEFINE gone == [phase |-> "superseded", code |-> ""]
               held == [phase |-> "projecting", code |-> ""]
    <3>2. status'[i] = gone \/ status'[i] = held
      BY <2>6 DEF ClaimDataPlanePublication
    <3>3. gone.phase = "superseded" /\ held.phase = "projecting"
      OBVIOUS
    <3> HIDE DEF gone, held
    <3> QED
      BY <3>1, <3>2, <3>3 DEF Terminal
  <2>7. ASSUME NEW w \in Workers, NEW o \in Outcomes, FinishDataPlanePublication(w, o)
        PROVE  Final
    <3>1. CASE OwnsLatest(w)
      <4>1. claim[w].seq = Len(intents) /\ status[Len(intents)].phase = "projecting"
        BY <3>1 DEF OwnsLatest
      <4>2. \A i \in Seqs : i # Len(intents) => status'[i] = status[i]
        BY <2>1, <2>7, <3>1, <4>1 DEF FinishDataPlanePublication
      <4>3. "projecting" \notin Terminal
        BY DEF Terminal
      <4> QED
        BY <4>1, <4>2, <4>3, Zenon
    <3>2. CASE ~OwnsLatest(w)
      BY <2>2, <2>7, <3>2 DEF FinishDataPlanePublication
    <3> QED
      BY <3>1, <3>2
  <2>8. ASSUME UNCHANGED status PROVE Final
    BY <2>2, <2>8
  <2>9. ASSUME Administration PROVE Final
    BY <2>3, <2>4, <2>8, <2>9
       DEF Administration, PutModel, DeleteModel, PutLimit, DeleteLimit, DeleteSubject, CreateSubject
  <2> HIDE DEF Final
  <2>10. ASSUME Passage PROVE Final
    BY <2>8, <2>10 DEF Passage, LeaseExpires, RetryDue
  <2>11. ASSUME NEW w \in Workers, ForgetClaim(w) PROVE Final
    BY <2>8, <2>11 DEF ForgetClaim
  <2>12. ASSUME Next PROVE Final
    BY <2>5, <2>6, <2>7, <2>9, <2>10, <2>11, <2>12 DEF Next
  <2> QED
    BY <1>1, <2>12
<1>2. Spec => [][Final]_ledgerVars
  <2> HIDE DEF Final
  <2> QED
    BY <1>1, LedgerSafe, PTL DEF Spec
<1> QED
  BY <1>2 DEF TerminalForGood

=============================================================================
