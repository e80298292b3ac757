------------------------ MODULE PublicationRelayProofs ------------------------
(***************************************************************************)
(* Theorems about PublicationRelay, for every set of models, rules, keys   *)
(* and workers and for every bound: the relay implements the ledger, the   *)
(* cluster follows the ledger, and both together keep the delivery         *)
(* contract.                                                               *)
(***************************************************************************)
EXTENDS PublicationRelay, PublicationLedgerProofs, WellFoundedInduction

-----------------------------------------------------------------------------
(* The inductive invariant. *)

Specs         == Route \cup Rule \cup {NoSpec}
ObjectRecord  == [rv : Nat, marker : Nat, spec : Specs]
RequestRecord == [object : Objects, rv : Nat, marker : Nat, spec : Specs]
Points        == {"idle", "claim", "open", "list", "write", "stamp", "update", "confirm", "finish"}
WorkRecord    == [pc : Points, stage : {"routes", "policies"}, view : Table(Objects, ObjectRecord),
                  done : SUBSET Children, outcome : Outcomes]

\* Objects, requests and workers have their types.
ClusterTyped ==
    /\ cr \in [Objects -> ObjectRecord]
    /\ late \subseteq RequestRecord
    /\ work \in [Workers -> WorkRecord]

\* A worker holds a claim from its claim step to its acknowledgement.
ClaimsFollow == \A w \in Workers : claim[w] = NoClaim <=> work[w].pc \in {"idle", "claim"}

\* Limits stay selected, and captured rules stay captured.
PoliciesGrow ==
    \A i, j \in Seqs : i <= j /\ intents[i].payload.selected =>
        /\ intents[j].payload.selected
        /\ DOMAIN intents[i].payload.limits \subseteq DOMAIN intents[j].payload.limits

\* Markers name operations of the ledger, and absent objects carry none.
ObjectsMarked ==
    \A o \in Objects :
        /\ cr[o].marker <= Len(intents)
        /\ o \in Children /\ cr[o].rv = 0 => cr[o].marker = 0

\* Object v may have been read before the object is as in c.
Precedes(v, c) == v.rv <= c.rv /\ v.marker <= c.marker /\ (v.rv = c.rv => v.marker = c.marker)

\* Everything that operation s asks for has been written for it or a newer one.
Placed(s) == \A o \in DOMAIN Desired(s) : cr[o].marker >= s

Kind(w) == IF work[w].stage = "routes" THEN Models ELSE Limits

\* What a worker at q that delivers operation s has seen and done, when the
\* cluster is as in c, s asks for the objects of D, and n operations are there.
PointOK(q, s, c, D, n) ==
    LET kind == IF q.stage = "routes" THEN Models ELSE Limits
    IN  /\ q.pc \in {"idle", "claim", "open"} => q.stage = "routes"
        /\ q.pc = "write" =>
              /\ DOMAIN q.view = kind
              /\ \A o \in kind : Precedes(q.view[o], c[o])
              /\ \A o \in q.done : c[o].marker >= s
        /\ q.pc \in {"list", "write"} /\ q.stage = "policies" =>
              \A o \in D \cap Models : c[o].marker >= s
        /\ q.pc \in {"stamp", "update", "confirm"} => \A o \in D : c[o].marker >= s
        /\ q.pc = "update" =>
              /\ DOMAIN q.view = {"deployment"}
              /\ Precedes(q.view["deployment"], c["deployment"])
              /\ q.view["deployment"].marker <= s
        /\ q.pc = "confirm" => c["deployment"].marker >= s
        /\ q.pc = "finish" /\ q.outcome = "projected" => c["deployment"].marker >= s
        /\ q.pc = "finish" /\ q.outcome = "ownership" => s < n

WorkerOK(w) ==
    PointOK(work[w], claim[w].seq, cr, DOMAIN Desired(claim[w].seq), Len(intents))

\* A request on its way carries what its operation asks for, and is refused once
\* the object has moved.
RequestOK(r) ==
    /\ r.marker \in Seqs
    /\ r.rv <= cr[r.object].rv
    /\ r.rv = cr[r.object].rv => cr[r.object].marker <= r.marker
    /\ r.object \in Children => r.object \in DOMAIN Desired(r.marker) /\ r.spec = Desired(r.marker)[r.object]
    /\ r.object = "deployment" => Placed(r.marker)

RelayInductive ==
    /\ ClusterTyped /\ ClaimsFollow /\ PoliciesGrow
    /\ ObjectsMarked /\ SpecFollowsMarker
    /\ \A w \in Workers : WorkerOK(w)
    /\ \A r \in late : RequestOK(r)
    /\ AggregateStampedLast /\ ProjectedIsStamped /\ NoOwnershipConflict
-----------------------------------------------------------------------------
(* What an operation asks for. *)

\* A bounded set of numbers has a greatest one.
LEMMA NewestIn ==
    ASSUME NEW n \in Nat, NEW S \in SUBSET (1 .. n), S # {}
    PROVE  Newest(S) \in S /\ \A j \in S : j <= Newest(S)
<1> DEFINE T == {n - i : i \in S}
<1>1. T \subseteq Nat /\ T # {}
  OBVIOUS
<1>2. PICK x \in T : \A y \in T : ~(<<y, x>> \in OpToRel(<, Nat))
  <2> DEFINE R == OpToRel(<, Nat)
  <2>1. IsWellFoundedOn(R, Nat)
    BY NatLessThanWellFounded
  <2> HIDE DEF T, R
  <2>2. \E x \in T : \A y \in T : ~(<<y, x>> \in R)
    BY <1>1, <2>1, WFMin
  <2> QED
    BY <2>2 DEF R
<1>3. \A y \in T : ~(y < x)
  BY <1>1, <1>2 DEF OpToRel
<1>4. PICK i \in S : x = n - i
  OBVIOUS
<1>5. \A j \in S : j <= i
  <2> SUFFICES ASSUME NEW j \in S PROVE j <= i
    OBVIOUS
  <2>1. ~(n - j < n - i)
    BY <1>3, <1>4
  <2>2. i \in Int /\ j \in Int
    OBVIOUS
  <2> QED
    BY ONLY <2>1, <2>2, n \in Nat
<1>6. \E k \in S : \A j \in S : j <= k
  BY <1>5
<1> QED
  BY <1>6 DEF Newest

\* The inputs of one delivery are the payloads up to its sequence number.
LEMMA PrefixTyped ==
    ASSUME TypeOK, NEW s \in Seqs
    PROVE  /\ Prefix(s) \in [1 .. s -> Payload] /\ s \in Nat /\ s >= 1 /\ s <= Len(intents)
           /\ DOMAIN Prefix(s) = 1 .. s /\ Len(Prefix(s)) = s
           /\ \A i \in 1 .. s : i \in Seqs /\ Prefix(s)[i] = intents[i].payload
<1>1. intents \in Seq(Intent) /\ Len(intents) \in Nat /\ s \in 1 .. Len(intents)
  BY DEF TypeOK, Seqs
<1>2. ASSUME NEW i \in 1 .. s PROVE i \in Seqs /\ intents[i].payload \in Payload
  <2>1. i \in 1 .. Len(intents)
    BY <1>1
  <2>2. intents[i] \in Intent
    BY <1>1, <2>1, ElementOfSeq
  <2> QED
    BY <2>1, <2>2 DEF Intent, Seqs
<1>3. Prefix(s) \in [1 .. s -> Payload]
  BY <1>2 DEF Prefix
<1>4. Len(Prefix(s)) = s
  BY ONLY <1>1, <1>3, ColumnIsSeq
<1> QED
  BY <1>1, <1>2, <1>3, <1>4 DEF Prefix

\* Where the objects of an operation come from.
LEMMA DesiredDomains ==
    ASSUME TypeOK, NEW s \in Seqs
    PROVE  /\ DOMAIN DesiredRoutes(Prefix(s)) = {m \in Models : Accepted(Prefix(s), m) # {}}
           /\ DOMAIN DesiredPolicies(Prefix(s)) =
                 IF intents[s].payload.selected THEN DOMAIN intents[s].payload.limits ELSE {}
           /\ DOMAIN DesiredPolicies(Prefix(s)) \subseteq Limits
           /\ DOMAIN Desired(s) = DOMAIN DesiredRoutes(Prefix(s)) \cup DOMAIN DesiredPolicies(Prefix(s))
           /\ DOMAIN Desired(s) \subseteq Children
<1>1. Len(Prefix(s)) = s /\ Prefix(s)[s] = intents[s].payload /\ Prefix(s)[s] \in Payload
  BY PrefixTyped
<1>2. DOMAIN intents[s].payload.limits \subseteq Limits
  BY <1>1, TableElim DEF Payload
<1>3. DOMAIN DesiredPolicies(Prefix(s)) =
                 IF intents[s].payload.selected THEN DOMAIN intents[s].payload.limits ELSE {}
  BY <1>1 DEF DesiredPolicies, EmptyTable
<1>4. DOMAIN DesiredRoutes(Prefix(s)) = {m \in Models : Accepted(Prefix(s), m) # {}}
  BY DEF DesiredRoutes
<1>5. DOMAIN Desired(s) = DOMAIN DesiredRoutes(Prefix(s)) \cup DOMAIN DesiredPolicies(Prefix(s))
  BY DEF Desired, DesiredOf
<1> QED
  BY <1>2, <1>3, <1>4, <1>5 DEF Children

\* Every object an operation asks for has a spec: the current route of a model or
\* its disabled tombstone, or the captured rule.
LEMMA DesiredTyped ==
    ASSUME TypeOK, NEW s \in Seqs, NEW o \in DOMAIN Desired(s)
    PROVE  /\ Desired(s)[o] \in Specs
           /\ o \in Models => Desired(s)[o] = DesiredRoutes(Prefix(s))[o]
           /\ o \in Models => \/ /\ o \in DOMAIN intents[s].payload.routes
                                 /\ DesiredRoutes(Prefix(s))[o] = intents[s].payload.routes[o]
                              \/ ~DesiredRoutes(Prefix(s))[o].enabled
<1> DEFINE h == Prefix(s)
<1>1. /\ h \in [1 .. s -> Payload] /\ s \in Nat /\ s >= 1 /\ DOMAIN h = 1 .. s /\ Len(h) = s
      /\ h[s] = intents[s].payload
  BY PrefixTyped
<1>2. \A i \in 1 .. s : h[i].routes \in Table(Models, Route) /\ h[i].limits \in Table(Limits, Rule)
  BY <1>1 DEF Payload
<1>3. Desired(s)[o] = IF o \in DOMAIN DesiredRoutes(h) THEN DesiredRoutes(h)[o] ELSE DesiredPolicies(h)[o]
  BY DesiredDomains DEF Desired, DesiredOf
<1>4. ASSUME o \in DOMAIN DesiredRoutes(h)
      PROVE  /\ DesiredRoutes(h)[o] \in Route
             /\ \/ o \in DOMAIN h[s].routes /\ DesiredRoutes(h)[o] = h[s].routes[o]
                \/ ~DesiredRoutes(h)[o].enabled
  <2>1. o \in Models /\ Accepted(h, o) # {}
    BY <1>4, DesiredDomains
  <2>2. CASE o \in DOMAIN h[s].routes
    <3>1. DesiredRoutes(h)[o] = h[s].routes[o]
      BY <1>1, <2>1, <2>2 DEF DesiredRoutes
    <3>2. h[s].routes \in Table(Models, Route)
      BY <1>1, <1>2
    <3>3. h[s].routes[o] \in Route
      BY <2>2, <3>2, TableElim
    <3> QED
      BY <2>2, <3>1, <3>3
  <2>3. CASE o \notin DOMAIN h[s].routes
    <3> DEFINE i == Newest(Accepted(h, o))
    <3>1. Accepted(h, o) \in SUBSET (1 .. s)
      BY <1>1 DEF Accepted
    <3>2. i \in Accepted(h, o)
      BY <1>1, <2>1, <3>1, NewestIn
    <3>3. i \in 1 .. s /\ o \in DOMAIN h[i].routes
      BY <3>1, <3>2 DEF Accepted
    <3>4. h[i].routes[o] \in Route
      BY <1>2, <3>3, TableElim
    <3>5. DesiredRoutes(h)[o] = [def |-> h[i].routes[o].def, enabled |-> FALSE]
      BY <1>1, <2>1, <2>3 DEF DesiredRoutes
    <3> HIDE DEF h, i
    <3> QED
      BY <3>4, <3>5 DEF Route
  <2> QED
    BY <2>2, <2>3
<1>5. ASSUME o \notin DOMAIN DesiredRoutes(h) PROVE DesiredPolicies(h)[o] \in Rule
  <2>1. o \in DOMAIN DesiredPolicies(h)
    BY <1>5, DesiredDomains
  <2>2. o \in DOMAIN h[s].limits /\ DesiredPolicies(h)[o] = h[s].limits[o]
    BY <1>1, <2>1 DEF DesiredPolicies, EmptyTable
  <2>3. h[s].limits \in Table(Limits, Rule)
    BY <1>1, <1>2
  <2> HIDE DEF h
  <2> QED
    BY <2>2, <2>3, TableElim
<1>6. o \in Models => o \in DOMAIN DesiredRoutes(h)
  BY DesiredDomains, RelayAssumption
<1> HIDE DEF h
<1>7. Desired(s)[o] \in Specs
  BY <1>3, <1>4, <1>5 DEF Specs
<1>8. o \in Models => Desired(s)[o] = DesiredRoutes(h)[o]
  BY <1>3, <1>6
<1>9. o \in Models => \/ o \in DOMAIN h[s].routes /\ DesiredRoutes(h)[o] = h[s].routes[o]
                      \/ ~DesiredRoutes(h)[o].enabled
  BY <1>4, <1>6
<1> QED
  BY <1>1, <1>7, <1>8, <1>9 DEF h
-----------------------------------------------------------------------------
(* Intents are only added. *)

\* A new intent with payload p: earlier rows stay, and selected limits with all
\* captured rules stay selected.
Selected(p) ==
    /\ Len(intents') = Len(intents) + 1
    /\ intents'[Len(intents) + 1].payload = p
    /\ \A i \in Seqs : intents'[i] = intents[i] /\ status'[i] = status[i]
    /\ status'[Len(intents) + 1].phase = "queued" /\ status'[Len(intents) + 1].code = ""
    /\ claim' = claim
    /\ intents # <<>> /\ Latest.payload.selected =>
          p.selected /\ DOMAIN Latest.payload.limits \subseteq DOMAIN p.limits

LEMMA InsertKeeps ==
    ASSUME TypeOK,
           NEW key \in Keys \cup {"system"}, NEW revision \in Revisions \cup {"derived"},
           NEW payload \in Payload, NEW born \in [Models -> Nat],
           InsertPublication(key, revision, payload, born)
    PROVE  /\ Len(intents') = Len(intents) + 1
           /\ intents'[Len(intents) + 1].payload = payload
           /\ \A i \in Seqs : intents'[i] = intents[i] /\ status'[i] = status[i]
           /\ status'[Len(intents) + 1].phase = "queued" /\ status'[Len(intents) + 1].code = ""
<1> DEFINE row == [key |-> key, revision |-> revision, payload |-> payload, born |-> born]
<1>1. intents \in Seq(Intent) /\ row \in Intent
  BY DEF TypeOK, Intent
<1>2. intents' = Append(intents, row)
  BY DEF InsertPublication
<1>3. row.payload = payload
  OBVIOUS
<1> HIDE DEF row
<1>4. \A i \in 1 .. Len(intents) : intents'[i] = intents[i]
  BY <1>1, <1>2, AppendProperties
<1>5. Len(intents') = Len(intents) + 1 /\ intents'[Len(intents) + 1] = row
  BY <1>1, <1>2, AppendProperties
<1>6. /\ \A i \in Seqs : status'[i] = status[i]
      /\ status'[Len(intents) + 1].phase = "queued" /\ status'[Len(intents) + 1].code = ""
  BY InsertTyped
<1> QED
  BY <1>3, <1>4, <1>5, <1>6 DEF Seqs

\* Publications, replays and withdrawals are the only steps that select an intent.
LEMMA IntentsMove ==
    ASSUME LedgerInvariant, [Next]_ledgerVars
    PROVE  UNCHANGED intents \/ \E p \in Payload : Selected(p)
<1>0. TypeOK /\ RulesTracked
  BY DEF LedgerInvariant
<1> DEFINE Goal == UNCHANGED intents \/ \E p \in Payload : Selected(p)
<1>1. ASSUME NEW k \in Keys, NEW r \in Revisions \cup {"derived"}, NEW b \in Inclusions, QueueGatewayPublication(k, r, b)
      PROVE  Goal
  <2>1. Captured(b) \in Payload /\ epoch \in [Models -> Nat]
    BY <1>0, CapturedTyped, LedgerAssumption DEF TypeOK
  <2>2. intents # <<>> /\ Latest.payload.selected =>
           Captured(b).selected /\ DOMAIN Latest.payload.limits \subseteq DOMAIN Captured(b).limits
    BY <1>0 DEF Captured, DraftLimits, RulesTracked
  <2>3. Selected(Captured(b))
    BY <1>0, <1>1, <2>1, <2>2, InsertKeeps DEF QueueGatewayPublication, Selected
  <2> QED
    BY <2>1, <2>3
<1>2. ASSUME NEW k \in Keys, NEW i \in Seqs, ReplayDataPlanePublication(k, i) PROVE Goal
  <2>1. intents[i] \in Intent
    BY <1>0, ElementOfSeq DEF TypeOK, Seqs
  <2>2. /\ intents[i].payload \in Payload /\ intents[i].born \in [Models -> Nat]
        /\ intents[i].revision \in Revisions \cup {"derived"}
    BY <2>1 DEF Intent
  <2>3. intents[i] = Latest
    BY <1>2 DEF ReplayDataPlanePublication, Replayable, Latest
  <2>4. Selected(intents[i].payload)
    BY <1>0, <1>2, <2>2, <2>3, InsertKeeps DEF ReplayDataPlanePublication, Selected
  <2> QED
    BY <2>2, <2>4
<1>3. ASSUME QueueReferenceInvalidations PROVE Goal
  <2>1. CASE intents # <<>> /\ Invalidated(Latest.payload) # Latest.payload
    <3>1. Latest.payload \in Payload /\ Latest.born \in [Models -> Nat]
      BY <1>0, <2>1, LatestTyped
    <3>2. Invalidated(Latest.payload) \in Payload
      BY <1>0, <2>1, <3>1, InvalidatedTyped DEF RulesTracked
    <3>3. /\ Invalidated(Latest.payload).selected <=> Latest.payload.selected
          /\ DOMAIN Invalidated(Latest.payload).limits = DOMAIN Latest.payload.limits
      BY <3>1 DEF Invalidated, Payload
    <3>4. InsertPublication("system", "derived", Invalidated(Latest.payload), Latest.born) /\ claim' = claim
      BY <1>3, <2>1 DEF QueueReferenceInvalidations
    <3>5. Selected(Invalidated(Latest.payload))
      BY <1>0, <3>1, <3>2, <3>3, <3>4, InsertKeeps DEF Selected
    <3> QED
      BY <3>2, <3>5
  <2>2. CASE ~(intents # <<>> /\ Invalidated(Latest.payload) # Latest.payload)
    BY <1>3, <2>2 DEF QueueReferenceInvalidations
  <2> QED
    BY <2>1, <2>2
<1>4. ASSUME Administration PROVE Goal
  <2>1. ASSUME NEW m \in Models, NEW d \in Defs, NEW e \in Switches, PutModel(m, d, e) PROVE UNCHANGED intents
    BY <2>1 DEF PutModel
  <2>2. ASSUME NEW m \in Models, DeleteModel(m) PROVE UNCHANGED intents
    BY <2>2 DEF DeleteModel
  <2>3. ASSUME NEW l \in Limits, NEW refs \in Scopes, NEW e \in Switches, PutLimit(l, refs, e) PROVE UNCHANGED intents
    BY <2>3 DEF PutLimit
  <2>4. ASSUME NEW l \in Limits, DeleteLimit(l) PROVE UNCHANGED intents
    BY <2>4 DEF DeleteLimit
  <2>5. ASSUME NEW u \in Subjects, DeleteSubject(u) \/ CreateSubject(u) PROVE UNCHANGED intents
    BY <2>5 DEF DeleteSubject, CreateSubject
  <2> HIDE DEF Goal
  <2>6. UNCHANGED intents => Goal
    BY DEF Goal
  <2> QED
    BY <1>1, <1>2, <1>4, <2>1, <2>2, <2>3, <2>4, <2>5, <2>6 DEF Administration
<1>5. ASSUME NEW w \in Workers, ClaimDataPlanePublication(w) \/ ForgetClaim(w)
                 \/ \E o \in Outcomes : FinishDataPlanePublication(w, o)
      PROVE  Goal
  BY <1>5 DEF ClaimDataPlanePublication, ForgetClaim, FinishDataPlanePublication
<1>6. ASSUME Passage PROVE Goal
  BY <1>6 DEF Passage, LeaseExpires, RetryDue
<1>7. ASSUME UNCHANGED ledgerVars PROVE Goal
  BY <1>7 DEF ledgerVars
<1> HIDE DEF Goal
<1>8. Goal
  BY <1>3, <1>4, <1>5, <1>6, <1>7 DEF Next
<1> QED
  BY <1>8 DEF Goal

\* Intents that are there stay as they are, and so does what they ask for.
LEMMA IntentsStay ==
    ASSUME LedgerInvariant, [Next]_ledgerVars
    PROVE  /\ Len(intents) \in Nat /\ Len(intents') \in Nat /\ Len(intents) <= Len(intents')
           /\ \A s \in Seqs : s \in Seqs' /\ intents'[s] = intents[s]
  <1>1. intents \in Seq(Intent)
    BY DEF LedgerInvariant, TypeOK
  <1>2. Len(intents) \in Nat
    BY <1>1
  <1>3. CASE UNCHANGED intents
    BY <1>2, <1>3 DEF Seqs
  <1>4. ASSUME NEW p \in Payload, Selected(p)
        PROVE  /\ Len(intents') \in Nat /\ Len(intents) <= Len(intents')
               /\ \A s \in Seqs : s \in Seqs' /\ intents'[s] = intents[s]
    <2>1. Len(intents') = Len(intents) + 1
      BY <1>4 DEF Selected
    <2>2. \A s \in Seqs : s \in Seqs'
      BY <1>2, <2>1 DEF Seqs
    <2>3. \A s \in Seqs : intents'[s] = intents[s]
      BY <1>4, Zenon DEF Selected
    <2> QED
      BY <1>2, <2>1, <2>2, <2>3
  <1> QED
    BY <1>2, <1>3, <1>4, IntentsMove

LEMMA DesiredStays ==
    ASSUME LedgerInvariant, [Next]_ledgerVars, NEW s \in Seqs
    PROVE  Prefix(s)' = Prefix(s) /\ Desired(s)' = Desired(s)
<1>1. \A i \in 1 .. s : intents'[i] = intents[i]
  BY IntentsStay DEF Seqs
<1>2. Prefix(s)' = Prefix(s)
  BY <1>1 DEF Prefix
<1>3. Desired(s)' = DesiredOf(Prefix(s)')
  BY DEF Desired
<1> QED
  BY <1>2, <1>3 DEF Desired

\* An operation asks for everything that an earlier one asked for.
LEMMA DesiredGrows ==
    ASSUME TypeOK, PoliciesGrow, NEW s \in Seqs, NEW t \in Seqs, s <= t
    PROVE  DOMAIN Desired(s) \subseteq DOMAIN Desired(t)
<1>1. ASSUME NEW m \in Models, Accepted(Prefix(s), m) # {} PROVE Accepted(Prefix(t), m) # {}
  <2>1. PICK i \in 1 .. s : m \in DOMAIN Prefix(s)[i].routes /\ Prefix(s)[i].routes[m].def \notin Unrepresentable
    BY <1>1, PrefixTyped DEF Accepted
  <2>2. i \in 1 .. t /\ Prefix(t)[i] = Prefix(s)[i]
    BY <2>1, PrefixTyped
  <2> QED
    BY <2>1, <2>2, PrefixTyped DEF Accepted
<1>2. DOMAIN DesiredPolicies(Prefix(s)) \subseteq DOMAIN DesiredPolicies(Prefix(t))
  BY DesiredDomains DEF PoliciesGrow
<1> QED
  BY <1>1, <1>2, DesiredDomains
-----------------------------------------------------------------------------
(* The relay takes steps of the ledger. *)

LEMMA LedgerStep ==
    ASSUME ClusterTyped, [RelayNext]_vars
    PROVE  [Next]_ledgerVars
<1> DEFINE Goal == [Next]_ledgerVars
<1>1. UNCHANGED ledgerVars => Goal
  OBVIOUS
<1>2. Administration => Goal
  BY DEF Next
<1>3. ASSUME NEW w \in Workers, Step(w) PROVE Goal
  <2>1. ASSUME Invalidate(w) PROVE Goal
    BY <2>1 DEF Invalidate, Next
  <2>2. ASSUME StepClaim(w) PROVE Goal
    BY <2>2 DEF StepClaim, Next
  <2>3. ASSUME StepFinish(w) PROVE Goal
    <3>1. work[w].outcome \in Outcomes
      BY DEF ClusterTyped, WorkRecord
    <3>2. FinishDataPlanePublication(w, work[w].outcome)
      BY <2>3 DEF StepFinish
    <3> QED
      BY <3>1, <3>2 DEF Next
  <2>4. ASSUME NEW o \in Children, SkipWrite(w, o) \/ Write(w, o) PROVE UNCHANGED ledgerVars
    BY <2>4 DEF SkipWrite, Write
  <2>5. ASSUME Open(w) \/ List(w) \/ Verify(w) \/ Stamp(w) \/ Update(w) \/ Confirm(w) PROVE UNCHANGED ledgerVars
    BY <2>5 DEF Open, List, Verify, Stamp, Update, Confirm
  <2> HIDE DEF Goal
  <2> QED
    BY <1>1, <1>3, <2>1, <2>2, <2>3, <2>4, <2>5 DEF Step
<1>4. ASSUME NEW w \in Workers, Disturbance(w) PROVE Goal
  <2>1. ASSUME Crash(w) PROVE Goal
    BY <2>1 DEF Crash, Next
  <2>2. ASSUME LockBusy(w) \/ LoseUpdate(w) \/ ApiError(w) PROVE UNCHANGED ledgerVars
    BY <2>2 DEF LockBusy, LoseUpdate, ApiError
  <2>3. ASSUME NEW o \in Children, LoseWrite(w, o) PROVE UNCHANGED ledgerVars
    BY <2>3 DEF LoseWrite
  <2> HIDE DEF Goal
  <2> QED
    BY <1>1, <1>4, <2>1, <2>2, <2>3 DEF Disturbance
<1>5. ASSUME NEW r \in late, Arrive(r) PROVE UNCHANGED ledgerVars
  BY <1>5 DEF Arrive
<1>6. ASSUME NEW o \in Objects, OperatorTouch(o) PROVE UNCHANGED ledgerVars
  BY <1>6 DEF OperatorTouch
<1>7. ASSUME NEW i \in Seqs, LeaseLapses(i) \/ Due(i) PROVE Goal
  BY <1>7 DEF LeaseLapses, Due, Next, Passage
<1>8. UNCHANGED vars => UNCHANGED ledgerVars
  BY DEF vars
<1> HIDE DEF Goal
<1>9. Goal
  BY <1>1, <1>2, <1>3, <1>4, <1>5, <1>6, <1>7, <1>8 DEF RelayNext
<1> QED
  BY <1>9 DEF Goal

\* Limits stay selected whatever is selected next.
LEMMA PoliciesStep ==
    ASSUME LedgerInvariant, PoliciesGrow, [Next]_ledgerVars
    PROVE  PoliciesGrow'
<1>1. Len(intents) \in Nat
  BY DEF LedgerInvariant, TypeOK
<1>2. CASE UNCHANGED intents
  BY <1>2 DEF PoliciesGrow, Seqs
<1>3. ASSUME NEW p \in Payload, Selected(p) PROVE PoliciesGrow'
  <2> DEFINE n == Len(intents)
  <2>1. Seqs' = Seqs \cup {n + 1}
    <3>1. Len(intents') = Len(intents) + 1
      BY <1>3 DEF Selected
    <3>2. 1 .. (n + 1) = (1 .. n) \cup {n + 1}
      BY ONLY <1>1
    <3> QED
      BY <3>1, <3>2 DEF Seqs
  <2>2. \A i \in Seqs : intents'[i] = intents[i]
    BY <1>3 DEF Selected
  <2>3. intents'[n + 1].payload = p
    BY <1>3 DEF Selected
  <2> SUFFICES ASSUME NEW i \in Seqs', NEW j \in Seqs', i <= j, intents'[i].payload.selected
               PROVE  /\ intents'[j].payload.selected
                      /\ DOMAIN intents'[i].payload.limits \subseteq DOMAIN intents'[j].payload.limits
    BY DEF PoliciesGrow
  <2>4. CASE j \in Seqs
    <3>1. i \in Seqs
      BY <1>1, <2>1, <2>4 DEF Seqs
    <3> QED
      BY <2>2, <2>4, <3>1 DEF PoliciesGrow
  <2>5. CASE j = n + 1 /\ i = n + 1
    BY <2>5
  <2>6. CASE j = n + 1 /\ i \in Seqs
    <3>1. n \in Seqs /\ i <= n /\ intents # <<>> /\ intents[n] = Latest
      BY <1>1, <2>6 DEF Seqs, Latest
    <3>2. Latest.payload.selected /\ DOMAIN intents[i].payload.limits \subseteq DOMAIN Latest.payload.limits
      BY <2>2, <2>6, <3>1 DEF PoliciesGrow
    <3>3. p.selected /\ DOMAIN Latest.payload.limits \subseteq DOMAIN p.limits
      BY <1>3, <3>1, <3>2 DEF Selected
    <3> QED
      BY <2>2, <2>3, <2>6, <3>2, <3>3
  <2> QED
    BY <2>1, <2>4, <2>5, <2>6
<1> QED
  BY <1>2, <1>3, IntentsMove
-----------------------------------------------------------------------------
(* Objects only move forward. *)

Forward ==
    \A o \in Objects :
        /\ cr'[o].rv >= cr[o].rv /\ cr'[o].marker >= cr[o].marker
        /\ cr'[o].rv = cr[o].rv => cr'[o] = cr[o]

\* A busy worker holds a claim on an operation of the ledger.
LEMMA BusyClaims ==
    ASSUME LedgerInvariant, ClaimsFollow, NEW w \in Workers, work[w].pc \notin {"idle", "claim"}
    PROVE  claim[w].seq \in Seqs /\ claim[w] # NoClaim
  BY DEF LedgerInvariant, ClaimsFollow, ClaimsDistinct

LEMMA ClusterNumbers ==
    ASSUME ClusterTyped
    PROVE  /\ \A o \in Objects : cr[o].rv \in Nat /\ cr[o].marker \in Nat
           /\ \A r \in late : r.rv \in Nat /\ r.marker \in Nat /\ r.object \in Objects
  BY DEF ClusterTyped, ObjectRecord, RequestRecord

\* What is in place stays in place.
LEMMA PlacedStays ==
    ASSUME LedgerInvariant, [Next]_ledgerVars, ClusterTyped, ClusterTyped', Forward, NEW s \in Seqs
    PROVE  /\ Placed(s) => Placed(s)'
           /\ \A o \in Objects : cr[o].marker >= s => cr'[o].marker >= s
           /\ s \in Nat
<1>1. Desired(s)' = Desired(s) /\ DOMAIN Desired(s) \subseteq Objects
  BY DesiredStays, DesiredDomains DEF LedgerInvariant, Objects
<1>2. s \in Nat
  BY DEF Seqs
<1>3. \A o \in Objects : cr[o].marker >= s => cr'[o].marker >= s
  BY <1>2, ClusterNumbers DEF Forward, ClusterTyped, ObjectRecord
<1> QED
  BY <1>1, <1>2, <1>3 DEF Placed

\* Requests on their way stay good or are outrun.
LEMMA RequestsStay ==
    ASSUME LedgerInvariant, [Next]_ledgerVars, ClusterTyped, ClusterTyped', Forward,
           NEW r \in RequestRecord, RequestOK(r)
    PROVE  RequestOK(r)'
<1>1. r.marker \in Seqs /\ r.marker \in Seqs' /\ Desired(r.marker)' = Desired(r.marker)
  BY DesiredStays, IntentsStay DEF RequestOK
<1>2. r.object \in Objects /\ r.rv \in Nat /\ r.marker \in Nat
  BY DEF RequestRecord
<1>3. /\ cr[r.object].rv \in Nat /\ cr'[r.object].rv \in Nat
      /\ cr'[r.object].rv >= cr[r.object].rv
      /\ cr'[r.object].rv = cr[r.object].rv => cr'[r.object] = cr[r.object]
  BY <1>2 DEF ClusterTyped, ObjectRecord, Forward
<1>4. r.rv <= cr'[r.object].rv
  BY <1>2, <1>3 DEF RequestOK
<1>5. r.rv = cr'[r.object].rv => cr'[r.object].marker <= r.marker
  <2> SUFFICES ASSUME r.rv = cr'[r.object].rv PROVE cr'[r.object].marker <= r.marker
    OBVIOUS
  <2>1. cr'[r.object].rv = cr[r.object].rv
    BY <1>2, <1>3 DEF RequestOK
  <2> QED
    BY <1>3, <2>1 DEF RequestOK
<1>6. r.object = "deployment" => Placed(r.marker)'
  BY <1>1, PlacedStays DEF RequestOK
<1>7. r.object \in Children => r.object \in DOMAIN Desired(r.marker)' /\ r.spec = Desired(r.marker)'[r.object]
  BY <1>1 DEF RequestOK
<1> QED
  BY <1>1, <1>4, <1>5, <1>6, <1>7 DEF RequestOK

\* What a worker knows after a step.
LEMMA PointIsWorker ==
    ASSUME LedgerInvariant, [Next]_ledgerVars, NEW w \in Workers, NEW s \in Seqs, claim'[w].seq = s,
           PointOK(work'[w], s, cr', DOMAIN Desired(s), Len(intents'))
    PROVE  WorkerOK(w)'
<1>1. DesiredOf([i \in 1 .. s |-> intents'[i].payload]) = Desired(s)
  BY DesiredStays DEF Desired, Prefix
<1> QED
  BY <1>1 DEF WorkerOK, Desired, Prefix

\* What was true of a worker's point stays true while objects move forward.
LEMMA PointStays ==
    ASSUME cr \in [Objects -> ObjectRecord], cr' \in [Objects -> ObjectRecord], Forward,
           NEW q \in WorkRecord, NEW s \in Nat, NEW D \in SUBSET Objects,
           NEW n \in Nat, NEW m \in Nat, n <= m, PointOK(q, s, cr, D, n)
    PROVE  PointOK(q, s, cr', D, m)
<1> DEFINE kind == IF q.stage = "routes" THEN Models ELSE Limits
<1>1. kind \subseteq Objects /\ Children \subseteq Objects /\ "deployment" \in Objects
  BY DEF Children, Objects
<1>2. q.view \in Table(Objects, ObjectRecord) /\ q.done \subseteq Children
  BY DEF WorkRecord
<1>3. \A o \in DOMAIN q.view : q.view[o] \in ObjectRecord /\ o \in Objects
  BY <1>2, TableElim
<1>4. \A o \in Objects : cr[o].marker >= s => cr'[o].marker >= s
  BY DEF Forward, ObjectRecord
<1>5. ASSUME NEW v \in ObjectRecord, NEW o \in Objects, Precedes(v, cr[o]) PROVE Precedes(v, cr'[o])
  <2>1. /\ v.rv \in Nat /\ v.marker \in Nat /\ cr[o].rv \in Nat /\ cr[o].marker \in Nat
        /\ cr'[o].rv \in Nat /\ cr'[o].marker \in Nat
    BY DEF ObjectRecord
  <2> QED
    BY <1>5, <2>1 DEF Precedes, Forward
<1>6. q.pc = "write" =>
            /\ DOMAIN q.view = kind
            /\ \A o \in kind : Precedes(q.view[o], cr'[o])
            /\ \A o \in q.done : cr'[o].marker >= s
  BY <1>1, <1>2, <1>3, <1>4, <1>5 DEF PointOK
<1>7. q.pc = "update" =>
            /\ DOMAIN q.view = {"deployment"}
            /\ Precedes(q.view["deployment"], cr'["deployment"])
            /\ q.view["deployment"].marker <= s
  BY <1>1, <1>3, <1>5 DEF PointOK
<1>8. s < n => s < m
  OBVIOUS
<1>9. \A o \in D : cr[o].marker >= s => cr'[o].marker >= s
  BY <1>4
<1> QED
  BY <1>1, <1>4, <1>6, <1>7, <1>8, <1>9 DEF PointOK

\* So do workers that do nothing.
LEMMA WorkersStay ==
    ASSUME LedgerInvariant, [Next]_ledgerVars, ClusterTyped, cr' \in [Objects -> ObjectRecord],
           ClaimsFollow, Forward,
           NEW w \in Workers, WorkerOK(w), work'[w] = work[w], claim'[w] = claim[w]
    PROVE  WorkerOK(w)'
<1> DEFINE s == claim[w].seq
           D == DOMAIN Desired(s)
<1>1. CASE work[w].pc \in {"idle", "claim"}
  BY <1>1 DEF WorkerOK, PointOK
<1>2. CASE work[w].pc \notin {"idle", "claim"}
  <2>1. s \in Seqs /\ s \in Nat
    BY <1>2, BusyClaims DEF Seqs
  <2>2. D \in SUBSET Objects
    BY <2>1, DesiredDomains DEF LedgerInvariant, Objects
  <2>3. Len(intents) <= Len(intents') /\ Len(intents) \in Nat /\ Len(intents') \in Nat
    BY IntentsStay
  <2>4. work[w] \in WorkRecord /\ cr \in [Objects -> ObjectRecord]
    BY DEF ClusterTyped
  <2>5. PointOK(work[w], s, cr, D, Len(intents))
    BY DEF WorkerOK
  <2> HIDE DEF s, D
  <2>6. PointOK(work[w], s, cr', D, Len(intents'))
    BY <2>1, <2>2, <2>3, <2>4, <2>5, PointStays
  <2> QED
    BY <2>1, <2>6, PointIsWorker DEF s, D
<1> QED
  BY <1>1, <1>2
-----------------------------------------------------------------------------
(* Program points. *)

LEMMA IdleRecord == Idle \in WorkRecord /\ Idle.pc = "idle" /\ Idle.stage = "routes"
<1>1. EmptyTable \in Table(Objects, ObjectRecord)
  BY EmptyIsTable
<1> QED
  BY <1>1 DEF Idle, WorkRecord, Points, Outcomes

LEMMA ReturnRecord ==
    ASSUME NEW outcome \in Outcomes
    PROVE  LET q == [Idle EXCEPT !.pc = "finish", !.outcome = outcome]
           IN  q \in WorkRecord /\ q.pc = "finish" /\ q.outcome = outcome
<1>1. EmptyTable \in Table(Objects, ObjectRecord)
  BY EmptyIsTable
<1> QED
  BY <1>1 DEF Idle, WorkRecord, Points, Outcomes

LEMMA PoliciesRecord ==
    LET q == [Idle EXCEPT !.pc = "list", !.stage = "policies"]
    IN  q \in WorkRecord /\ q.pc = "list" /\ q.stage = "policies"
<1>1. EmptyTable \in Table(Objects, ObjectRecord)
  BY EmptyIsTable
<1> QED
  BY <1>1 DEF Idle, WorkRecord, Points, Outcomes

LEMMA ToRecord ==
    ASSUME NEW p \in WorkRecord, NEW pc \in Points
    PROVE  LET q == [p EXCEPT !.pc = pc, !.view = EmptyTable, !.done = {}]
           IN  q \in WorkRecord /\ q.pc = pc /\ q.stage = p.stage
<1>1. EmptyTable \in Table(Objects, ObjectRecord)
  BY EmptyIsTable
<1> QED
  BY <1>1 DEF WorkRecord

LEMMA ListRecord ==
    ASSUME NEW p \in WorkRecord, NEW v \in Table(Objects, ObjectRecord)
    PROVE  LET q == [p EXCEPT !.pc = "write", !.done = {}, !.view = v]
           IN  q \in WorkRecord /\ q.pc = "write" /\ q.stage = p.stage /\ q.view = v /\ q.done = {}
  BY DEF WorkRecord, Points

LEMMA UpdateRecord ==
    ASSUME NEW p \in WorkRecord, NEW v \in Table(Objects, ObjectRecord)
    PROVE  LET q == [p EXCEPT !.pc = "update", !.view = v]
           IN  q \in WorkRecord /\ q.pc = "update" /\ q.view = v
  BY DEF WorkRecord, Points

LEMMA DoneRecord ==
    ASSUME NEW p \in WorkRecord, NEW o \in Children
    PROVE  LET q == [p EXCEPT !.done = @ \cup {o}]
           IN  /\ q \in WorkRecord /\ q.pc = p.pc /\ q.stage = p.stage /\ q.view = p.view
               /\ q.done = p.done \cup {o}
  BY DEF WorkRecord

\* One worker moves, the others stand still.
LEMMA GotoMoves ==
    ASSUME ClusterTyped, NEW w \in Workers, NEW q \in WorkRecord, Goto(w, q)
    PROVE  /\ work' \in [Workers -> WorkRecord] /\ work'[w] = q
           /\ \A x \in Workers \ {w} : work'[x] = work[x]
  BY DEF Goto, ClusterTyped
-----------------------------------------------------------------------------
(* Requests. *)

LEMMA ViewTyped ==
    ASSUME ClusterTyped, NEW w \in Workers, NEW o \in DOMAIN work[w].view
    PROVE  work[w].view[o] \in ObjectRecord /\ o \in Objects
<1>1. work[w].view \in Table(Objects, ObjectRecord)
  BY DEF ClusterTyped, WorkRecord
<1> QED
  BY <1>1, TableElim

\* What the worker knows of itself while it writes.
LEMMA WritingKnows ==
    ASSUME LedgerInvariant, ClusterTyped, ClaimsFollow, NEW w \in Workers, WorkerOK(w), At(w, "write")
    PROVE  /\ claim[w].seq \in Seqs /\ claim[w].seq \in Nat /\ claim[w].seq >= 1
           /\ Staged(w) \subseteq DOMAIN Desired(claim[w].seq)
           /\ Staged(w) \subseteq Kind(w) /\ Staged(w) \subseteq Children
           /\ DOMAIN work[w].view = Kind(w)
           /\ \A o \in Kind(w) : Precedes(work[w].view[o], cr[o])
           /\ \A o \in work[w].done : cr[o].marker >= claim[w].seq
<1>1. claim[w].seq \in Seqs
  BY BusyClaims DEF At
<1>2. claim[w].seq \in Nat /\ claim[w].seq >= 1
  BY <1>1 DEF Seqs
<1>3. Staged(w) \subseteq Kind(w) /\ Staged(w) \subseteq Children /\ Staged(w) \subseteq DOMAIN Desired(claim[w].seq)
  BY DEF Staged, Kind, Children
<1> QED
  BY <1>1, <1>2, <1>3 DEF WorkerOK, PointOK, Kind, At

\* Requests for children are what their operation asks for, at the version read.
LEMMA WriteRequest ==
    ASSUME LedgerInvariant, ClusterTyped, ClaimsFollow, NEW w \in Workers, WorkerOK(w),
           NEW o \in Children, Writing(w, o), ~Newer(work[w].view[o], claim[w].seq)
    PROVE  LET r == Request(o, work[w].view[o], claim[w].seq)
           IN  r \in RequestRecord /\ RequestOK(r) /\ r.object = o /\ r.marker = claim[w].seq
<1> DEFINE s == claim[w].seq
           v == work[w].view[o]
           r == Request(o, v, s)
<1>1. /\ s \in Seqs /\ s \in Nat /\ o \in DOMAIN Desired(s) /\ o \in DOMAIN work[w].view
      /\ Precedes(v, cr[o])
  BY WritingKnows DEF Writing
<1>2. v \in ObjectRecord /\ o \in Objects
  BY <1>1, ViewTyped
<1>3. o # "deployment"
  BY RelayAssumption DEF Children
<1>4. Desired(s)[o] \in Specs
  BY <1>1, DesiredTyped DEF LedgerInvariant
<1>5. r = [object |-> o, rv |-> v.rv, marker |-> s, spec |-> Desired(s)[o]]
  BY <1>3 DEF Request
<1>6. v.rv \in Nat /\ v.marker \in Nat /\ cr[o].rv \in Nat /\ cr[o].marker \in Nat
  BY <1>2 DEF ClusterTyped, ObjectRecord
<1>7. v.marker <= s
  BY <1>1, <1>6 DEF Newer
<1> HIDE DEF s, v, r
<1>8. r \in RequestRecord /\ r.object = o /\ r.marker = s /\ r.rv = v.rv /\ r.spec = Desired(s)[o]
  BY <1>1, <1>2, <1>4, <1>5, <1>6 DEF RequestRecord
<1>9. r.rv <= cr[o].rv /\ (r.rv = cr[o].rv => cr[o].marker <= s)
  BY <1>1, <1>6, <1>7, <1>8 DEF Precedes
<1>10. RequestOK(r)
  BY <1>1, <1>3, <1>8, <1>9 DEF RequestOK
<1> QED
  BY <1>8, <1>10 DEF r, s, v

\* Requests for the aggregate are sent when everything is in place.
LEMMA StampRequest ==
    ASSUME LedgerInvariant, ClusterTyped, ClaimsFollow, NEW w \in Workers, WorkerOK(w), At(w, "update")
    PROVE  LET r == Request("deployment", work[w].view["deployment"], claim[w].seq)
           IN  r \in RequestRecord /\ RequestOK(r) /\ r.object = "deployment" /\ r.marker = claim[w].seq
<1> DEFINE s == claim[w].seq
           v == work[w].view["deployment"]
           r == Request("deployment", v, s)
<1>1. /\ s \in Seqs /\ s \in Nat /\ DOMAIN work[w].view = {"deployment"}
      /\ Precedes(v, cr["deployment"]) /\ v.marker <= s /\ Placed(s)
  BY BusyClaims DEF WorkerOK, PointOK, Placed, At, Seqs
<1>2. v \in ObjectRecord /\ "deployment" \in Objects
  BY <1>1, ViewTyped
<1>3. "deployment" \notin Children
  BY RelayAssumption DEF Children
<1>5. r = [object |-> "deployment", rv |-> v.rv, marker |-> s, spec |-> NoSpec]
  BY DEF Request
<1>6. /\ v.rv \in Nat /\ v.marker \in Nat
      /\ cr["deployment"].rv \in Nat /\ cr["deployment"].marker \in Nat
  BY <1>2 DEF ClusterTyped, ObjectRecord
<1> HIDE DEF s, v, r
<1>8. r \in RequestRecord /\ r.object = "deployment" /\ r.marker = s /\ r.rv = v.rv
  BY <1>1, <1>2, <1>5, <1>6 DEF RequestRecord, Specs
<1>9. r.rv <= cr["deployment"].rv /\ (r.rv = cr["deployment"].rv => cr["deployment"].marker <= s)
  BY <1>1, <1>6, <1>8 DEF Precedes
<1>10. RequestOK(r)
  BY <1>1, <1>3, <1>8, <1>9 DEF RequestOK
<1> QED
  BY <1>8, <1>10 DEF r, s, v
-----------------------------------------------------------------------------
(* What a step does to the cluster. *)

\* The operator touches a status, or a good request is accepted, or nothing
\* happens to the objects; requests left behind are good.
ClusterStep ==
    /\ \/ UNCHANGED cr
       \/ \E o \in Objects : cr[o].rv > 0 /\ cr' = [cr EXCEPT ![o].rv = @ + 1]
       \/ \E r \in RequestRecord : RequestOK(r) /\ Accepts(r) /\ Applied(r)
    /\ \A r \in late' : r \in late \/ (r \in RequestRecord /\ RequestOK(r))

LEMMA ClusterMoves ==
    ASSUME LedgerInvariant, RelayInductive, [RelayNext]_vars
    PROVE  ClusterStep
<1>0. /\ ClusterTyped /\ ClaimsFollow
      /\ \A w \in Workers : WorkerOK(w)
      /\ \A r \in late : RequestOK(r)
  BY DEF RelayInductive
<1>1. UNCHANGED <<cr, late>> => ClusterStep
  BY DEF ClusterStep
<1>2. ASSUME NEW w \in Workers, Step(w) PROVE ClusterStep
  <2>1. ASSUME Invalidate(w) \/ StepClaim(w) \/ Open(w) \/ List(w) \/ Verify(w) \/ Stamp(w) \/ Confirm(w) \/ StepFinish(w)
        PROVE  UNCHANGED <<cr, late>>
    BY <2>1 DEF Invalidate, StepClaim, Open, List, Verify, Stamp, Confirm, StepFinish
  <2>2. ASSUME NEW o \in Children, SkipWrite(w, o) PROVE UNCHANGED <<cr, late>>
    BY <2>2 DEF SkipWrite
  <2>3. ASSUME NEW o \in Children, Write(w, o) PROVE ClusterStep
    <3> DEFINE r == Request(o, work[w].view[o], claim[w].seq)
    <3>1. r \in RequestRecord /\ RequestOK(r)
      BY <1>0, <2>3, WriteRequest DEF Write
    <3>2. (UNCHANGED cr \/ (Accepts(r) /\ Applied(r))) /\ UNCHANGED late
      BY <2>3 DEF Write
    <3> HIDE DEF r
    <3> QED
      BY <3>1, <3>2 DEF ClusterStep
  <2>4. ASSUME Update(w) PROVE ClusterStep
    <3> DEFINE r == Request("deployment", work[w].view["deployment"], claim[w].seq)
    <3>1. r \in RequestRecord /\ RequestOK(r)
      BY <1>0, <2>4, StampRequest DEF Update
    <3>2. (UNCHANGED cr \/ (Accepts(r) /\ Applied(r))) /\ UNCHANGED late
      BY <2>4 DEF Update
    <3> HIDE DEF r
    <3> QED
      BY <3>1, <3>2 DEF ClusterStep
  <2> QED
    BY <1>1, <1>2, <2>1, <2>2, <2>3, <2>4, Zenon DEF Step
<1>3. ASSUME NEW w \in Workers, Disturbance(w) PROVE ClusterStep
  <2>1. ASSUME LockBusy(w) \/ ApiError(w) \/ Crash(w) PROVE UNCHANGED <<cr, late>>
    BY <2>1 DEF LockBusy, ApiError, Crash
  <2>2. ASSUME NEW o \in Children, LoseWrite(w, o) PROVE ClusterStep
    <3> DEFINE r == Request(o, work[w].view[o], claim[w].seq)
    <3>1. r \in RequestRecord /\ RequestOK(r)
      BY <1>0, <2>2, WriteRequest DEF LoseWrite
    <3>2. UNCHANGED cr /\ (late' = late \/ late' = late \cup {r})
      BY <2>2 DEF LoseWrite
    <3> HIDE DEF r
    <3> QED
      BY <3>1, <3>2 DEF ClusterStep
  <2>3. ASSUME LoseUpdate(w) PROVE ClusterStep
    <3> DEFINE r == Request("deployment", work[w].view["deployment"], claim[w].seq)
    <3>1. r \in RequestRecord /\ RequestOK(r)
      BY <1>0, <2>3, StampRequest DEF LoseUpdate
    <3>2. UNCHANGED cr /\ late' = late \cup {r}
      BY <2>3 DEF LoseUpdate
    <3> HIDE DEF r
    <3> QED
      BY <3>1, <3>2 DEF ClusterStep
  <2> QED
    BY <1>1, <1>3, <2>1, <2>2, <2>3, Zenon DEF Disturbance
<1>4. ASSUME NEW r \in late, Arrive(r) PROVE ClusterStep
  <2>1. r \in RequestRecord /\ RequestOK(r)
    BY <1>0 DEF ClusterTyped
  <2> QED
    BY <1>4, <2>1 DEF Arrive, ClusterStep
<1>5. ASSUME NEW o \in Objects, OperatorTouch(o) PROVE ClusterStep
  BY <1>5 DEF OperatorTouch, ClusterStep
<1>6. ASSUME NEW i \in Seqs, LeaseLapses(i) \/ Due(i) PROVE UNCHANGED <<cr, late>>
  BY <1>6 DEF LeaseLapses, Due, relayVars
<1>7. UNCHANGED relayVars => UNCHANGED <<cr, late>>
  BY DEF relayVars
<1>8. UNCHANGED vars => UNCHANGED relayVars
  BY DEF vars
<1> QED
  BY <1>1, <1>2, <1>3, <1>4, <1>5, <1>6, <1>7, <1>8, Zenon DEF RelayNext

\* Objects and requests keep their types and objects move forward.
LEMMA ClusterForward ==
    ASSUME ClusterTyped, ClusterStep
    PROVE  cr' \in [Objects -> ObjectRecord] /\ late' \subseteq RequestRecord /\ Forward
<1>1. late' \subseteq RequestRecord
  BY DEF ClusterTyped, ClusterStep
<1>2. CASE UNCHANGED cr
  <2>1. \A o \in Objects : cr[o].rv \in Nat /\ cr[o].marker \in Nat
    BY ClusterNumbers
  <2>2. Forward
    BY <1>2, <2>1 DEF Forward
  <2> QED
    BY <1>1, <1>2, <2>2 DEF ClusterTyped
<1>3. ASSUME NEW o \in Objects, cr' = [cr EXCEPT ![o].rv = @ + 1]
      PROVE  cr' \in [Objects -> ObjectRecord] /\ Forward
  <2>1. \A x \in Objects : cr[x] \in ObjectRecord /\ cr[x].rv \in Nat /\ cr[x].marker \in Nat
    BY DEF ClusterTyped, ObjectRecord
  <2>2. cr'[o] = [cr[o] EXCEPT !.rv = cr[o].rv + 1] /\ \A x \in Objects \ {o} : cr'[x] = cr[x]
    BY <1>3 DEF ClusterTyped
  <2>3. cr'[o] \in ObjectRecord /\ cr'[o].rv = cr[o].rv + 1 /\ cr'[o].marker = cr[o].marker
    BY <2>1, <2>2 DEF ObjectRecord
  <2>4. cr' \in [Objects -> ObjectRecord]
    BY <1>3, <2>1, <2>2, <2>3 DEF ClusterTyped
  <2>5. ASSUME NEW x \in Objects
        PROVE  /\ cr'[x].rv >= cr[x].rv /\ cr'[x].marker >= cr[x].marker
               /\ cr'[x].rv = cr[x].rv => cr'[x] = cr[x]
    <3>1. CASE x = o
      BY <2>1, <2>3, <3>1
    <3>2. CASE x # o
      BY <2>1, <2>2, <3>2
    <3> QED
      BY <3>1, <3>2
  <2> QED
    BY <2>4, <2>5 DEF Forward
<1>4. ASSUME NEW r \in RequestRecord, RequestOK(r), Accepts(r), Applied(r)
      PROVE  cr' \in [Objects -> ObjectRecord] /\ Forward
  <2>1. \A x \in Objects : cr[x] \in ObjectRecord /\ cr[x].rv \in Nat /\ cr[x].marker \in Nat
    BY DEF ClusterTyped, ObjectRecord
  <2>2. r.object \in Objects /\ r.rv \in Nat /\ r.marker \in Nat /\ r.spec \in Specs
    BY DEF RequestRecord
  <2>3. /\ cr'[r.object] = [rv |-> r.rv + 1, marker |-> r.marker, spec |-> r.spec]
        /\ \A x \in Objects \ {r.object} : cr'[x] = cr[x]
    BY <1>4, <2>2 DEF ClusterTyped, Applied
  <2>4. cr'[r.object] \in ObjectRecord /\ cr'[r.object].rv = r.rv + 1 /\ cr'[r.object].marker = r.marker
    BY <2>2, <2>3 DEF ObjectRecord
  <2>5. cr' \in [Objects -> ObjectRecord]
    BY <1>4, <2>1, <2>2, <2>3, <2>4 DEF ClusterTyped, Applied
  <2>6. cr[r.object].rv = r.rv /\ cr[r.object].marker <= r.marker
    BY <1>4 DEF Accepts, RequestOK
  <2> QED
    BY <2>1, <2>2, <2>3, <2>4, <2>5, <2>6 DEF Forward
<1> QED
  BY <1>1, <1>2, <1>3, <1>4 DEF ClusterStep

\* Markers stay operations of the ledger, specs follow them, and the aggregate
\* comes last.
LEMMA ClusterKept ==
    ASSUME LedgerInvariant, [Next]_ledgerVars, ClusterTyped, ClusterStep,
           ObjectsMarked, SpecFollowsMarker, AggregateStampedLast
    PROVE  ObjectsMarked' /\ SpecFollowsMarker' /\ AggregateStampedLast'
<1>0. cr' \in [Objects -> ObjectRecord] /\ Forward
  BY ClusterForward
<1>1. /\ Len(intents) \in Nat /\ Len(intents') \in Nat /\ Len(intents) <= Len(intents')
      /\ \A s \in Seqs : s \in Seqs' /\ Desired(s)' = Desired(s) /\ DOMAIN Desired(s) \subseteq Children
  BY IntentsStay, DesiredStays, DesiredDomains DEF LedgerInvariant
<1> DEFINE After(s) == DesiredOf([i \in 1 .. s |-> intents'[i].payload])
<1>a. \A s \in Seqs : After(s) = Desired(s)
  BY <1>1 DEF Desired, Prefix
<1>2. \A x \in Objects : /\ cr[x].rv \in Nat /\ cr[x].marker \in Nat
                         /\ cr'[x].rv \in Nat /\ cr'[x].marker \in Nat
  BY <1>0 DEF ClusterTyped, ObjectRecord
<1>3. Children \subseteq Objects /\ "deployment" \in Objects /\ "deployment" \notin Children
  BY RelayAssumption DEF Children, Objects
<1> DEFINE Same(x) == cr'[x].marker = cr[x].marker /\ cr'[x].spec = cr[x].spec /\ (cr'[x].rv > 0 => cr[x].rv > 0)
           Written(x) == /\ cr'[x].marker \in Seqs /\ cr'[x].rv > 0
                         /\ x \in Children => /\ x \in DOMAIN Desired(cr'[x].marker)
                                              /\ cr'[x].spec = Desired(cr'[x].marker)[x]
                         /\ x = "deployment" => Placed(cr'[x].marker)
<1>4. \A x \in Objects : Same(x) \/ Written(x)
  <2>1. CASE UNCHANGED cr
    BY <2>1
  <2>2. ASSUME NEW o \in Objects, cr' = [cr EXCEPT ![o].rv = @ + 1], \A x \in Objects : cr[x] \in ObjectRecord,
               cr[o].rv > 0
        PROVE  \A x \in Objects : Same(x)
    <3>1. cr'[o] = [cr[o] EXCEPT !.rv = cr[o].rv + 1] /\ \A x \in Objects \ {o} : cr'[x] = cr[x]
      BY <2>2 DEF ClusterTyped
    <3>2. cr'[o].marker = cr[o].marker /\ cr'[o].spec = cr[o].spec
      BY <2>2, <3>1 DEF ObjectRecord
    <3> QED
      BY <2>2, <3>1, <3>2
  <2>3. ASSUME NEW r \in RequestRecord, RequestOK(r), Accepts(r), Applied(r)
        PROVE  \A x \in Objects : Same(x) \/ Written(x)
    <3>1. r.object \in Objects /\ r.rv \in Nat
      BY DEF RequestRecord
    <3>2. /\ cr'[r.object] = [rv |-> r.rv + 1, marker |-> r.marker, spec |-> r.spec]
          /\ \A x \in Objects \ {r.object} : cr'[x] = cr[x]
      BY <2>3, <3>1 DEF ClusterTyped, Applied
    <3>3. cr'[r.object].marker = r.marker /\ cr'[r.object].spec = r.spec /\ cr'[r.object].rv > 0
      BY <3>1, <3>2
    <3>4. Written(r.object)
      BY <2>3, <3>3 DEF RequestOK
    <3> QED
      BY <3>2, <3>4
  <2> QED
    BY <2>1, <2>2, <2>3 DEF ClusterStep, ClusterTyped
<1> HIDE DEF Same, Written
<1>5. ObjectsMarked'
  <2> SUFFICES ASSUME NEW o \in Objects
               PROVE  cr'[o].marker <= Len(intents') /\ (o \in Children /\ cr'[o].rv = 0 => cr'[o].marker = 0)
    BY DEF ObjectsMarked
  <2>1. CASE Same(o)
    BY <1>0, <1>1, <1>2, <2>1 DEF Same, ObjectsMarked, Forward
  <2>2. CASE Written(o)
    BY <1>1, <1>2, <2>2 DEF Written, Seqs
  <2> QED
    BY <1>4, <2>1, <2>2
<1>6. SpecFollowsMarker'
  <2> SUFFICES ASSUME NEW o \in Children, cr'[o].rv > 0
               PROVE  /\ cr'[o].marker \in Seqs'
                      /\ o \in DOMAIN After(cr'[o].marker)
                      /\ cr'[o].spec = After(cr'[o].marker)[o]
    BY DEF SpecFollowsMarker, Exists, Desired, Prefix
  <2> HIDE DEF After
  <2>1. CASE Same(o)
    BY <1>1, <1>a, <2>1 DEF Same, SpecFollowsMarker, Exists
  <2>2. CASE Written(o)
    BY <1>1, <1>a, <2>2 DEF Written
  <2> QED
    BY <1>3, <1>4, <2>1, <2>2
<1>7. AggregateStampedLast'
  <2> DEFINE d == cr'["deployment"].marker
  <2> SUFFICES ASSUME d > 0, NEW o \in DOMAIN After(d) PROVE cr'[o].marker >= d
    BY DEF AggregateStampedLast, Desired, Prefix
  <2> HIDE DEF After
  <2>1. d \in Seqs
    BY <1>2, <1>3, <1>4 DEF Same, Written, ObjectsMarked, Seqs
  <2>2. o \in DOMAIN Desired(d) /\ o \in Objects
    BY <1>1, <1>3, <1>a, <2>1
  <2>3. cr[o].marker >= d
    BY <1>3, <1>4, <2>2 DEF Same, Written, Placed, AggregateStampedLast
  <2> QED
    BY <1>0, <1>2, <1>3, <2>2, <2>3 DEF Forward
<1> QED
  BY <1>5, <1>6, <1>7
-----------------------------------------------------------------------------
(* What a step does to its worker. *)

\* Worker w moves to a point it may be at, the others stand still.
Moves(w) ==
    /\ work' \in [Workers -> WorkRecord]
    /\ \A x \in Workers \ {w} : work'[x] = work[x] /\ claim'[x] = claim[x]
    /\ claim'[w] = NoClaim <=> work'[w].pc \in {"idle", "claim"}
    /\ WorkerOK(w)'

LEMMA IdleMove ==
    ASSUME ClusterTyped, NEW w \in Workers, NEW q \in WorkRecord, Goto(w, q),
           q.pc \in {"idle", "claim"}, q.stage = "routes", claim'[w] = NoClaim,
           \A x \in Workers \ {w} : claim'[x] = claim[x]
    PROVE  Moves(w)
<1>1. /\ work' \in [Workers -> WorkRecord] /\ work'[w] = q
      /\ \A x \in Workers \ {w} : work'[x] = work[x]
  BY GotoMoves
<1>2. WorkerOK(w)'
  BY <1>1 DEF WorkerOK, PointOK
<1> QED
  BY <1>1, <1>2 DEF Moves

LEMMA BusyMove ==
    ASSUME LedgerInvariant, ClusterTyped, ClaimsFollow, UNCHANGED ledgerVars,
           NEW w \in Workers, work[w].pc \notin {"idle", "claim"},
           NEW q \in WorkRecord, Goto(w, q), q.pc \notin {"idle", "claim"},
           PointOK(q, claim[w].seq, cr', DOMAIN Desired(claim[w].seq), Len(intents))
    PROVE  Moves(w)
<1>1. /\ work' \in [Workers -> WorkRecord] /\ work'[w] = q
      /\ \A x \in Workers \ {w} : work'[x] = work[x]
  BY GotoMoves
<1>2. claim' = claim /\ intents' = intents
  BY DEF ledgerVars
<1>3. claim[w].seq \in Seqs /\ claim[w] # NoClaim
  BY BusyClaims
<1>4. WorkerOK(w)'
  BY <1>1, <1>2, <1>3, PointIsWorker
<1> QED
  BY <1>1, <1>2, <1>3, <1>4 DEF Moves

LEMMA ReturnMove ==
    ASSUME LedgerInvariant, ClusterTyped, ClaimsFollow, UNCHANGED ledgerVars,
           NEW w \in Workers, work[w].pc \notin {"idle", "claim"},
           NEW outcome \in Outcomes, Return(w, outcome),
           outcome = "projected" => cr'["deployment"].marker >= claim[w].seq,
           outcome = "ownership" => claim[w].seq < Len(intents)
    PROVE  Moves(w)
<1> DEFINE q == [Idle EXCEPT !.pc = "finish", !.outcome = outcome]
<1>1. q \in WorkRecord /\ q.pc = "finish" /\ q.outcome = outcome
  BY ReturnRecord
<1>2. Goto(w, q)
  BY DEF Return
<1> HIDE DEF q
<1>3. PointOK(q, claim[w].seq, cr', DOMAIN Desired(claim[w].seq), Len(intents))
  BY <1>1 DEF PointOK
<1> QED
  BY <1>1, <1>2, <1>3, BusyMove

\* An object the operation does not ask for was written for a newer one.
LEMMA StrangerIsNewer ==
    ASSUME LedgerInvariant, RelayInductive, NEW s \in Seqs, NEW o \in Children,
           Exists(o), o \notin DOMAIN Desired(s)
    PROVE  s < Len(intents)
<1>1. cr[o].marker \in Seqs /\ o \in DOMAIN Desired(cr[o].marker)
  BY DEF RelayInductive, SpecFollowsMarker
<1>2. ~(cr[o].marker <= s)
  BY <1>1, DesiredGrows DEF LedgerInvariant, RelayInductive
<1>3. Len(intents) \in Nat
  BY IntentsStay DEF LedgerInvariant, TypeOK
<1> QED
  BY <1>1, <1>2, <1>3 DEF Seqs

LEMMA TransactionMove ==
    ASSUME LedgerInvariant, RelayInductive, NEW w \in Workers,
           Invalidate(w) \/ StepClaim(w) \/ LockBusy(w) \/ StepFinish(w) \/ Crash(w)
    PROVE  Moves(w)
<1>0. ClusterTyped /\ ClaimsFollow /\ WorkerOK(w) /\ work[w] \in WorkRecord
  BY DEF RelayInductive, ClusterTyped
<1> DEFINE q(pc) == [work[w] EXCEPT !.pc = pc, !.view = EmptyTable, !.done = {}]
<1>1. \A pc \in Points : q(pc) \in WorkRecord /\ q(pc).pc = pc /\ q(pc).stage = work[w].stage
  BY <1>0, ToRecord
<1>2. Idle \in WorkRecord /\ Idle.pc = "idle" /\ Idle.stage = "routes"
  BY IdleRecord
<1>3. ASSUME NEW pc, To(w, pc) PROVE Goto(w, q(pc))
  BY <1>3 DEF To
<1> HIDE DEF q
<1>4. work[w].pc \in {"idle", "claim"} => work[w].stage = "routes" /\ claim[w] = NoClaim
  BY <1>0 DEF WorkerOK, PointOK, ClaimsFollow
<1>5. claim \in [Workers -> Claim]
  BY DEF LedgerInvariant, TypeOK
<1>6. CASE Invalidate(w)
  <2>1. To(w, "claim") /\ claim' = claim /\ work[w].pc = "idle"
    BY <1>6 DEF Invalidate, QueueReferenceInvalidations, ledgerVars, At
  <2>2. Goto(w, q("claim")) /\ q("claim") \in WorkRecord /\ q("claim").pc = "claim" /\ q("claim").stage = "routes"
    BY <1>1, <1>3, <1>4, <2>1 DEF Points
  <2> QED
    BY <1>0, <1>4, <2>1, <2>2, IdleMove
<1>7. CASE StepClaim(w)
  <2>1. work[w].pc = "claim" /\ \A x \in Workers \ {w} : claim'[x] = claim[x]
    BY <1>5, <1>7 DEF StepClaim, ClaimDataPlanePublication, ledgerVars, At
  <2>2. CASE claim'[w] = NoClaim
    <3>1. Goto(w, Idle)
      BY <1>7, <2>2 DEF StepClaim
    <3> QED
      BY <1>0, <1>2, <2>1, <2>2, <3>1, IdleMove
  <2>3. CASE claim'[w] # NoClaim
    <3>1. To(w, "open")
      BY <1>7, <2>3 DEF StepClaim
    <3>2. Goto(w, q("open")) /\ q("open") \in WorkRecord /\ q("open").pc = "open" /\ q("open").stage = "routes"
      BY <1>1, <1>3, <1>4, <2>1, <3>1 DEF Points
    <3>3. /\ work' \in [Workers -> WorkRecord] /\ work'[w] = q("open")
          /\ \A x \in Workers \ {w} : work'[x] = work[x]
      BY <1>0, <3>2, GotoMoves
    <3>4. WorkerOK(w)'
      BY <3>2, <3>3 DEF WorkerOK, PointOK
    <3> QED
      BY <2>1, <2>3, <3>2, <3>3, <3>4 DEF Moves
  <2> QED
    BY <2>2, <2>3
<1>8. CASE LockBusy(w)
  <2>1. claim' = claim
    BY <1>8 DEF LockBusy, ledgerVars
  <2>2. CASE work[w].pc = "idle" /\ To(w, "claim")
    <3>1. Goto(w, q("claim")) /\ q("claim") \in WorkRecord /\ q("claim").pc = "claim" /\ q("claim").stage = "routes"
      BY <1>1, <1>3, <1>4, <2>2 DEF Points
    <3> QED
      BY <1>0, <1>4, <2>1, <2>2, <3>1, IdleMove
  <2>3. CASE work[w].pc = "claim" /\ Goto(w, Idle)
    BY <1>0, <1>2, <1>4, <2>1, <2>3, IdleMove
  <2> QED
    BY <1>8, <2>2, <2>3 DEF LockBusy, At
<1>9. CASE StepFinish(w)
  <2>1. claim' = [claim EXCEPT ![w] = NoClaim] /\ Goto(w, Idle)
    BY <1>9 DEF StepFinish, FinishDataPlanePublication
  <2>2. claim'[w] = NoClaim /\ \A x \in Workers \ {w} : claim'[x] = claim[x]
    BY <1>5, <2>1
  <2> QED
    BY <1>0, <1>2, <2>1, <2>2, IdleMove
<1>10. CASE Crash(w)
  <2>1. claim' = [claim EXCEPT ![w] = NoClaim] /\ Goto(w, Idle)
    BY <1>10 DEF Crash, ForgetClaim
  <2>2. claim'[w] = NoClaim /\ \A x \in Workers \ {w} : claim'[x] = claim[x]
    BY <1>5, <2>1
  <2> QED
    BY <1>0, <1>2, <2>1, <2>2, IdleMove
<1> QED
  BY <1>6, <1>7, <1>8, <1>9, <1>10
LEMMA LostMove ==
    ASSUME LedgerInvariant, RelayInductive, NEW w \in Workers,
           ApiError(w) \/ LoseUpdate(w) \/ \E o \in Children : LoseWrite(w, o)
    PROVE  Moves(w)
<1>0. ClusterTyped /\ ClaimsFollow
  BY DEF RelayInductive
<1>1. Return(w, "retry") /\ UNCHANGED ledgerVars /\ work[w].pc \notin {"idle", "claim"}
  BY DEF ApiError, LoseUpdate, LoseWrite, Writing, At
<1>2. "retry" \in Outcomes
  BY DEF Outcomes
<1> QED
  BY <1>0, <1>1, <1>2, ReturnMove

LEMMA OpenMove ==
    ASSUME LedgerInvariant, RelayInductive, NEW w \in Workers, Open(w)
    PROVE  Moves(w)
<1>0. ClusterTyped /\ ClaimsFollow /\ WorkerOK(w) /\ work[w] \in WorkRecord
  BY DEF RelayInductive, ClusterTyped
<1>1. UNCHANGED ledgerVars /\ work[w].pc = "open"
  BY DEF Open, At
<1>2. "invalid" \in Outcomes /\ "superseded" \in Outcomes /\ "list" \in Points
  BY DEF Outcomes, Points
<1>3. Return(w, "invalid") \/ Return(w, "superseded") \/ To(w, "list")
  BY DEF Open
<1>4. CASE Return(w, "invalid") \/ Return(w, "superseded")
  BY <1>0, <1>1, <1>2, <1>4, ReturnMove
<1>5. CASE To(w, "list")
  <2> DEFINE q == [work[w] EXCEPT !.pc = "list", !.view = EmptyTable, !.done = {}]
  <2>1. q \in WorkRecord /\ q.pc = "list" /\ q.stage = work[w].stage
    BY <1>0, <1>2, ToRecord
  <2>2. Goto(w, q)
    BY <1>5 DEF To
  <2>3. work[w].stage = "routes"
    BY <1>0, <1>1 DEF WorkerOK, PointOK
  <2> HIDE DEF q
  <2>4. PointOK(q, claim[w].seq, cr', DOMAIN Desired(claim[w].seq), Len(intents))
    BY <2>1, <2>3 DEF PointOK
  <2> QED
    BY <1>0, <1>1, <2>1, <2>2, <2>4, BusyMove
<1> QED
  BY <1>3, <1>4, <1>5

LEMMA ListMove ==
    ASSUME LedgerInvariant, RelayInductive, NEW w \in Workers, List(w)
    PROVE  Moves(w)
<1> DEFINE s == claim[w].seq
           kind == IF work[w].stage = "routes" THEN Models ELSE Limits
           v == [o \in kind |-> cr[o]]
           q == [work[w] EXCEPT !.pc = "write", !.done = {}, !.view = v]
<1>0. ClusterTyped /\ ClaimsFollow /\ WorkerOK(w) /\ work[w] \in WorkRecord
  BY DEF RelayInductive, ClusterTyped
<1>1. UNCHANGED ledgerVars /\ cr' = cr /\ work[w].pc = "list"
  BY DEF List, At
<1>2. s \in Seqs
  BY <1>0, <1>1, BusyClaims
<1>3. CASE work[w].stage = "policies" /\ (\E l \in Limits \ Staged(w) : cr[l].rv > 0) /\ Return(w, "ownership")
  <2>1. PICK l \in Limits \ Staged(w) : cr[l].rv > 0
    BY <1>3
  <2>2. l \notin DOMAIN Desired(s) /\ l \in Children
    BY <1>3, <2>1 DEF Staged, Children
  <2>3. s < Len(intents)
    BY <1>2, <2>1, <2>2, StrangerIsNewer DEF Exists
  <2> QED
    BY <1>0, <1>1, <1>3, <2>3, ReturnMove DEF Outcomes
<1>4. CASE Goto(w, q)
  <2>1. kind \in SUBSET Objects /\ \A o \in Objects : cr[o] \in ObjectRecord
    BY <1>0 DEF Objects, Children, ClusterTyped
  <2>2. v \in [kind -> ObjectRecord]
    BY <2>1
  <2>3. v \in Table(Objects, ObjectRecord)
    BY <2>1, <2>2, TableIntro
  <2>4. \A o \in kind : v[o] = cr[o] /\ cr[o].rv \in Nat /\ cr[o].marker \in Nat
    BY <2>1 DEF ObjectRecord
  <2>5. DOMAIN v = kind
    OBVIOUS
  <2> HIDE DEF v
  <2>6. q \in WorkRecord /\ q.pc = "write" /\ q.stage = work[w].stage /\ q.view = v /\ q.done = {}
    BY <1>0, <2>3, ListRecord
  <2> HIDE DEF q
  <2>7. work[w].stage = "policies" => \A o \in DOMAIN Desired(s) \cap Models : cr[o].marker >= s
    BY <1>0, <1>1 DEF WorkerOK, PointOK
  <2>8. PointOK(q, s, cr', DOMAIN Desired(s), Len(intents))
    BY <1>1, <2>4, <2>5, <2>6, <2>7 DEF PointOK, Precedes
  <2> QED
    BY <1>0, <1>1, <1>4, <2>6, <2>8, BusyMove
<1> QED
  BY <1>3, <1>4 DEF List

\* An object is done when it was found as asked for, or written.
LEMMA DoneMove ==
    ASSUME LedgerInvariant, RelayInductive, NEW w \in Workers, NEW o \in Children, At(w, "write"), Done(w, o),
           UNCHANGED ledgerVars, cr' \in [Objects -> ObjectRecord], Forward, cr'[o].marker >= claim[w].seq
    PROVE  Moves(w)
<1> DEFINE s == claim[w].seq
           D == DOMAIN Desired(s)
           q == [work[w] EXCEPT !.done = @ \cup {o}]
<1>0. ClusterTyped /\ ClaimsFollow /\ WorkerOK(w) /\ work[w] \in WorkRecord /\ cr \in [Objects -> ObjectRecord]
  BY DEF RelayInductive, ClusterTyped
<1>1. work[w].pc = "write"
  BY DEF At
<1>2. s \in Seqs /\ s \in Nat
  BY <1>0, <1>1, BusyClaims DEF Seqs
<1>3. D \in SUBSET Objects /\ Len(intents) \in Nat
  BY <1>2, DesiredDomains, IntentsStay DEF LedgerInvariant, Objects, ledgerVars
<1>4. PointOK(work[w], s, cr, D, Len(intents))
  BY <1>0 DEF WorkerOK
<1>5. /\ q \in WorkRecord /\ q.pc = "write" /\ q.stage = work[w].stage /\ q.view = work[w].view
      /\ q.done = work[w].done \cup {o}
  BY <1>0, <1>1, DoneRecord
<1>6. Goto(w, q)
  BY DEF Done
<1> HIDE DEF s, D, q
<1>7. PointOK(work[w], s, cr', D, Len(intents))
  BY <1>0, <1>2, <1>3, <1>4, PointStays
<1>8. cr'[o].marker >= s
  BY DEF s
<1>9. PointOK(q, s, cr', D, Len(intents))
  BY <1>1, <1>5, <1>7, <1>8 DEF PointOK
<1> QED
  BY <1>0, <1>1, <1>5, <1>6, <1>9, BusyMove DEF s, D

LEMMA WriteMove ==
    ASSUME LedgerInvariant, RelayInductive, NEW w \in Workers, NEW o \in Children,
           SkipWrite(w, o) \/ Write(w, o), cr' \in [Objects -> ObjectRecord], Forward
    PROVE  Moves(w)
<1> DEFINE s == claim[w].seq
           r == Request(o, work[w].view[o], s)
<1>0. ClusterTyped /\ ClaimsFollow /\ WorkerOK(w)
  BY DEF RelayInductive
<1>1. UNCHANGED ledgerVars /\ At(w, "write") /\ work[w].pc \notin {"idle", "claim"} /\ o \in Staged(w)
  BY DEF SkipWrite, Write, Writing, At
<1>2. "superseded" \in Outcomes /\ "invalid" \in Outcomes /\ "retry" \in Outcomes
  BY DEF Outcomes
<1>3. CASE Return(w, "superseded") \/ Return(w, "invalid") \/ Return(w, "retry")
  BY <1>0, <1>1, <1>2, <1>3, ReturnMove
<1>4. CASE UpToDate(w, o) /\ Done(w, o) /\ cr' = cr
  <2>1. /\ s \in Nat /\ o \in DOMAIN work[w].view /\ Precedes(work[w].view[o], cr[o])
        /\ work[w].view[o].marker = s
    BY <1>0, <1>1, <1>4, WritingKnows DEF UpToDate
  <2>2. cr[o].marker \in Nat
    BY <1>0, ClusterNumbers DEF Objects
  <2>3. cr'[o].marker >= s
    BY <1>4, <2>1, <2>2 DEF Precedes
  <2> QED
    BY <1>1, <1>4, <2>3, DoneMove
<1>5. CASE ~Newer(work[w].view[o], s) /\ Writing(w, o) /\ Applied(r) /\ Done(w, o)
  <2>1. r.object = o /\ r.marker = s
    BY <1>0, <1>5, WriteRequest
  <2>2. cr'[o].marker = s
    BY <1>0, <1>5, <2>1 DEF Applied, ClusterTyped, Objects
  <2>3. s \in Nat
    BY <1>0, <1>1, WritingKnows
  <2> QED
    BY <1>1, <1>5, <2>2, <2>3, DoneMove
<1> QED
  BY <1>3, <1>4, <1>5 DEF SkipWrite, Write
\* With every object of the stage done, the re-read finds the stage in place, or
\* a newer operation.
LEMMA VerifyMove ==
    ASSUME LedgerInvariant, RelayInductive, NEW w \in Workers, Verify(w)
    PROVE  Moves(w)
<1> DEFINE s == claim[w].seq
           D == DOMAIN Desired(s)
           strangers == work[w].stage = "policies" /\ {l \in Limits : cr[l].rv > 0} # Staged(w)
           bad == {o \in Staged(w) : Verdict(o, s) # "projected"}
           l0 == [Idle EXCEPT !.pc = "list", !.stage = "policies"]
           q0 == [work[w] EXCEPT !.pc = "stamp", !.view = EmptyTable, !.done = {}]
<1>0. /\ ClusterTyped /\ ClaimsFollow /\ WorkerOK(w) /\ ObjectsMarked /\ SpecFollowsMarker
      /\ work[w] \in WorkRecord /\ PoliciesGrow /\ TypeOK
  BY DEF RelayInductive, ClusterTyped, LedgerInvariant
<1>1. /\ UNCHANGED ledgerVars /\ cr' = cr /\ At(w, "write") /\ work[w].pc = "write"
      /\ Staged(w) \subseteq work[w].done
  BY DEF Verify, At
<1>2. /\ s \in Seqs /\ s \in Nat /\ s >= 1 /\ Staged(w) \subseteq D /\ Staged(w) \subseteq Children
      /\ \A o \in work[w].done : cr[o].marker >= s
  BY <1>0, <1>1, WritingKnows
<1>3. ASSUME NEW o \in Staged(w)
      PROVE  /\ cr[o].rv > 0 /\ cr[o].marker >= s
             /\ Verdict(o, s) \in {"superseded", "projected"}
             /\ Verdict(o, s) # "superseded" => cr[o].marker = s
  <2>1. o \in Children /\ o \in Objects /\ cr[o].marker \in Nat /\ cr[o].rv \in Nat
    BY <1>0, <1>2, ClusterNumbers DEF Objects
  <2>2. cr[o].marker >= s
    BY <1>1, <1>2
  <2>3. cr[o].rv > 0
    BY <1>0, <1>2, <2>1, <2>2 DEF ObjectsMarked
  <2>4. cr[o].spec = Desired(cr[o].marker)[o]
    BY <1>0, <2>1, <2>3 DEF SpecFollowsMarker, Exists
  <2>5. CASE cr[o].marker > s
    BY <1>2, <2>1, <2>2, <2>3, <2>5 DEF Verdict, Newer
  <2>6. CASE cr[o].marker = s
    <3>1. cr[o].spec = Desired(s)[o] /\ ~Newer(cr[o], s)
      BY <1>2, <2>4, <2>6 DEF Newer
    <3>2. Verdict(o, s) = "projected"
      BY <2>1, <2>3, <2>6, <3>1 DEF Verdict
    <3> QED
      BY <2>2, <2>3, <2>6, <3>2
  <2> QED
    BY <1>2, <2>1, <2>2, <2>3, <2>5, <2>6
<1>4. CASE strangers /\ Return(w, "ownership")
  <2>1. PICK l \in Limits : cr[l].rv > 0 /\ l \notin Staged(w)
    BY <1>0, <1>3, <1>4 DEF Staged
  <2>2. l \notin D /\ l \in Children
    BY <1>4, <2>1 DEF Staged, Children
  <2>3. s < Len(intents)
    BY <1>2, <2>1, <2>2, StrangerIsNewer DEF Exists
  <2> QED
    BY <1>0, <1>1, <1>4, <2>3, ReturnMove DEF Outcomes
<1>5. ASSUME NEW o \in bad, Return(w, Verdict(o, s)) PROVE Moves(w)
  <2>1. Verdict(o, s) = "superseded"
    BY <1>3, <1>5
  <2> QED
    BY <1>0, <1>1, <1>5, <2>1, ReturnMove DEF Outcomes
<1>6. \A o \in Staged(w) : cr[o].marker >= s
  BY <1>3
<1>7. Staged(w) = D \cap (IF work[w].stage = "routes" THEN Models ELSE Limits) /\ D \subseteq Children
  BY <1>0, <1>2, DesiredDomains DEF Staged
<1>8. CASE work[w].stage = "routes" /\ intents[s].payload.selected /\ Goto(w, l0)
  <2>1. l0 \in WorkRecord /\ l0.pc = "list" /\ l0.stage = "policies"
    BY PoliciesRecord
  <2>2. \A o \in D \cap Models : cr'[o].marker >= s
    BY <1>1, <1>6, <1>7, <1>8
  <2> HIDE DEF l0, s, D
  <2>3. PointOK(l0, s, cr', D, Len(intents))
    BY <2>1, <2>2 DEF PointOK
  <2> QED
    BY <1>0, <1>1, <1>8, <2>1, <2>3, BusyMove DEF s, D
<1>9. CASE ~(work[w].stage = "routes" /\ intents[s].payload.selected) /\ To(w, "stamp")
  <2>1. q0 \in WorkRecord /\ q0.pc = "stamp"
    BY <1>0, ToRecord DEF Points
  <2>2. Goto(w, q0)
    BY <1>9 DEF To
  <2>3. ASSUME NEW o \in D PROVE cr'[o].marker >= s
    <3>1. CASE work[w].stage = "routes"
      <4>1. D = DOMAIN DesiredRoutes(Prefix(s)) /\ DOMAIN DesiredRoutes(Prefix(s)) \subseteq Models
        BY <1>0, <1>2, <1>9, <3>1, DesiredDomains
      <4> QED
        BY <1>1, <1>6, <1>7, <3>1, <4>1
    <3>2. CASE work[w].stage = "policies"
      <4>1. \A x \in D \cap Models : cr[x].marker >= s
        BY <1>0, <1>1, <3>2 DEF WorkerOK, PointOK
      <4> QED
        BY <1>1, <1>6, <1>7, <3>2, <4>1 DEF Children
    <3>3. work[w].stage \in {"routes", "policies"}
      BY <1>0 DEF WorkRecord
    <3> QED
      BY <3>1, <3>2, <3>3
  <2> HIDE DEF q0, s, D
  <2>4. PointOK(q0, s, cr', D, Len(intents))
    BY <2>1, <2>3 DEF PointOK
  <2> QED
    BY <1>0, <1>1, <2>1, <2>2, <2>4, BusyMove DEF s, D
<1> QED
  BY <1>4, <1>5, <1>8, <1>9 DEF Verify

LEMMA StampMove ==
    ASSUME LedgerInvariant, RelayInductive, NEW w \in Workers, Stamp(w)
    PROVE  Moves(w)
<1> DEFINE s == claim[w].seq
           D == DOMAIN Desired(s)
           live == cr["deployment"]
           v == [o \in {"deployment"} |-> live]
           q0 == [work[w] EXCEPT !.pc = "confirm", !.view = EmptyTable, !.done = {}]
           u0 == [work[w] EXCEPT !.pc = "update", !.view = v]
<1>0. ClusterTyped /\ ClaimsFollow /\ WorkerOK(w) /\ work[w] \in WorkRecord
  BY DEF RelayInductive, ClusterTyped
<1>1. UNCHANGED ledgerVars /\ cr' = cr /\ work[w].pc = "stamp"
  BY DEF Stamp, At
<1>2. s \in Seqs /\ s \in Nat
  BY <1>0, <1>1, BusyClaims DEF Seqs
<1>3. live \in ObjectRecord /\ live.rv \in Nat /\ live.marker \in Nat
  BY <1>0 DEF ClusterTyped, Objects, ObjectRecord
<1>4. \A o \in D : cr'[o].marker >= s
  BY <1>0, <1>1 DEF WorkerOK, PointOK
<1>5. CASE Return(w, "superseded")
  BY <1>0, <1>1, <1>5, ReturnMove DEF Outcomes
<1>6. CASE live.marker = s /\ To(w, "confirm")
  <2>1. q0 \in WorkRecord /\ q0.pc = "confirm"
    BY <1>0, ToRecord DEF Points
  <2>2. Goto(w, q0)
    BY <1>6 DEF To
  <2>3. cr'["deployment"].marker >= s
    BY <1>1, <1>2, <1>6
  <2> HIDE DEF q0, s, D
  <2>4. PointOK(q0, s, cr', D, Len(intents))
    BY <1>4, <2>1, <2>3 DEF PointOK
  <2> QED
    BY <1>0, <1>1, <2>1, <2>2, <2>4, BusyMove DEF s, D
<1>7. CASE ~Newer(live, s) /\ Goto(w, u0)
  <2>1. v \in [{"deployment"} -> ObjectRecord] /\ {"deployment"} \in SUBSET Objects
    BY <1>3 DEF Objects
  <2>2. v \in Table(Objects, ObjectRecord)
    BY <2>1, TableIntro
  <2>3. DOMAIN v = {"deployment"} /\ v["deployment"] = live /\ live.marker <= s
    BY <1>2, <1>3, <1>7 DEF Newer
  <2> HIDE DEF v
  <2>4. u0 \in WorkRecord /\ u0.pc = "update" /\ u0.view = v
    BY <1>0, <2>2, UpdateRecord
  <2>5. Precedes(live, cr'["deployment"])
    BY <1>1, <1>3 DEF Precedes
  <2> HIDE DEF u0, s, D, live
  <2>6. PointOK(u0, s, cr', D, Len(intents))
    BY <1>4, <2>3, <2>4, <2>5 DEF PointOK
  <2> QED
    BY <1>0, <1>1, <1>7, <2>4, <2>6, BusyMove DEF s, D
<1> QED
  BY <1>2, <1>3, <1>5, <1>6, <1>7 DEF Stamp, Newer

LEMMA UpdateMove ==
    ASSUME LedgerInvariant, RelayInductive, NEW w \in Workers, Update(w),
           cr' \in [Objects -> ObjectRecord], Forward
    PROVE  Moves(w)
<1> DEFINE s == claim[w].seq
           D == DOMAIN Desired(s)
           r == Request("deployment", work[w].view["deployment"], s)
           q0 == [work[w] EXCEPT !.pc = "confirm", !.view = EmptyTable, !.done = {}]
<1>0. ClusterTyped /\ ClaimsFollow /\ WorkerOK(w) /\ work[w] \in WorkRecord
  BY DEF RelayInductive, ClusterTyped
<1>1. UNCHANGED ledgerVars /\ work[w].pc = "update" /\ At(w, "update")
  BY DEF Update, At
<1>2. s \in Seqs /\ s \in Nat
  BY <1>0, <1>1, BusyClaims DEF Seqs
<1>3. CASE Return(w, "retry")
  BY <1>0, <1>1, <1>3, ReturnMove DEF Outcomes
<1>4. CASE Applied(r) /\ To(w, "confirm")
  <2>1. q0 \in WorkRecord /\ q0.pc = "confirm"
    BY <1>0, ToRecord DEF Points
  <2>2. Goto(w, q0)
    BY <1>4 DEF To
  <2>3. r.object = "deployment" /\ r.marker = s
    BY <1>0, <1>1, StampRequest
  <2>4. cr'["deployment"].marker = s
    BY <1>0, <1>4, <2>3 DEF Applied, ClusterTyped, Objects
  <2>5. ASSUME NEW o \in D PROVE cr'[o].marker >= s
    <3>1. cr[o].marker >= s /\ o \in Objects
      BY <1>0, <1>1, <1>2, DesiredDomains DEF WorkerOK, PointOK, LedgerInvariant, Objects
    <3> QED
      BY <1>0, <1>2, <3>1, ClusterNumbers DEF Forward, ObjectRecord
  <2> HIDE DEF q0, s, D
  <2>6. PointOK(q0, s, cr', D, Len(intents))
    BY <1>2, <2>1, <2>4, <2>5 DEF PointOK
  <2> QED
    BY <1>0, <1>1, <2>1, <2>2, <2>6, BusyMove DEF s, D
<1> QED
  BY <1>3, <1>4 DEF Update

LEMMA ConfirmMove ==
    ASSUME LedgerInvariant, RelayInductive, NEW w \in Workers, Confirm(w)
    PROVE  Moves(w)
<1> DEFINE s == claim[w].seq
           live == cr["deployment"]
<1>0. ClusterTyped /\ ClaimsFollow /\ WorkerOK(w)
  BY DEF RelayInductive
<1>1. UNCHANGED ledgerVars /\ work[w].pc = "confirm" /\ cr' = cr
  BY DEF Confirm, At
<1>2. s \in Nat /\ live.marker \in Nat
  BY <1>0, <1>1, BusyClaims, ClusterNumbers DEF Seqs, Objects
<1>3. live.marker >= s
  BY <1>0, <1>1 DEF WorkerOK, PointOK
<1>4. Return(w, "superseded") \/ (Return(w, "projected") /\ live.marker = s)
  BY <1>2, <1>3 DEF Confirm, Newer
<1> QED
  BY <1>0, <1>1, <1>3, <1>4, ReturnMove DEF Outcomes
-----------------------------------------------------------------------------
(* Every step keeps the invariant. *)

LEMMA WorkersStep ==
    ASSUME LedgerInvariant, RelayInductive, [RelayNext]_vars, cr' \in [Objects -> ObjectRecord], Forward
    PROVE  UNCHANGED <<work, claim>> \/ \E w \in Workers : Moves(w)
<1> DEFINE Goal == UNCHANGED <<work, claim>> \/ \E w \in Workers : Moves(w)
<1>1. ASSUME NEW w \in Workers, Step(w) PROVE Goal
  <2>1. (\E o \in Children : SkipWrite(w, o) \/ Write(w, o)) => Moves(w)
    BY WriteMove
  <2>2. Moves(w)
    BY <1>1, <2>1, TransactionMove, OpenMove, ListMove, VerifyMove, StampMove, UpdateMove, ConfirmMove DEF Step
  <2> QED
    BY <2>2
<1>2. ASSUME NEW w \in Workers, Disturbance(w) PROVE Goal
  <2>1. Moves(w)
    BY <1>2, TransactionMove, LostMove DEF Disturbance
  <2> QED
    BY <2>1
<1>3. ASSUME Administration, UNCHANGED relayVars PROVE Goal
  <2>1. claim' = claim
    BY <1>3 DEF Administration, PutModel, DeleteModel, PutLimit, DeleteLimit, DeleteSubject, CreateSubject,
                QueueGatewayPublication, ReplayDataPlanePublication
  <2> QED
    BY <1>3, <2>1 DEF relayVars
<1>4. ASSUME NEW r \in late, Arrive(r) PROVE Goal
  BY <1>4 DEF Arrive, ledgerVars
<1>5. ASSUME NEW o \in Objects, OperatorTouch(o) PROVE Goal
  BY <1>5 DEF OperatorTouch, ledgerVars
<1>6. ASSUME NEW i \in Seqs, LeaseLapses(i) \/ Due(i) PROVE Goal
  BY <1>6 DEF LeaseLapses, Due, LeaseExpires, RetryDue, relayVars
<1>7. UNCHANGED vars => Goal
  BY DEF vars, ledgerVars, relayVars
<1> HIDE DEF Goal
<1>8. Goal
  BY <1>1, <1>2, <1>3, <1>4, <1>5, <1>6, <1>7, Zenon DEF RelayNext
<1> QED
  BY <1>8 DEF Goal

\* What finishing does to the phases.
LEMMA FinishPhase ==
    ASSUME LedgerInvariant, RelayInductive, NEW w \in Workers, StepFinish(w), NEW i \in Seqs,
           status'[i] # status[i]
    PROVE  /\ i = claim[w].seq /\ i = Len(intents) /\ OwnsLatest(w)
           /\ work[w].pc = "finish"
           /\ status'[i] = FinishedStatus(work[w].outcome)
           /\ work[w].outcome \in Outcomes
           /\ status'[i].phase = "projected" <=> work[w].outcome = "projected"
           /\ status'[i].code = "CR_OWNERSHIP_CONFLICT" => work[w].outcome = "ownership"
<1>1. FinishDataPlanePublication(w, work[w].outcome) /\ work[w].pc = "finish"
  BY DEF StepFinish, At
<1>2. work[w].outcome \in Outcomes
  BY DEF RelayInductive, ClusterTyped, WorkRecord
<1>3. OwnsLatest(w) /\ status' = [status EXCEPT ![claim[w].seq] = FinishedStatus(work[w].outcome)]
  BY <1>1 DEF FinishDataPlanePublication
<1>4. status \in [1 .. Len(intents) -> Status] /\ i \in DOMAIN status
  BY DEF LedgerInvariant, TypeOK, Seqs
<1>5. i = claim[w].seq /\ status'[i] = FinishedStatus(work[w].outcome)
  BY <1>3, <1>4
<1>6. i = Len(intents)
  BY <1>3, <1>5 DEF OwnsLatest
<1>7. /\ status'[i].phase = "projected" <=> work[w].outcome = "projected"
      /\ status'[i].code = "CR_OWNERSHIP_CONFLICT" => work[w].outcome = "ownership"
  <2> DEFINE outcome == work[w].outcome
  <2>1. CASE outcome = "retry"
    <3> DEFINE row == [phase |-> "queued", code |-> ""]
    <3>1. status'[i] = row
      BY <1>5, <2>1 DEF FinishedStatus
    <3>2. row.phase = "queued" /\ row.code = ""
      OBVIOUS
    <3> HIDE DEF row
    <3> QED
      BY <2>1, <3>1, <3>2
  <2>2. CASE outcome = "invalid"
    BY <1>5, <2>2 DEF FinishedStatus
  <2>3. CASE outcome = "ownership"
    BY <1>5, <2>3 DEF FinishedStatus
  <2>4. CASE outcome \in {"projected", "superseded"}
    <3> DEFINE row == [phase |-> outcome, code |-> ""]
    <3>1. status'[i] = row
      BY <1>5, <2>4 DEF FinishedStatus
    <3>2. row.phase = outcome /\ row.code = ""
      OBVIOUS
    <3> HIDE DEF row
    <3> QED
      BY <2>4, <3>1, <3>2
  <2> QED
    BY <1>2, <2>1, <2>2, <2>3, <2>4 DEF Outcomes
<1> QED
  BY <1>1, <1>2, <1>3, <1>5, <1>6, <1>7

\* Only acknowledgements report an operation as projected, or fail it.
LEMMA PhasesMove ==
    ASSUME LedgerInvariant, RelayInductive, [RelayNext]_vars, NEW i \in Seqs'
    PROVE  \/ i \in Seqs /\ status'[i] = status[i]
           \/ /\ status'[i].phase # "projected" /\ status'[i].code = ""
              /\ i \in Seqs => status[i].phase \in {"queued", "projecting"}
           \/ \E w \in Workers : StepFinish(w) /\ i \in Seqs /\ status'[i] # status[i]
<1> DEFINE Goal == \/ i \in Seqs /\ status'[i] = status[i]
                   \/ /\ status'[i].phase # "projected" /\ status'[i].code = ""
                      /\ i \in Seqs => status[i].phase \in {"queued", "projecting"}
                   \/ \E w \in Workers : StepFinish(w) /\ i \in Seqs /\ status'[i] # status[i]
<1>0. [Next]_ledgerVars /\ ClusterTyped
  BY LedgerStep DEF RelayInductive
<1>1. Len(intents) \in Nat
  BY DEF LedgerInvariant, TypeOK
<1>2. ASSUME NEW p \in Payload, Selected(p) PROVE Goal
  <2>1. i \in Seqs \/ i = Len(intents) + 1
    <3>1. Len(intents') = Len(intents) + 1
      BY <1>2 DEF Selected
    <3> QED
      BY <1>1, <3>1 DEF Seqs
  <2>2. CASE i \in Seqs
    BY <1>2, <2>2 DEF Selected
  <2>3. CASE i = Len(intents) + 1
    <3>1. status'[i].phase = "queued" /\ status'[i].code = "" /\ i \notin Seqs
      <4>1. status'[Len(intents) + 1].phase = "queued" /\ status'[Len(intents) + 1].code = ""
        BY <1>2 DEF Selected
      <4>2. Len(intents) + 1 \notin Seqs
        BY ONLY <1>1 DEF Seqs
      <4> QED
        BY <2>3, <4>1, <4>2
    <3> QED
      BY <3>1
  <2> QED
    BY <2>1, <2>2, <2>3
<1>3. ASSUME UNCHANGED intents PROVE Goal
  <2>0. i \in Seqs
    BY <1>3 DEF Seqs
  <2>1. UNCHANGED status => Goal
    BY <2>0
  <2>2. ASSUME NEW w \in Workers, StepClaim(w) PROVE Goal
    <3>1. CASE ClaimDataPlanePublication(w)
      <4>1. status'[i] = status[i] \/ (status'[i].phase \in {"superseded", "projecting"} /\ status'[i].code = ""
                                        /\ status[i].phase \in {"queued", "projecting"})
        BY <2>0, <3>1 DEF ClaimDataPlanePublication, Superseding
      <4> QED
        BY <2>0, <4>1
    <3>2. CASE UNCHANGED ledgerVars
      BY <2>1, <3>2 DEF ledgerVars
    <3> QED
      BY <2>2, <3>1, <3>2 DEF StepClaim
  <2>3. ASSUME NEW w \in Workers, StepFinish(w) PROVE Goal
    BY <2>0, <2>3
  <2>4. ASSUME NEW w \in Workers, Invalidate(w) PROVE UNCHANGED status
    <3>1. CASE UNCHANGED ledgerVars
      BY <3>1 DEF ledgerVars
    <3>2. CASE QueueReferenceInvalidations
      <4>1. intents # <<>> /\ Invalidated(Latest.payload) # Latest.payload => FALSE
        <5> SUFFICES ASSUME intents # <<>>, Invalidated(Latest.payload) # Latest.payload PROVE FALSE
          OBVIOUS
        <5> DEFINE row == [key |-> "system", revision |-> "derived", payload |-> Invalidated(Latest.payload),
                           born |-> Latest.born]
        <5>1. intents' = Append(intents, row) /\ intents \in Seq(Intent)
          BY <3>2 DEF QueueReferenceInvalidations, InsertPublication, LedgerInvariant, TypeOK
        <5>2. Len(Append(intents, row)) = Len(intents) + 1
          <6> HIDE DEF row
          <6> QED
            BY <5>1
        <5> QED
          BY <1>1, <1>3, <5>1, <5>2
      <4> QED
        BY <3>2, <4>1 DEF QueueReferenceInvalidations
    <3> QED
      BY <2>4, <3>1, <3>2 DEF Invalidate
  <2>5. ASSUME NEW w \in Workers, Open(w) \/ List(w) \/ Verify(w) \/ Stamp(w) \/ Update(w) \/ Confirm(w) PROVE UNCHANGED status
    BY <2>5 DEF Open, List, Verify, Stamp, Update, Confirm, ledgerVars
  <2>6. ASSUME NEW w \in Workers, NEW o \in Children, SkipWrite(w, o) \/ Write(w, o) \/ LoseWrite(w, o) PROVE UNCHANGED status
    BY <2>6 DEF SkipWrite, Write, LoseWrite, ledgerVars
  <2>7. ASSUME NEW w \in Workers, LockBusy(w) \/ LoseUpdate(w) \/ ApiError(w) \/ Crash(w) PROVE UNCHANGED status
    BY <2>7 DEF LockBusy, LoseUpdate, ApiError, Crash, ForgetClaim, ledgerVars
  <2>8. ASSUME Administration PROVE UNCHANGED status
    <3>1. ASSUME NEW key, NEW rev, NEW p, NEW born, InsertPublication(key, rev, p, born) PROVE FALSE
      <4> DEFINE row == [key |-> key, revision |-> rev, payload |-> p, born |-> born]
      <4>1. intents' = Append(intents, row) /\ intents \in Seq(Intent)
        BY <3>1 DEF InsertPublication, LedgerInvariant, TypeOK
      <4>2. Len(Append(intents, row)) = Len(intents) + 1
        <5> HIDE DEF row
        <5> QED
          BY <4>1
      <4> QED
        BY <1>1, <1>3, <4>1, <4>2
    <3>2. ASSUME NEW k \in Keys, NEW rev, NEW b, QueueGatewayPublication(k, rev, b) PROVE FALSE
      BY <3>1, <3>2 DEF QueueGatewayPublication
    <3>3. ASSUME NEW k \in Keys, NEW j, ReplayDataPlanePublication(k, j) PROVE FALSE
      BY <3>1, <3>3 DEF ReplayDataPlanePublication
    <3> QED
      BY <2>8, <3>2, <3>3 DEF Administration, PutModel, DeleteModel, PutLimit, DeleteLimit, DeleteSubject, CreateSubject
  <2>9. ASSUME NEW r \in late, Arrive(r) PROVE UNCHANGED status
    BY <2>9 DEF Arrive, ledgerVars
  <2>10. ASSUME NEW o \in Objects, OperatorTouch(o) PROVE UNCHANGED status
    BY <2>10 DEF OperatorTouch, ledgerVars
  <2>11. ASSUME NEW j \in Seqs, LeaseLapses(j) \/ Due(j) PROVE UNCHANGED status
    BY <2>11 DEF LeaseLapses, Due, LeaseExpires, RetryDue
  <2>12. UNCHANGED vars => UNCHANGED status
    BY DEF vars, ledgerVars
  <2> HIDE DEF Goal
  <2>13. ASSUME NEW w \in Workers, Step(w) \/ Disturbance(w) PROVE Goal
    BY <2>1, <2>2, <2>3, <2>4, <2>5, <2>6, <2>7, <2>13, Zenon DEF Step, Disturbance
  <2> QED
    BY <2>1, <2>8, <2>9, <2>10, <2>11, <2>12, <2>13, Zenon DEF RelayNext
<1> HIDE DEF Goal
<1>4. Goal
  BY <1>0, <1>2, <1>3, IntentsMove
<1> QED
  BY <1>4 DEF Goal
LEMMA RelayStep ==
    ASSUME LedgerInvariant, RelayInductive, [RelayNext]_vars
    PROVE  LedgerInvariant' /\ RelayInductive' /\ Forward /\ [Next]_ledgerVars
<1>0. /\ ClusterTyped /\ ClaimsFollow /\ PoliciesGrow /\ ObjectsMarked /\ SpecFollowsMarker
      /\ AggregateStampedLast /\ ProjectedIsStamped /\ NoOwnershipConflict
      /\ \A w \in Workers : WorkerOK(w)
      /\ \A r \in late : RequestOK(r)
  BY DEF RelayInductive
<1>1. [Next]_ledgerVars
  BY <1>0, LedgerStep
<1>2. LedgerInvariant' /\ PoliciesGrow'
  BY <1>0, <1>1, LedgerKept, PoliciesStep
<1>3. ClusterStep
  BY ClusterMoves
<1>4. cr' \in [Objects -> ObjectRecord] /\ late' \subseteq RequestRecord /\ Forward
  BY <1>0, <1>3, ClusterForward
<1>5. ObjectsMarked' /\ SpecFollowsMarker' /\ AggregateStampedLast'
  BY <1>0, <1>1, <1>3, ClusterKept
<1>6. /\ work' \in [Workers -> WorkRecord]
      /\ ClaimsFollow'
      /\ \A w \in Workers : WorkerOK(w)'
  <2>1. CASE UNCHANGED <<work, claim>>
    <3>1. \A w \in Workers : WorkerOK(w)'
      BY <1>0, <1>1, <1>4, <2>1, WorkersStay
    <3> QED
      BY <1>0, <2>1, <3>1 DEF ClusterTyped, ClaimsFollow
  <2>2. ASSUME NEW w \in Workers, Moves(w)
        PROVE  /\ work' \in [Workers -> WorkRecord]
               /\ ClaimsFollow'
               /\ \A x \in Workers : WorkerOK(x)'
    <3>1. ASSUME NEW x \in Workers PROVE WorkerOK(x)'
      <4>1. CASE x = w
        BY <2>2, <4>1 DEF Moves
      <4>2. CASE x # w
        BY <1>0, <1>1, <1>4, <2>2, <4>2, WorkersStay DEF Moves
      <4> QED
        BY <4>1, <4>2
    <3>2. ClaimsFollow'
      BY <1>0, <2>2 DEF Moves, ClaimsFollow
    <3> QED
      BY <2>2, <3>1, <3>2 DEF Moves
  <2> QED
    BY <1>4, <2>1, <2>2, WorkersStep
<1>7. ClusterTyped'
  BY <1>4, <1>6 DEF ClusterTyped
<1>8. \A r \in late' : RequestOK(r)'
  <2> SUFFICES ASSUME NEW r \in late' PROVE RequestOK(r)'
    OBVIOUS
  <2>1. r \in RequestRecord /\ RequestOK(r)
    BY <1>0, <1>3, <1>4 DEF ClusterStep
  <2> QED
    BY <1>0, <1>1, <1>4, <1>7, <2>1, RequestsStay
<1>9. ProjectedIsStamped'
  <2> SUFFICES ASSUME NEW i \in Seqs', status'[i].phase = "projected"
               PROVE  cr'["deployment"].marker >= i
    BY DEF ProjectedIsStamped
  <2>1. i \in Seqs /\ cr["deployment"].marker >= i
    <3>1. CASE i \in Seqs /\ status'[i] = status[i]
      BY <1>0, <3>1 DEF ProjectedIsStamped
    <3>2. ASSUME NEW w \in Workers, StepFinish(w), i \in Seqs, status'[i] # status[i]
          PROVE  cr["deployment"].marker >= i
      <4>1. i = claim[w].seq /\ work[w].pc = "finish" /\ work[w].outcome = "projected"
        BY <3>2, FinishPhase
      <4> QED
        BY <1>0, <4>1 DEF WorkerOK, PointOK
    <3> QED
      BY <3>1, <3>2, PhasesMove
  <2>2. cr["deployment"].marker \in Nat /\ cr'["deployment"].marker \in Nat /\ "deployment" \in Objects /\ i \in Nat
    BY <1>0, <1>4, <2>1, ClusterNumbers DEF Objects, ObjectRecord, Seqs
  <2> QED
    BY <1>4, <2>1, <2>2 DEF Forward
<1>10. NoOwnershipConflict'
  <2> SUFFICES ASSUME NEW i \in Seqs', status'[i].code = "CR_OWNERSHIP_CONFLICT"
               PROVE  FALSE
    BY DEF NoOwnershipConflict
  <2>1. CASE i \in Seqs /\ status'[i] = status[i]
    BY <1>0, <2>1 DEF NoOwnershipConflict
  <2>2. ASSUME NEW w \in Workers, StepFinish(w), i \in Seqs, status'[i] # status[i]
        PROVE  FALSE
    <3>1. i = claim[w].seq /\ i = Len(intents) /\ work[w].pc = "finish" /\ work[w].outcome = "ownership"
      BY <2>2, FinishPhase
    <3>2. claim[w].seq < Len(intents) /\ Len(intents) \in Nat
      BY <1>0, <1>1, <3>1, IntentsStay DEF WorkerOK, PointOK
    <3> QED
      BY <3>1, <3>2
  <2> QED
    BY <2>1, <2>2, PhasesMove
<1>11. RelayInductive'
  BY <1>2, <1>5, <1>6, <1>7, <1>8, <1>9, <1>10 DEF RelayInductive
<1> QED
  BY <1>1, <1>2, <1>4, <1>11

LEMMA RelayStart ==
    ASSUME RelayInit
    PROVE  LedgerInvariant /\ RelayInductive
<1>1. LedgerInvariant
  BY LedgerStart DEF RelayInit
<1>2. intents = <<>> /\ Len(intents) = 0 /\ Seqs = {} /\ claim = [w \in Workers |-> NoClaim]
  BY DEF RelayInit, Init, Seqs
<1>3. /\ \A o \in Objects : cr[o] = IF o = "deployment" THEN [rv |-> 1, marker |-> 0, spec |-> NoSpec] ELSE Absent
      /\ cr \in [Objects -> ObjectRecord]
  BY DEF RelayInit, Absent, ObjectRecord, Specs
<1>4. late = {} /\ work = [w \in Workers |-> Idle]
  BY DEF RelayInit
<1>5. ClusterTyped
  BY <1>3, <1>4, IdleRecord DEF ClusterTyped
<1>6. \A o \in Objects : cr[o].marker = 0 /\ (o \in Children => cr[o].rv = 0)
  BY <1>3, RelayAssumption DEF Absent, Children
<1>7. ClaimsFollow /\ \A w \in Workers : WorkerOK(w)
  BY <1>2, <1>4, IdleRecord DEF ClaimsFollow, WorkerOK, PointOK
<1>8. ObjectsMarked /\ SpecFollowsMarker /\ AggregateStampedLast
  BY <1>2, <1>6 DEF ObjectsMarked, SpecFollowsMarker, AggregateStampedLast, Exists, Objects
<1>9. PoliciesGrow /\ ProjectedIsStamped /\ NoOwnershipConflict
  BY <1>2 DEF PoliciesGrow, ProjectedIsStamped, NoOwnershipConflict
<1> QED
  BY <1>1, <1>4, <1>5, <1>7, <1>8, <1>9 DEF RelayInductive
-----------------------------------------------------------------------------
(* The relay implements the ledger and keeps the cluster in step with it. *)

\* Ledger and relay satisfy their inductive invariants in every reachable state.
THEOREM RelaySafe == RelaySpec => [](LedgerInvariant /\ RelayInductive)
<1>1. RelayInit => LedgerInvariant /\ RelayInductive
  BY RelayStart
<1>2. LedgerInvariant /\ RelayInductive /\ [RelayNext]_vars => LedgerInvariant' /\ RelayInductive'
  BY RelayStep
<1> QED
  BY <1>1, <1>2, PTL DEF RelaySpec

\* What the relay does to the ledger is what the ledger allows: every theorem
\* about the ledger holds of ledger and relay together.
THEOREM RelayImplementsLedger == RelaySpec => Spec
<1>1. RelayInit => Init
  BY DEF RelayInit
<1>2. LedgerInvariant /\ RelayInductive /\ [RelayNext]_vars => [Next]_ledgerVars
  BY RelayStep
<1> QED
  BY <1>1, <1>2, RelaySafe, PTL DEF RelaySpec, Spec

\* A live child is exactly what the operation in its marker asked for, whatever
\* writers race, stall or give up.
THEOREM SpecsFollowMarkers == RelaySpec => []SpecFollowsMarker
<1>1. RelayInductive => SpecFollowsMarker
  BY DEF RelayInductive
<1> QED
  BY <1>1, RelaySafe, PTL

LEMMA LiveWhenProjected ==
    ASSUME LedgerInvariant, RelayInductive
    PROVE  ProjectedIsLive
<1> DEFINE n == Len(intents)
<1> SUFFICES ASSUME intents # <<>>, status[n].phase = "projected", NEW o \in Children
             PROVE  IF o \in DOMAIN Desired(n)
                      THEN cr[o].marker = n /\ cr[o].spec = Desired(n)[o]
                      ELSE ~Exists(o)
  BY DEF ProjectedIsLive
<1>0. /\ TypeOK /\ ClusterTyped /\ ObjectsMarked /\ SpecFollowsMarker
      /\ AggregateStampedLast /\ ProjectedIsStamped
  BY DEF LedgerInvariant, RelayInductive
<1>1. n \in Seqs /\ n \in Nat /\ n > 0
  BY <1>0, LatestTyped
<1>2. "deployment" \in Objects /\ o \in Objects
  BY DEF Objects
<1>3. cr["deployment"].marker \in Nat /\ cr[o].marker \in Nat /\ cr[o].rv \in Nat
  BY <1>0, <1>2, ClusterNumbers
<1>4. cr["deployment"].marker >= n
  BY <1>0, <1>1 DEF ProjectedIsStamped
<1>5. cr["deployment"].marker = n
  BY <1>0, <1>1, <1>2, <1>3, <1>4 DEF ObjectsMarked
<1>6. CASE o \in DOMAIN Desired(n)
  <2>1. cr[o].marker >= n
    BY <1>0, <1>1, <1>5, <1>6 DEF AggregateStampedLast
  <2>2. cr[o].marker = n
    BY <1>0, <1>1, <1>2, <1>3, <2>1 DEF ObjectsMarked
  <2>3. cr[o].rv > 0
    BY <1>0, <1>1, <1>2, <1>3, <2>2 DEF ObjectsMarked
  <2>4. cr[o].spec = Desired(n)[o]
    BY <1>0, <2>2, <2>3 DEF SpecFollowsMarker, Exists
  <2> QED
    BY <1>6, <2>2, <2>4
<1>7. CASE o \notin DOMAIN Desired(n)
  BY <1>1, <1>7, StrangerIsNewer
<1> QED
  BY <1>6, <1>7

\* While the selected intent is projected, the cluster holds its objects with its
\* specs and no others.
THEOREM ProjectedLive == RelaySpec => []ProjectedIsLive
<1>1. LedgerInvariant /\ RelayInductive => ProjectedIsLive
  BY LiveWhenProjected
<1> QED
  BY <1>1, RelaySafe, PTL

\* Once a withdrawal is selected and projected, no route of a deleted model is
\* live and enabled.
LEMMA WithdrawnWhenProjected ==
    ASSUME LedgerInvariant, RelayInductive
    PROVE  DeletedModelsWithdrawn
<1> DEFINE n == Len(intents)
<1> SUFFICES ASSUME intents # <<>>, ~Pending, status[n].phase = "projected",
                    NEW m \in Models, Exists(m), cr[m].spec.enabled
             PROVE  m \in DOMAIN catalog /\ Latest.born[m] = epoch[m]
  BY DEF DeletedModelsWithdrawn
<1>0. TypeOK /\ SelectedRoutesCurrent
  BY DEF LedgerInvariant, RoutesTracked, SelectedRoutesCurrent
<1>1. n \in Seqs /\ intents[n] = Latest
  BY <1>0, LatestTyped DEF Latest
<1>2. m \in DOMAIN Desired(n) /\ cr[m].spec = Desired(n)[m]
  BY LiveWhenProjected DEF ProjectedIsLive, Children
<1>3. m \in DOMAIN Latest.payload.routes /\ Latest.payload.routes[m].enabled
  BY <1>0, <1>1, <1>2, DesiredTyped
<1> QED
  BY <1>0, <1>3 DEF SelectedRoutesCurrent

\* The relay's invariant: types, the aggregate stamped last, only complete
\* deliveries acknowledged, no relay taking another's objects for foreign ones,
\* and deleted models withdrawn end to end.
THEOREM RelayCorrect == RelaySpec => []RelayInvariant
<1>1. ASSUME LedgerInvariant, RelayInductive PROVE RelayInvariant
  <2>0. /\ ClusterTyped /\ ObjectsMarked /\ ClaimsFollow
        /\ AggregateStampedLast /\ ProjectedIsStamped /\ NoOwnershipConflict
    BY <1>1 DEF RelayInductive
  <2>1. cr \in [Objects -> [rv : Nat, marker : 0 .. Len(intents), spec : Route \cup Rule \cup {NoSpec}]]
    <3>1. Len(intents) \in Nat
      BY <1>1 DEF LedgerInvariant, TypeOK
    <3>2. ASSUME NEW o \in Objects
          PROVE  cr[o] \in [rv : Nat, marker : 0 .. Len(intents), spec : Route \cup Rule \cup {NoSpec}]
      <4>1. cr[o] \in ObjectRecord /\ cr[o].marker <= Len(intents)
        BY <2>0 DEF ClusterTyped, ObjectsMarked
      <4> QED
        BY <3>1, <4>1 DEF ObjectRecord, Specs
    <3> QED
      BY <2>0, <3>2 DEF ClusterTyped
  <2>2. ASSUME NEW w \in Workers
        PROVE  /\ work[w].pc \in Points /\ work[w].stage \in {"routes", "policies"}
               /\ work[w].outcome \in Outcomes
    BY <2>0 DEF ClusterTyped, WorkRecord
  <2>3. RelayTypeOK
    BY <2>0, <2>1, <2>2 DEF RelayTypeOK, ClaimsFollow, Points
  <2>4. DeletedModelsWithdrawn
    BY <1>1, WithdrawnWhenProjected
  <2> QED
    BY <2>0, <2>3, <2>4 DEF RelayInvariant
<1> QED
  BY <1>1, RelaySafe, PTL

\* No object goes back to an older operation.
THEOREM MarkersMoveForward == RelaySpec => MarkersNeverRollBack
<1>1. LedgerInvariant /\ RelayInductive /\ [RelayNext]_vars
        => [\A o \in Objects : cr'[o].marker >= cr[o].marker]_vars
  BY RelayStep DEF Forward
<1> QED
  BY <1>1, RelaySafe, PTL DEF RelaySpec, MarkersNeverRollBack
-----------------------------------------------------------------------------
(* Ledger and relay keep the delivery contract. *)

\* What the contract sees.
Needs     == [i \in Seqs |-> DOMAIN DesiredRoutes(Prefix(i)) \cup DOMAIN DesiredPolicies(Prefix(i))]
Placement == [o \in Children |-> cr[o].marker]
Reported  == {i \in Seqs : status[i].phase = "projected"}

\* A step moves the ledger or the cluster, never both.
LEMMA OneSideMoves ==
    ASSUME [RelayNext]_vars
    PROVE  UNCHANGED cr \/ UNCHANGED <<intents, status>>
<1> DEFINE Goal == UNCHANGED cr \/ UNCHANGED <<intents, status>>
<1>1. ASSUME NEW w \in Workers, Step(w) PROVE Goal
  <2>1. ASSUME Invalidate(w) \/ StepClaim(w) \/ Open(w) \/ List(w) \/ Verify(w) \/ Stamp(w) \/ Confirm(w) \/ StepFinish(w)
        PROVE  UNCHANGED cr
    BY <2>1 DEF Invalidate, StepClaim, Open, List, Verify, Stamp, Confirm, StepFinish
  <2>2. ASSUME Update(w) PROVE UNCHANGED <<intents, status>>
    BY <2>2 DEF Update, ledgerVars
  <2>3. ASSUME NEW o \in Children, SkipWrite(w, o) \/ Write(w, o) PROVE UNCHANGED <<intents, status>>
    BY <2>3 DEF SkipWrite, Write, ledgerVars
  <2> QED
    BY <1>1, <2>1, <2>2, <2>3, Zenon DEF Step
<1>2. ASSUME NEW w \in Workers, Disturbance(w) PROVE UNCHANGED cr
  BY <1>2 DEF Disturbance, LockBusy, LoseUpdate, ApiError, Crash, LoseWrite
<1>3. ASSUME NEW r \in late, Arrive(r) PROVE UNCHANGED <<intents, status>>
  BY <1>3 DEF Arrive, ledgerVars
<1>4. ASSUME NEW o \in Objects, OperatorTouch(o) PROVE UNCHANGED <<intents, status>>
  BY <1>4 DEF OperatorTouch, ledgerVars
<1>5. ASSUME NEW i \in Seqs, LeaseLapses(i) \/ Due(i) PROVE UNCHANGED cr
  BY <1>5 DEF LeaseLapses, Due, relayVars
<1>6. UNCHANGED relayVars \/ UNCHANGED vars => UNCHANGED cr
  BY DEF relayVars, vars
<1> QED
  BY <1>1, <1>2, <1>3, <1>4, <1>5, <1>6, Zenon DEF RelayNext

\* Selecting an intent appends what it needs.
LEMMA NeedsGrow ==
    ASSUME LedgerInvariant, [Next]_ledgerVars, NEW p \in Payload, Selected(p)
    PROVE  \E S \in SUBSET Children : Needs' = Append(Needs, S)
<1> DEFINE n == Len(intents)
           h == [i \in 1 .. (n + 1) |-> intents'[i].payload]
           S == DOMAIN DesiredRoutes(h) \cup DOMAIN DesiredPolicies(h)
<1>1. n \in Nat /\ TypeOK
  BY DEF LedgerInvariant, TypeOK
<1>2. Len(intents') = n + 1 /\ intents'[n + 1].payload = p
  BY DEF Selected
<1>3. Seqs' = 1 .. (n + 1) /\ Seqs = 1 .. n
  BY <1>2 DEF Seqs
<1>4. h[Len(h)] = p
  <2>1. h \in [1 .. (n + 1) -> {h[i] : i \in 1 .. (n + 1)}] /\ n + 1 \in Nat
    BY <1>1
  <2>2. Len(h) = n + 1
    <3> HIDE DEF h
    <3> QED
      BY ONLY <2>1, ColumnIsSeq
  <2> QED
    BY <1>1, <1>2, <2>2
<1>5. S \subseteq Children
  <2> HIDE DEF h
  <2>1. DOMAIN DesiredRoutes(h) \subseteq Models
    BY DEF DesiredRoutes
  <2>2. DOMAIN p.limits \subseteq Limits
    BY TableElim DEF Payload
  <2>3. DOMAIN DesiredPolicies(h) \subseteq Limits
    BY <1>4, <2>2 DEF DesiredPolicies, EmptyTable
  <2> QED
    BY <2>1, <2>3 DEF Children
<1>6. Needs \in [1 .. n -> SUBSET Children] /\ DOMAIN Needs = 1 .. n
  BY <1>1, <1>3, DesiredDomains DEF Needs
<1>7. Needs \in Seq(SUBSET Children) /\ Len(Needs) = n
  BY ONLY <1>1, <1>6, ColumnIsSeq
<1>8. /\ Append(Needs, S) \in [1 .. (n + 1) -> SUBSET Children]
      /\ Append(Needs, S)[n + 1] = S
      /\ \A i \in 1 .. n : Append(Needs, S)[i] = Needs[i]
  <2> HIDE DEF S
  <2> QED
    BY ONLY <1>5, <1>7, AppendRow
<1>9. DOMAIN Needs' = 1 .. (n + 1)
  BY <1>3 DEF Needs
<1>10. ASSUME NEW i \in 1 .. (n + 1) PROVE Needs'[i] = Append(Needs, S)[i]
  <2> DEFINE g == [j \in 1 .. i |-> intents'[j].payload]
  <2>1. Needs'[i] = DOMAIN DesiredRoutes(g) \cup DOMAIN DesiredPolicies(g)
    BY <1>3 DEF Needs, Prefix
  <2>2. CASE i = n + 1
    BY <1>8, <2>1, <2>2
  <2>3. CASE i \in 1 .. n
    <3>1. g = Prefix(i)
      BY <1>3, <2>3, DesiredStays DEF Prefix
    <3> HIDE DEF g
    <3> QED
      BY <1>3, <1>8, <2>1, <2>3, <3>1 DEF Needs
  <2>4. i = n + 1 \/ i \in 1 .. n
    <3>1. ASSUME NEW k \in Nat, NEW j \in 1 .. (k + 1) PROVE j = k + 1 \/ j \in 1 .. k
      OBVIOUS
    <3> QED
      BY <1>1, <3>1
  <2> HIDE DEF S, g
  <2> QED
    BY <2>2, <2>3, <2>4
<1>11. Needs' = Append(Needs, S)
  <2>1. Needs' = [i \in 1 .. (n + 1) |-> Needs'[i]]
    BY <1>9 DEF Needs
  <2> HIDE DEF S
  <2> QED
    BY <1>8, <1>10, <2>1
<1> QED
  BY <1>5, <1>11

\* The newest of the reported operations with the newest one of all.
LEMMA NewestReported ==
    ASSUME NEW n \in Nat, NEW S \in SUBSET (1 .. n), n > 0
    PROVE  /\ Newest(S \cup {n}) = n
           /\ n \notin S /\ S # {} => Newest(S) < n
<1>1. S \cup {n} \in SUBSET (1 .. n) /\ S \cup {n} # {} /\ n \in S \cup {n}
  OBVIOUS
<1>2. Newest(S \cup {n}) \in S \cup {n} /\ n <= Newest(S \cup {n})
  BY <1>1, NewestIn
<1>3. n \notin S /\ S # {} => Newest(S) \in S
  BY NewestIn
<1> DEFINE x == Newest(S \cup {n})
           y == Newest(S)
<1> HIDE DEF x, y
<1>4. x \in S \cup {n} /\ n <= x
  BY <1>2 DEF x
<1>5. n \notin S /\ S # {} => y \in S
  BY <1>3 DEF y
<1>6. x = n
  <2>1. x \in 1 .. n
    BY <1>1, <1>4
  <2> QED
    BY <1>4, <2>1
<1>7. n \notin S /\ S # {} => y < n
  <2> SUFFICES ASSUME n \notin S, S # {} PROVE y < n
    OBVIOUS
  <2>1. y \in 1 .. n /\ y # n
    BY <1>5
  <2> QED
    BY <2>1
<1> QED
  BY <1>6, <1>7 DEF x, y

\* The reported operations stay reported, and only the newest one is added.
LEMMA ReportedMoves ==
    ASSUME LedgerInvariant, RelayInductive, [RelayNext]_vars
    PROVE  \/ Reported' = Reported
           \/ /\ UNCHANGED <<intents, cr>> /\ intents # <<>>
              /\ Len(intents) \notin Reported
              /\ Reported' = Reported \cup {Len(intents)}
              /\ cr["deployment"].marker = Len(intents)
<1>0. [Next]_ledgerVars /\ ClusterTyped /\ ObjectsMarked /\ \A w \in Workers : WorkerOK(w)
  BY LedgerStep DEF RelayInductive
<1>1. \A i \in Seqs : i \in Seqs'
  BY <1>0, IntentsStay
<1>2. CASE \E w \in Workers, i \in Seqs : StepFinish(w) /\ status'[i] # status[i]
  <2>1. PICK w \in Workers, i \in Seqs : StepFinish(w) /\ status'[i] # status[i]
    BY <1>2
  <2> DEFINE n == Len(intents)
  <2>2. /\ i = claim[w].seq /\ i = n /\ OwnsLatest(w) /\ work[w].pc = "finish"
        /\ status'[i].phase = "projected" <=> work[w].outcome = "projected"
    BY <2>1, FinishPhase
  <2>3. status[i].phase = "projecting"
    BY <2>2 DEF OwnsLatest
  <2>4. UNCHANGED <<intents, cr>> /\ Seqs' = Seqs
    BY <2>1 DEF StepFinish, FinishDataPlanePublication, Seqs
  <2>5. \A j \in Seqs \ {i} : status'[j] = status[j]
    BY <2>1, <2>2, FinishPhase
  <2>6. CASE work[w].outcome # "projected"
    BY <2>2, <2>3, <2>4, <2>5, <2>6 DEF Reported
  <2>7. CASE work[w].outcome = "projected"
    <3>1. Reported' = Reported \cup {n} /\ n \notin Reported
      BY <2>2, <2>3, <2>4, <2>5, <2>7 DEF Reported
    <3>2. cr["deployment"].marker >= n
      BY <1>0, <2>2, <2>7 DEF WorkerOK, PointOK
    <3>3. /\ cr["deployment"].marker <= n /\ cr["deployment"].marker \in Nat
          /\ n \in Nat
      BY <1>0, IntentsStay, ClusterNumbers DEF ObjectsMarked, Objects
    <3>4. cr["deployment"].marker = n
      BY <3>2, <3>3
    <3>5. intents # <<>>
      BY <2>2 DEF Seqs
    <3> QED
      BY <2>4, <3>1, <3>4, <3>5
  <2> QED
    BY <2>6, <2>7
<1>3. CASE ~\E w \in Workers, i \in Seqs : StepFinish(w) /\ status'[i] # status[i]
  <2>1. ASSUME NEW i \in Seqs' PROVE i \in Reported' <=> i \in Reported
    BY <1>3, <2>1, PhasesMove DEF Reported
  <2> QED
    BY <1>1, <2>1 DEF Reported
<1> QED
  BY <1>2, <1>3

LEMMA AcknowledgedIs == Acknowledged = IF Reported = {} THEN 0 ELSE Newest(Reported)
  BY DEF Acknowledged, Reported
\* Every step is a step of the contract, or invisible to it.
LEMMA ContractStep ==
    ASSUME LedgerInvariant, RelayInductive, [RelayNext]_vars
    PROVE  [Delivery!ContractNext]_(Delivery!contractVars)
<1> DEFINE n == Len(intents)
           d == cr["deployment"].marker
<1>0. /\ [Next]_ledgerVars /\ ClusterTyped /\ ObjectsMarked /\ ClusterStep /\ Forward
      /\ TypeOK /\ n \in Nat
  BY LedgerStep, ClusterMoves, RelayStep, IntentsStay DEF RelayInductive, LedgerInvariant
<1>1. /\ Needs \in [1 .. n -> SUBSET Children] /\ DOMAIN Needs = 1 .. n
      /\ \A i \in 1 .. n : Needs[i] = DOMAIN Desired(i)
  BY <1>0, DesiredDomains DEF Needs, Seqs
<1>2. Len(Needs) = n
  BY ONLY <1>0, <1>1, ColumnIsSeq
<1>3. intents' = intents => Needs' = Needs
  BY DEF Needs, Prefix, Seqs
<1>4. Reported' = Reported => Acknowledged' = Acknowledged
  BY DEF Acknowledged, Reported
<1>5. cr' = cr => Placement' = Placement /\ d' = d
  BY DEF Placement
<1>6. Reported \in SUBSET (1 .. n)
  BY DEF Reported, Seqs
<1> DEFINE Visible == <<Needs, Placement, d, Acknowledged>>
<1>7. Visible' = Visible => [Delivery!ContractNext]_(Delivery!contractVars)
  BY DEF Delivery!contractVars, Needs, Placement
<1>8. CASE Reported' # Reported
  <2>1. /\ UNCHANGED <<intents, cr>> /\ intents # <<>>
        /\ n \notin Reported /\ Reported' = Reported \cup {n} /\ d = n
    BY <1>8, ReportedMoves
  <2>2. n > 0
    BY <1>0, <2>1, LatestTyped
  <2>3. Newest(Reported \cup {n}) = n /\ (Reported # {} => Newest(Reported) < n)
    BY <1>0, <1>6, <2>1, <2>2, NewestReported
  <2>4. Acknowledged' = n
    <3>1. Acknowledged' = IF Reported' = {} THEN 0 ELSE Newest(Reported')
      BY DEF Acknowledged, Reported
    <3> QED
      BY <2>1, <2>3, <3>1
  <2>5. Acknowledged < n
    BY <2>2, <2>3, AcknowledgedIs
  <2>6. d = Len(Needs) /\ Acknowledged < d /\ Acknowledged' = d /\ Needs' = Needs /\ Placement' = Placement /\ d' = d
    BY <1>2, <1>3, <1>5, <2>1, <2>4, <2>5
  <2>7. Delivery!Acknowledge
    BY <2>6 DEF Delivery!Acknowledge, Needs, Placement
  <2> QED
    BY <2>7 DEF Delivery!ContractNext
<1>9. ASSUME Reported' = Reported, cr' = cr, NEW p \in Payload, Selected(p)
      PROVE  Delivery!ContractNext
  <2>1. \E S \in SUBSET Children : Needs' = Append(Needs, S)
    BY <1>0, <1>9, NeedsGrow
  <2>2. Placement' = Placement /\ d' = d /\ Acknowledged' = Acknowledged
    BY <1>4, <1>5, <1>9
  <2>3. Delivery!Select
    BY <2>1, <2>2 DEF Delivery!Select, Needs, Placement
  <2> QED
    BY <2>3 DEF Delivery!ContractNext
<1>10. ASSUME Reported' = Reported, cr' = cr, UNCHANGED intents
       PROVE  Visible' = Visible
  BY <1>3, <1>4, <1>5, <1>10
<1>11. ASSUME Reported' = Reported, UNCHANGED <<intents, status>>, NEW o \in Objects, cr' = [cr EXCEPT ![o].rv = @ + 1]
       PROVE  Visible' = Visible
  <2>1. \A x \in Objects : cr'[x].marker = cr[x].marker
    BY <1>0, <1>11 DEF ClusterTyped, ObjectRecord
  <2>2. Placement' = Placement /\ d' = d
    BY <2>1 DEF Placement, Objects
  <2> QED
    BY <1>3, <1>4, <1>11, <2>2
<1>12. ASSUME Reported' = Reported, UNCHANGED <<intents, status>>,
              NEW r \in RequestRecord, RequestOK(r), Accepts(r), Applied(r)
       PROVE  [Delivery!ContractNext]_(Delivery!contractVars)
  <2>1. /\ r.object \in Objects /\ r.marker \in Nat /\ r.marker \in 1 .. n
        /\ cr[r.object].marker <= r.marker
    BY <1>12 DEF RequestRecord, RequestOK, Accepts, Seqs
  <2>2. /\ cr'[r.object].marker = r.marker
        /\ \A x \in Objects \ {r.object} : cr'[x] = cr[x]
    BY <1>0, <1>12, <2>1 DEF ClusterTyped, Applied
  <2>3. Needs' = Needs /\ Acknowledged' = Acknowledged
    BY <1>3, <1>4, <1>12
  <2>4. \A x \in Objects : cr[x].marker \in Nat
    BY <1>0, ClusterNumbers
  <2>5. CASE cr[r.object].marker = r.marker
    <3>1. \A x \in Objects : cr'[x].marker = cr[x].marker
      BY <2>2, <2>5
    <3>2. Placement' = Placement /\ d' = d
      BY <3>1 DEF Placement, Objects
    <3> QED
      BY <1>7, <2>3, <3>2
  <2>6. CASE cr[r.object].marker < r.marker /\ r.object \in Children
    <3> DEFINE o == r.object
               s == r.marker
    <3>1. o # "deployment" /\ o \in DOMAIN Desired(s)
      BY <1>12, <2>6, RelayAssumption DEF RequestOK, Children
    <3>2. s \in DOMAIN Needs /\ o \in Needs[s]
      BY <1>1, <2>1, <3>1
    <3>3. Placement[o] < s /\ Placement' = [Placement EXCEPT ![o] = s]
      BY <2>2, <2>6 DEF Placement, Objects
    <3>4. d' = d
      BY <2>2, <3>1 DEF Objects
    <3> HIDE DEF o, s
    <3>5. Delivery!Place
      BY <2>3, <3>2, <3>3, <3>4 DEF Delivery!Place, Needs, Placement
    <3> QED
      BY <3>5 DEF Delivery!ContractNext
  <2>7. CASE cr[r.object].marker < r.marker /\ r.object = "deployment"
    <3> DEFINE s == r.marker
    <3>1. \A o \in DOMAIN Desired(s) : o \in Children /\ cr[o].marker >= s
      BY <1>0, <1>12, <2>7, DesiredDomains DEF RequestOK, Placed
    <3>2. s \in DOMAIN Needs /\ \A o \in Needs[s] : Placement[o] >= s
      BY <1>1, <2>1, <3>1 DEF Placement
    <3>3. d < s /\ d' = s
      BY <2>2, <2>7
    <3>4. Placement' = Placement
      BY <2>2, <2>7, RelayAssumption DEF Placement, Objects, Children
    <3> HIDE DEF s
    <3>5. Delivery!StampAggregate
      BY <2>3, <3>2, <3>3, <3>4 DEF Delivery!StampAggregate, Needs, Placement
    <3> QED
      BY <3>5 DEF Delivery!ContractNext
  <2> QED
    BY <2>1, <2>4, <2>5, <2>6, <2>7 DEF Objects
<1> HIDE DEF Visible, n, d
<1>13. CASE cr' = cr
  BY <1>0, <1>7, <1>8, <1>9, <1>10, <1>13, IntentsMove
<1>14. CASE UNCHANGED <<intents, status>>
  BY <1>0, <1>7, <1>8, <1>10, <1>11, <1>12, <1>14 DEF ClusterStep
<1> QED
  BY <1>13, <1>14, OneSideMoves

\* Ledger and relay together implement the delivery contract: objects move
\* forward only, the aggregate follows its objects, and only the newest operation
\* is acknowledged, once the aggregate carries it.
THEOREM ContractKept == RelaySpec => KeepsContract
<1>1. ASSUME RelayInit PROVE Delivery!ContractInit
  <2>1. Seqs = {} /\ intents = <<>>
    BY <1>1 DEF RelayInit, Init, Seqs
  <2>2. Needs = <<>>
    BY <2>1 DEF Needs
  <2>3. \A o \in Objects : cr[o].marker = 0
    BY <1>1 DEF RelayInit, Absent
  <2>4. Placement = [o \in Children |-> 0] /\ cr["deployment"].marker = 0
    BY <2>3 DEF Placement, Objects
  <2>5. Acknowledged = 0
    BY <2>1 DEF Acknowledged
  <2> QED
    BY <2>2, <2>4, <2>5 DEF Delivery!ContractInit, Needs, Placement
<1>2. LedgerInvariant /\ RelayInductive /\ [RelayNext]_vars => [Delivery!ContractNext]_(Delivery!contractVars)
  BY ContractStep
<1> QED
  BY <1>1, <1>2, RelaySafe, PTL DEF RelaySpec, KeepsContract, Delivery!Contract
=============================================================================
