---------------------------- MODULE AccessProofs -----------------------------
(***************************************************************************)
(* Proofs about the access ledger, its relays and the enforcement of       *)
(* access at the gateway, for all sets of sessions, workloads, models and  *)
(* relays, all windows and all bounds.                                     *)
(***************************************************************************)
EXTENDS AccessEnforcement, FiniteSetTheorems, WellFoundedInduction, TLAPS

------------------------------------------------------------------------------
(* The inductive invariant                                                 *)

Policy == [disabled : BOOLEAN, retired : BOOLEAN, models : SUBSET AccessModels]

Publication ==
    [hash : Policy, issued : Nat, until : Nat,
     phase : {"queued", "projecting", "projected", "failed", "superseded"},
     claim : Relays \cup {NoOne}, lease : Nat]

SourceTyped ==
    /\ now \in Nat \ {0}
    /\ subject \in [disabled : BOOLEAN, models : [AccessModels -> Nat]]
    /\ binding \in [Bindings -> [state : {"none", "live", "gone"}, until : Nat]]
    /\ change \in [pending : BOOLEAN, next : Nat, count : Nat]
    /\ allowedAt \in [Bindings -> [AccessModels -> Nat]]

\* allowedAt is a true record of the source, and no verification reaches further
\* ahead than one lifetime, so that a renewal never shortens it.
SourceObserved ==
    \A b \in Bindings :
        /\ binding[b].until <= now + Life
        /\ \A m \in AccessModels :
              /\ allowedAt[b][m] <= now
              /\ MayUse(subject, binding, b, m) => allowedAt[b][m] = now

\* A policy with a window is covered by the source: its window ends with the
\* verification of the binding and within the freshness, and all it allows was
\* allowed when the window began, or later.
Covered(b, models, issued, until) ==
    models # {} => /\ until <= binding[b].until
                   /\ until <= issued + Fresh
                   /\ \A m \in models : issued <= allowedAt[b][m]

PubsTyped == pubs \in [Bindings -> Seq(Publication)]

PubsCovered ==
    \A b \in Bindings : \A i \in 1 .. Len(pubs[b]) :
        /\ pubs[b][i].issued < pubs[b][i].until
        /\ pubs[b][i].until <= pubs[b][i].issued + Fresh
        /\ Covered(b, pubs[b][i].hash.models, pubs[b][i].issued, pubs[b][i].until)

\* What both the relays and the enforcement build on.
SourceInductive == SourceTyped /\ SourceObserved /\ PubsTyped /\ PubsCovered

------------------------------------------------------------------------------
(* What the relays add                                                     *)

GrantSpec ==
    [seq : Nat, disabled : BOOLEAN, models : SUBSET AccessModels, issued : Nat, until : Nat]

Grant ==
    [uid : Nat \ {0}, rv : Nat \ {0}, spec : GrantSpec, deleting : BOOLEAN, final : BOOLEAN]

RelayState ==
    [at : {"idle", "read", "write", "confirm", "finish"}, b : Bindings \cup {NoOne},
     seq : Nat, rv : Nat, phase : {"", "projected", "failed"}]

RelayTyped ==
    /\ relay \in [Relays -> RelayState]
    /\ grant \in [Bindings -> SUBSET Grant]
    /\ lastUid \in Nat

\* One grant for a binding, which carries one of its publications.
GrantsPublished ==
    \A b \in Bindings : \A g \in grant[b] :
        /\ grant[b] = {g}
        /\ ~g.deleting
        /\ g.spec.seq \in 1 .. Len(pubs[b])
        /\ g.spec = DesiredAccess(b, g.spec.seq)

\* A relay at work holds a publication; what it has read before a write was that
\* version of the grant, with nothing newer in it; what it has confirmed is
\* still there, or something newer.
Knows(r, ps, gr) ==
    /\ r.at # "idle" => r.b \in Bindings /\ r.seq \in 1 .. Len(ps[r.b])
    /\ r.at # "finish" => r.phase = ""
    /\ r.at = "write" /\ r.rv # 0 =>
          \E g \in gr[r.b] : g.rv >= r.rv /\ (g.rv = r.rv => g.spec.seq <= r.seq)
    /\ r.phase = "projected" => \E g \in gr[r.b] : g.spec.seq >= r.seq

RelaysKnow == \A w \in Relays : Knows(relay[w], pubs, grant)

\* A publication is claimed exactly while it is projected.
ClaimsMarked ==
    \A b \in Bindings : \A i \in 1 .. Len(pubs[b]) :
        (pubs[b][i].phase = "projecting") = (pubs[b][i].claim # NoOne)

\* A latest publication that is recorded as projected is in the grant.
ProjectedCarried ==
    \A b \in Bindings :
        pubs[b] # <<>> /\ pubs[b][Len(pubs[b])].phase = "projected" =>
            \E g \in grant[b] : g.spec.seq >= Len(pubs[b])

AccessInductive ==
    /\ SourceInductive
    /\ RelayTyped
    /\ GrantsPublished
    /\ RelaysKnow
    /\ ClaimsMarked
    /\ OnlyLatestIsOpen
    /\ ProjectedCarried
    /\ Scheduled

------------------------------------------------------------------------------
(* Numbers and sequences                                                   *)

\* Minimum of a set of natural numbers: a lower bound in the set.
LEMMA MinimumOfNaturals ==
    ASSUME NEW S \in SUBSET Nat, S # {}
    PROVE  Minimum(S) \in S /\ \A y \in S : Minimum(S) <= y
<1> DEFINE R == OpToRel(<, Nat)
<1>1. \E x \in S : \A y \in S : <<y, x>> \notin R
  <2>1. IsWellFoundedOn(R, Nat)
    BY NatLessThanWellFounded
  <2> HIDE DEF R
  <2> QED
    BY <2>1, WFMin
<1>2. \A x, y \in Nat : <<y, x>> \in R <=> y < x
  BY DEF OpToRel
<1> HIDE DEF R
<1>3. \E x \in S : \A y \in S : x <= y
  <2>1. PICK x \in S : \A y \in S : <<y, x>> \notin R
    BY <1>1
  <2>2. ASSUME NEW y \in S PROVE x <= y
    <3>1. ~(y < x)
      BY <1>2, <2>1, Zenon
    <3> QED
      BY <3>1
  <2> QED
    BY <2>2
<1> QED
  BY <1>3 DEF Minimum

\* The constants that times are made of.
LEMMA Constants ==
    /\ Fresh \in Nat /\ Fresh >= 2
    /\ Life \in Nat /\ ClaimLease \in Nat /\ MaxNow \in Nat
<1>1. Fresh \in Nat \ {0, 1}
  BY AccessAssumption
<1>2. Life \in Nat /\ ClaimLease \in Nat /\ MaxNow \in Nat
  BY AccessAssumption
<1> QED
  BY <1>1, <1>2

\* A function on 1 .. n is a sequence of length n.
LEMMA FunctionIsSequence ==
    ASSUME NEW S, NEW n \in Nat, NEW f \in [1 .. n -> S]
    PROVE  f \in Seq(S) /\ Len(f) = n
OBVIOUS

\* QueueModelAccessPublication: nothing changes, or the publication is added and
\* all earlier ones are closed; what the earlier ones say stays.
LEMMA QueueShape ==
    ASSUME NEW s \in Seq(Publication), NEW p \in Publication
    PROVE  LET q == Queue(s, p) IN
           /\ q \in Seq(Publication)
           /\ Len(q) >= 1 /\ Len(q) >= Len(s)
           /\ \A i \in 1 .. Len(s) : /\ q[i].hash = s[i].hash
                                     /\ q[i].issued = s[i].issued
                                     /\ q[i].until = s[i].until
           /\ \/ q = s /\ s # <<>>
              \/ /\ Len(q) = Len(s) + 1
                 /\ q[Len(q)] = p
                 /\ \A i \in 1 .. Len(s) :
                       \/ q[i] = s[i] /\ ~Open(s[i])
                       \/ q[i].phase = "superseded" /\ q[i].claim = NoOne
<1> DEFINE same == s # <<>> /\ s[Len(s)].hash = p.hash /\ s[Len(s)].until = p.until
                     /\ s[Len(s)].phase # "failed"
           closed(i) == IF Open(s[i]) THEN
                   [s[i] EXCEPT !.phase = "superseded", !.claim = NoOne, !.lease = 0] ELSE s[i]
           old == [i \in DOMAIN s |-> closed(i)]
<1>1. DOMAIN s = 1 .. Len(s) /\ Len(s) \in Nat
  OBVIOUS
<1>2. CASE same
  <2>1. Queue(s, p) = s
    BY <1>2 DEF Queue
  <2>2. Len(s) >= 1
    BY <1>1, <1>2
  <2> QED
    BY <1>2, <2>1, <2>2
<1>3. CASE ~same
  <2>1. Queue(s, p) = Append(old, p)
    BY <1>3 DEF Queue
  <2>2. ASSUME NEW i \in 1 .. Len(s)
        PROVE  /\ closed(i) \in Publication
               /\ closed(i).hash = s[i].hash
               /\ closed(i).issued = s[i].issued
               /\ closed(i).until = s[i].until
               /\ \/ closed(i) = s[i] /\ ~Open(s[i])
                  \/ closed(i).phase = "superseded" /\ closed(i).claim = NoOne
    <3>1. s[i] \in Publication
      BY <1>1
    <3> QED
      BY <3>1 DEF Publication
  <2>3. \A i \in 1 .. Len(s) : old[i] = closed(i)
    BY <1>1
  <2>4. old \in [1 .. Len(s) -> Publication]
    BY <1>1, <2>2
  <2> HIDE DEF old, closed
  <2>5. old \in Seq(Publication) /\ Len(old) = Len(s)
    BY <1>1, <2>4, FunctionIsSequence
  <2>6. /\ Append(old, p) \in Seq(Publication)
        /\ Len(Append(old, p)) = Len(s) + 1
        /\ Append(old, p)[Len(s) + 1] = p
        /\ \A i \in 1 .. Len(s) : Append(old, p)[i] = closed(i)
    BY <1>1, <2>3, <2>5
  <2> DEFINE q == Append(old, p)
  <2>7. /\ q \in Seq(Publication)
        /\ Len(q) = Len(s) + 1 /\ Len(q) >= 1 /\ Len(q) >= Len(s)
        /\ q[Len(q)] = p
        /\ \A i \in 1 .. Len(s) : q[i] = closed(i)
    BY <1>1, <2>6
  <2> HIDE DEF q
  <2>8. Queue(s, p) = q
    BY <2>1 DEF q
  <2>9. \A i \in 1 .. Len(s) :
           /\ q[i].hash = s[i].hash /\ q[i].issued = s[i].issued /\ q[i].until = s[i].until
           /\ \/ q[i] = s[i] /\ ~Open(s[i])
              \/ q[i].phase = "superseded" /\ q[i].claim = NoOne
    BY <2>2, <2>7, Zenon
  <2> QED
    BY <2>7, <2>8, <2>9, Zenon
<1> QED
  BY <1>2, <1>3

------------------------------------------------------------------------------
(* What a capture makes                                                    *)

\* modelAccessSnapshot: a policy, which allows something only to a verified
\* binding of an enabled subject, and then what the source allows it now.
LEMMA SnapshotPolicy ==
    ASSUME SourceTyped, NEW b \in Bindings
    PROVE  /\ Snapshot(b) \in Policy
           /\ Snapshot(b).models # {} =>
                 /\ Current(b) /\ ~Off(b)
                 /\ \A m \in Snapshot(b).models : MayUse(subject, binding, b, m)
<1>1. Models(subject) \in SUBSET AccessModels
  BY DEF Models
<1>2. CASE ~Current(b)
  BY <1>2 DEF Snapshot, Policy
<1>3. CASE Current(b) /\ Off(b)
  BY <1>3 DEF Snapshot, Policy
<1>4. CASE Current(b) /\ ~Off(b)
  <2> DEFINE p == [disabled |-> FALSE, retired |-> FALSE, models |-> Models(subject)]
  <2>1. Snapshot(b) = p
    BY <1>4 DEF Snapshot
  <2>2. p \in Policy /\ p.models = Models(subject)
    BY <1>1 DEF Policy
  <2>3. \A m \in Models(subject) : MayUse(subject, binding, b, m)
    BY <1>4, Zenon DEF Off, MayUse
  <2> HIDE DEF p
  <2> QED
    BY <1>4, <2>1, <2>2, <2>3, Zenon
<1> QED
  BY <1>2, <1>3, <1>4, Zenon

\* modelAccessDeadline: later than now, within the freshness and, for a policy that
\* may allow something, not after the verification ends.
LEMMA DeadlineWindow ==
    ASSUME SourceTyped, NEW b \in Bindings
    PROVE  /\ Deadline(b) \in Nat
           /\ now < Deadline(b) /\ Deadline(b) <= now + Fresh
           /\ Current(b) /\ ~Off(b) => Deadline(b) <= binding[b].until
<1>1. now \in Nat /\ Fresh \in Nat /\ Fresh >= 2
  BY Constants DEF SourceTyped
<1>2. CASE ~Current(b) \/ Off(b)
  <2>1. Deadline(b) = now + Fresh
    BY <1>2, Zenon DEF Deadline
  <2> QED
    BY <1>1, <1>2, <2>1
<1>3. CASE ~(~Current(b) \/ Off(b))
  <2> DEFINE S == {now + Fresh, binding[b].until}
                     \cup {subject.models[m] : m \in Models(subject)}
  <2>1. Deadline(b) = Minimum(S)
    BY <1>3, Zenon DEF Deadline
  <2>2. binding[b].until \in Nat /\ binding[b].until > now
    BY <1>3 DEF Off, Verified, SourceTyped
  <2>3. \A m \in Models(subject) : subject.models[m] \in Nat /\ subject.models[m] > now
    BY DEF Models, SourceTyped
  <2>4. S \in SUBSET Nat /\ now + Fresh \in S /\ binding[b].until \in S
    BY <1>1, <2>2, <2>3
  <2>5. \A x \in S : x > now
    BY <1>1, <2>2, <2>3
  <2> HIDE DEF S
  <2>6. Minimum(S) \in S /\ \A y \in S : Minimum(S) <= y
    BY <2>4, MinimumOfNaturals
  <2> QED
    BY <1>1, <2>1, <2>2, <2>4, <2>5, <2>6
<1> QED
  BY <1>2, <1>3, Zenon

\* canonicalAccessIntents: a new publication has a window that is not empty and
\* is covered by the source.
LEMMA IntentCovered ==
    ASSUME SourceInductive, NEW b \in Bindings, NEW due
    PROVE  LET p == Intent(b, due) IN
           /\ p \in Publication
           /\ p.hash = Snapshot(b) /\ p.phase = "queued" /\ p.claim = NoOne
           /\ p.issued < p.until /\ p.until <= p.issued + Fresh
           /\ Covered(b, p.hash.models, p.issued, p.until)
<1>0. SourceTyped /\ SourceObserved /\ PubsTyped /\ PubsCovered
  BY DEF SourceInductive
<1>1. Snapshot(b) \in Policy
  BY <1>0, SnapshotPolicy
<1> DEFINE issued == IF KeepsWindow(b, due) THEN Latest(b).issued ELSE now
           until == IF KeepsWindow(b, due) THEN Latest(b).until ELSE Deadline(b)
           p == [hash |-> Snapshot(b), issued |-> issued, until |-> until,
                 phase |-> "queued", claim |-> NoOne, lease |-> 0]
<1>2. /\ issued \in Nat /\ until \in Nat
      /\ issued < until /\ until <= issued + Fresh
      /\ Covered(b, Snapshot(b).models, issued, until)
  <2>1. CASE KeepsWindow(b, due)
    <3> DEFINE n == Len(pubs[b])
    <3>1. pubs[b] \in Seq(Publication) /\ pubs[b] # <<>>
      BY <1>0, <2>1 DEF PubsTyped, KeepsWindow
    <3>2. n \in 1 .. Len(pubs[b]) /\ pubs[b][n] \in Publication
      BY <3>1
    <3>3. pubs[b][n].issued \in Nat /\ pubs[b][n].until \in Nat
      BY <3>2 DEF Publication
    <3>4. /\ pubs[b][n].issued < pubs[b][n].until
          /\ pubs[b][n].until <= pubs[b][n].issued + Fresh
          /\ Covered(b, pubs[b][n].hash.models, pubs[b][n].issued, pubs[b][n].until)
      BY <1>0, <3>2, Zenon DEF PubsCovered
    <3>5. pubs[b][n].hash = Snapshot(b) /\ issued = pubs[b][n].issued /\ until = pubs[b][n].until
      BY <2>1 DEF KeepsWindow, Latest
    <3> QED
      BY <3>3, <3>4, <3>5
  <2>2. CASE ~KeepsWindow(b, due)
    <3>1. issued = now /\ until = Deadline(b)
      BY <2>2
    <3>2. now \in Nat
      BY <1>0 DEF SourceTyped
    <3>3. Covered(b, Snapshot(b).models, now, Deadline(b))
      <4> SUFFICES ASSUME Snapshot(b).models # {}
                   PROVE  /\ Deadline(b) <= binding[b].until
                          /\ Deadline(b) <= now + Fresh
                          /\ \A m \in Snapshot(b).models : now <= allowedAt[b][m]
        BY DEF Covered
      <4>1. /\ Current(b) /\ ~Off(b)
            /\ \A m \in Snapshot(b).models : MayUse(subject, binding, b, m)
        BY <1>0, SnapshotPolicy
      <4>2. \A m \in Snapshot(b).models : allowedAt[b][m] = now
        BY <1>0, <1>1, <4>1 DEF SourceObserved, Policy
      <4> QED
        BY <1>0, <3>2, <4>1, <4>2, DeadlineWindow
    <3> HIDE DEF issued, until
    <3> QED
      BY <1>0, <3>1, <3>2, <3>3, DeadlineWindow
  <2> QED
    BY <2>1, <2>2
<1>3. Intent(b, due) = p
  BY DEF Intent
<1> HIDE DEF issued, until
<1>4. /\ p \in Publication
      /\ p.hash = Snapshot(b) /\ p.phase = "queued" /\ p.claim = NoOne
      /\ p.issued = issued /\ p.until = until
  BY <1>1, <1>2 DEF Publication
<1> HIDE DEF p
<1> QED
  BY <1>2, <1>3, <1>4

------------------------------------------------------------------------------
(* Steps of the source                                                     *)

\* Verifications and observations never move back.
SourceForward ==
    \A b \in Bindings :
        /\ binding'[b].until >= binding[b].until
        /\ \A m \in AccessModels : allowedAt'[b][m] >= allowedAt[b][m]

\* Publications are added; what they say does not change.
PubsForward ==
    \A b \in Bindings :
        /\ Len(pubs'[b]) >= Len(pubs[b])
        /\ \A i \in 1 .. Len(pubs[b]) : /\ pubs'[b][i].hash = pubs[b][i].hash
                                        /\ pubs'[b][i].issued = pubs[b][i].issued
                                        /\ pubs'[b][i].until = pubs[b][i].until

\* What is covered stays covered.
LEMMA CoveredKept ==
    ASSUME SourceTyped, SourceTyped', SourceForward, NEW b \in Bindings,
           NEW M \in SUBSET AccessModels, NEW i \in Nat, NEW u \in Nat,
           Covered(b, M, i, u)
    PROVE  Covered(b, M, i, u)'
<1> SUFFICES ASSUME M # {}
             PROVE  /\ u <= binding'[b].until
                    /\ u <= i + Fresh
                    /\ \A m \in M : i <= allowedAt'[b][m]
  BY DEF Covered
<1>1. u <= binding[b].until /\ u <= i + Fresh /\ \A m \in M : i <= allowedAt[b][m]
  BY DEF Covered
<1>2. binding[b].until \in Nat /\ binding'[b].until \in Nat
  BY DEF SourceTyped
<1>3. \A m \in AccessModels : allowedAt[b][m] \in Nat /\ allowedAt'[b][m] \in Nat
  BY DEF SourceTyped
<1> QED
  BY <1>1, <1>2, <1>3 DEF SourceForward

\* A step that observes the source keeps its record true.
LEMMA ObserveKeeps ==
    ASSUME SourceTyped, SourceObserved, now' = now,
           Observe(subject', binding')
    PROVE  /\ allowedAt' \in [Bindings -> [AccessModels -> Nat]]
           /\ \A b \in Bindings, m \in AccessModels :
                 /\ allowedAt'[b][m] >= allowedAt[b][m]
                 /\ allowedAt'[b][m] <= now'
                 /\ MayUse(subject, binding, b, m)' => allowedAt'[b][m] = now'
<1> DEFINE May(b, m) == MayUse(subject', binding', b, m)
<1>1. now \in Nat
  BY DEF SourceTyped
<1>2. \A b \in Bindings, m \in AccessModels :
         allowedAt[b][m] \in Nat /\ allowedAt[b][m] <= now
  BY DEF SourceTyped, SourceObserved
<1>3. allowedAt' = [b \in Bindings |-> [m \in AccessModels |->
                      IF May(b, m) THEN now ELSE allowedAt[b][m]]]
  BY DEF Observe
<1>4. \A b \in Bindings, m \in AccessModels : MayUse(subject, binding, b, m)' <=> May(b, m)
  BY DEF MayUse, Verified, Models
<1> HIDE DEF May
<1>5. allowedAt' \in [Bindings -> [AccessModels -> Nat]]
  BY <1>1, <1>2, <1>3
<1>6. \A b \in Bindings, m \in AccessModels :
         allowedAt'[b][m] = IF May(b, m) THEN now ELSE allowedAt[b][m]
  BY <1>3
<1> QED
  BY <1>1, <1>2, <1>4, <1>5, <1>6

\* A signal is typed.
LEMMA SignalTyped ==
    ASSUME NEW c \in [pending : BOOLEAN, next : Nat, count : Nat]
    PROVE  Signal(c) \in [pending : BOOLEAN, next : Nat, count : Nat]
<1> DEFINE e == [c EXCEPT !.pending = TRUE]
           n == c.count + 1
<1>1. n \in Nat
  OBVIOUS
<1>2. Signal(c) = [e EXCEPT !.count = n]
  BY DEF Signal
<1>3. e \in [pending : BOOLEAN, next : Nat, count : Nat]
  OBVIOUS
<1> HIDE DEF e, n
<1>4. [e EXCEPT !.count = n] \in [pending : BOOLEAN, next : Nat, count : Nat]
  BY <1>1, <1>3
<1> QED
  BY <1>2, <1>4

\* A business change keeps the types and the record when it leaves the new
\* bindings typed, within a lifetime and not shorter.
LEMMA ChangeKeeps ==
    ASSUME SourceTyped, SourceObserved, now' = now,
           Observe(subject', binding'),
           subject' \in [disabled : BOOLEAN, models : [AccessModels -> Nat]],
           binding' \in [Bindings -> [state : {"none", "live", "gone"}, until : Nat]],
           \A b \in Bindings : /\ binding'[b].until <= now + Life
                               /\ binding'[b].until >= binding[b].until,
           change' = change \/ change' = Signal(change)
    PROVE  SourceTyped' /\ SourceObserved' /\ SourceForward
<1>1. change' \in [pending : BOOLEAN, next : Nat, count : Nat]
  <2>1. change \in [pending : BOOLEAN, next : Nat, count : Nat]
    BY DEF SourceTyped
  <2>2. CASE change' = change
    BY <2>1, <2>2
  <2>3. CASE change' = Signal(change)
    BY <2>1, <2>3, SignalTyped, Zenon
  <2> QED
    BY <2>2, <2>3
<1>2. now' \in Nat \ {0}
  BY DEF SourceTyped
<1>3. /\ allowedAt' \in [Bindings -> [AccessModels -> Nat]]
      /\ \A b \in Bindings, m \in AccessModels :
            /\ allowedAt'[b][m] >= allowedAt[b][m]
            /\ allowedAt'[b][m] <= now'
            /\ MayUse(subject, binding, b, m)' => allowedAt'[b][m] = now'
  BY ObserveKeeps
<1>4. SourceTyped'
  BY <1>1, <1>2, <1>3, Zenon DEF SourceTyped
<1>5. SourceObserved'
  BY <1>3, Zenon DEF SourceObserved
<1> QED
  BY <1>3, <1>4, <1>5, Zenon DEF SourceForward

\* No business step breaks the record of the source, and none shortens a
\* verification.
LEMMA SourceStep ==
    ASSUME SourceTyped, SourceObserved, BusinessStep, ~Capture
    PROVE  SourceTyped' /\ SourceObserved' /\ SourceForward /\ UNCHANGED pubs
<1> DEFINE Goal == SourceTyped' /\ SourceObserved' /\ SourceForward /\ UNCHANGED pubs
           Bound == \A b \in Bindings : /\ binding'[b].until <= now + Life
                                        /\ binding'[b].until >= binding[b].until
<1>0. /\ now \in Nat /\ Life \in Nat
      /\ subject \in [disabled : BOOLEAN, models : [AccessModels -> Nat]]
      /\ binding \in [Bindings -> [state : {"none", "live", "gone"}, until : Nat]]
      /\ \A b \in Bindings : binding[b].until \in Nat /\ binding[b].until <= now + Life
  BY Constants DEF SourceTyped, SourceObserved
<1>1. ASSUME UNCHANGED binding PROVE Bound
  BY <1>0, <1>1
<1>2. CASE SetDisabled
  <2>1. subject' \in [disabled : BOOLEAN, models : [AccessModels -> Nat]]
    BY <1>0, <1>2 DEF SetDisabled
  <2>2. UNCHANGED binding
    BY <1>2 DEF SetDisabled
  <2>3. /\ Observe(subject', binding') /\ UNCHANGED <<now, pubs>>
        /\ change' = Signal(change)
    BY <1>2 DEF SetDisabled, Changes
  <2>4. binding' \in [Bindings -> [state : {"none", "live", "gone"}, until : Nat]]
    BY <1>0, <2>2
  <2> QED
    BY <1>1, <2>1, <2>2, <2>3, <2>4, ChangeKeeps
<1>3. ASSUME NEW m \in AccessModels, NEW e \in GrantTimes, AssignModel(m, e) PROVE Goal
  <2>0. e \in Nat
    BY AccessAssumption
  <2>1. subject' \in [disabled : BOOLEAN, models : [AccessModels -> Nat]]
    BY <1>0, <1>3, <2>0 DEF AssignModel
  <2>2. UNCHANGED binding
    BY <1>3 DEF AssignModel
  <2>3. /\ Observe(subject', binding') /\ UNCHANGED <<now, pubs>>
        /\ change' = Signal(change)
    BY <1>3 DEF AssignModel, Changes
  <2>4. binding' \in [Bindings -> [state : {"none", "live", "gone"}, until : Nat]]
    BY <1>0, <2>2
  <2> QED
    BY <1>1, <2>1, <2>2, <2>3, <2>4, ChangeKeeps
<1>4. ASSUME NEW b \in Bindings,
             \/ OpenSession(b) \/ CloseSession(b) \/ RegisterWorkload(b)
             \/ Renew(b) \/ Reverify(b)
      PROVE  Goal
  <2>1. UNCHANGED subject /\ UNCHANGED <<now, pubs>> /\ Observe(subject', binding')
    BY <1>4 DEF OpenSession, CloseSession, RegisterWorkload, Renew, Reverify, Changes
  <2>2. change' = change \/ change' = Signal(change)
    BY <1>4 DEF OpenSession, CloseSession, RegisterWorkload, Renew, Reverify, Changes
  <2>3. /\ binding' \in [Bindings -> [state : {"none", "live", "gone"}, until : Nat]]
        /\ Bound
    <3>1. CASE OpenSession(b)
      BY <1>0, <3>1 DEF OpenSession
    <3>2. CASE CloseSession(b)
      BY <1>0, <3>2 DEF CloseSession
    <3>3. CASE RegisterWorkload(b)
      <4>1. ASSUME NEW c \in Bindings
            PROVE  /\ binding'[c] \in [state : {"none", "live", "gone"}, until : Nat]
                   /\ binding'[c].until \in {binding[c].until, now + Life}
        BY <1>0, <3>3 DEF RegisterWorkload
      <4>2. DOMAIN binding' = Bindings
        BY <3>3 DEF RegisterWorkload
      <4>3. binding' = [c \in Bindings |-> binding'[c]]
        BY <3>3 DEF RegisterWorkload
      <4> QED
        BY <1>0, <4>1, <4>2, <4>3
    <3>4. CASE Renew(b) \/ Reverify(b)
      BY <1>0, <3>4 DEF Renew, Reverify
    <3> QED
      BY <1>4, <3>1, <3>2, <3>3, <3>4
  <2>4. subject' \in [disabled : BOOLEAN, models : [AccessModels -> Nat]]
    BY <1>0, <2>1
  <2> QED
    BY <2>1, <2>2, <2>3, <2>4, ChangeKeeps
<1>5. CASE Tick
  <2>1. /\ now' = now + 1 /\ UNCHANGED <<subject, binding, change, pubs>>
        /\ allowedAt' = [b \in Bindings |-> [m \in AccessModels |->
                           IF MayUse(subject, binding, b, m)' THEN now' ELSE allowedAt[b][m]]]
    BY <1>5 DEF Tick, MayUse, Verified, Models
  <2> DEFINE May(b, m) == MayUse(subject, binding, b, m)'
  <2>2. now' \in Nat \ {0} /\ now' = now + 1
    BY <1>0, <2>1
  <2>3. \A b \in Bindings, m \in AccessModels :
           allowedAt[b][m] \in Nat /\ allowedAt[b][m] <= now
    BY DEF SourceTyped, SourceObserved
  <2>4. allowedAt' = [b \in Bindings |-> [m \in AccessModels |->
                        IF May(b, m) THEN now' ELSE allowedAt[b][m]]]
    BY <2>1
  <2> HIDE DEF May
  <2>5. allowedAt' \in [Bindings -> [AccessModels -> Nat]]
    BY <2>2, <2>3, <2>4
  <2>6. \A b \in Bindings, m \in AccessModels :
           /\ allowedAt'[b][m] >= allowedAt[b][m]
           /\ allowedAt'[b][m] <= now'
           /\ May(b, m) => allowedAt'[b][m] = now'
    BY <1>0, <2>2, <2>3, <2>4
  <2>7. SourceTyped'
    BY <2>1, <2>2, <2>5 DEF SourceTyped
  <2>8. \A b \in Bindings : binding'[b].until <= now' + Life /\ binding'[b].until >= binding[b].until
    BY <1>0, <2>1, <2>2
  <2>9. SourceObserved'
    BY <2>6, <2>8, Zenon DEF SourceObserved, May
  <2> QED
    BY <2>1, <2>6, <2>7, <2>8, <2>9 DEF SourceForward
<1>6. Sessions \subseteq Bindings /\ Workloads \subseteq Bindings
  BY DEF Bindings
<1> HIDE DEF Goal
<1>7. Goal
  BY <1>2, <1>3, <1>4, <1>5, <1>6, Zenon DEF BusinessStep, Goal
<1> QED
  BY <1>7 DEF Goal

------------------------------------------------------------------------------
(* The capture                                                             *)

\* The renewal of a publication is scheduled, and before it ends.
LEMMA RenewalTime ==
    ASSUME SourceTyped, NEW b \in Bindings, NEW p \in Publication, p.issued < p.until
    PROVE  /\ RenewAt(b, p) \in SUBSET (Nat \ {0})
           /\ p.until > now => \E t \in RenewAt(b, p) : t <= p.until
<1>1. now \in Nat /\ now >= 1 /\ p.until \in Nat /\ p.issued \in Nat
  BY DEF SourceTyped, Publication
<1>2. p.until >= 1
  BY <1>1
<1>3. CASE b \in Workloads /\ p.until - now >= 2
  <2> DEFINE d == (p.until - now) \div 2
  <2>1. d \in Nat /\ d <= p.until - now
    BY <1>1, <1>3
  <2>2. RenewAt(b, p) = {now + d}
    BY <1>3 DEF RenewAt
  <2> HIDE DEF d
  <2>3. now + d \in Nat \ {0} /\ now + d <= p.until
    BY <1>1, <2>1
  <2> QED
    BY <2>2, <2>3
<1>4. CASE b \in Workloads /\ ~(p.until - now >= 2)
  <2>1. RenewAt(b, p) = {p.until}
    BY <1>4 DEF RenewAt
  <2> QED
    BY <1>1, <1>2, <2>1
<1>5. CASE b \notin Workloads /\ p.until = p.issued + Fresh
  <2> DEFINE d == Fresh \div 2
  <2>1. d \in Nat /\ d >= 1 /\ d <= Fresh /\ Fresh \in Nat
    BY Constants
  <2>2. RenewAt(b, p) = {p.issued + d}
    BY <1>5 DEF RenewAt
  <2> HIDE DEF d
  <2>3. p.issued + d \in Nat \ {0} /\ p.issued + d <= p.until
    BY <1>1, <1>5, <2>1
  <2> QED
    BY <2>2, <2>3
<1>6. CASE b \notin Workloads /\ p.until # p.issued + Fresh
  <2>1. RenewAt(b, p) = {p.until}
    BY <1>6 DEF RenewAt
  <2> QED
    BY <1>1, <1>2, <2>1
<1> QED
  BY <1>3, <1>4, <1>5, <1>6

\* The next capture is scheduled before any captured access ends.
LEMMA CaptureTime ==
    ASSUME SourceTyped, NEW ps \in [Bindings -> Seq(Publication)],
           \A b \in Captured : /\ ps[b] # <<>>
                               /\ ps[b][Len(ps[b])].issued < ps[b][Len(ps[b])].until
    PROVE  /\ NextCapture(ps) \in Nat
           /\ \A b \in Captured :
                 ps[b][Len(ps[b])].hash.models # {} /\ ps[b][Len(ps[b])].until > now =>
                    NextCapture(ps) # 0 /\ NextCapture(ps) <= ps[b][Len(ps[b])].until
<1> DEFINE last(b) == ps[b][Len(ps[b])]
           open == {c \in Captured : last(c).hash.models # {}}
           times == UNION {RenewAt(b, last(b)) : b \in open}
<1>1. NextCapture(ps) = IF times = {} THEN 0 ELSE Minimum(times)
  BY Zenon DEF NextCapture
<1>2. \A b \in Captured : b \in Bindings /\ last(b) \in Publication /\ last(b).issued < last(b).until
  <2> SUFFICES ASSUME NEW b \in Captured
               PROVE  b \in Bindings /\ last(b) \in Publication /\ last(b).issued < last(b).until
    BY Zenon
  <2>1. b \in Bindings /\ ps[b] # <<>> /\ ps[b] \in Seq(Publication)
    BY DEF Captured
  <2>2. Len(ps[b]) \in 1 .. Len(ps[b])
    BY <2>1
  <2> QED
    BY <2>1, <2>2
<1> HIDE DEF last
<1>3. \A b \in open : /\ RenewAt(b, last(b)) \in SUBSET (Nat \ {0})
                      /\ last(b).until > now => \E t \in RenewAt(b, last(b)) : t <= last(b).until
  BY <1>2, RenewalTime
<1>4. times \in SUBSET (Nat \ {0})
  BY <1>3, Zenon
<1>5. \A b \in open : \A t \in RenewAt(b, last(b)) : t \in times
  BY Zenon
<1> HIDE DEF times
<1>6. times # {} => Minimum(times) \in times /\ \A y \in times : Minimum(times) <= y
  <2>1. times \in SUBSET Nat
    BY <1>4
  <2> QED
    BY <2>1, MinimumOfNaturals
<1>7. NextCapture(ps) \in Nat
  <2>1. CASE times = {}
    BY <1>1, <2>1
  <2>2. CASE times # {}
    BY <1>1, <1>4, <1>6, <2>2
  <2> QED
    BY <2>1, <2>2
<1>8. ASSUME NEW b \in Captured, last(b).hash.models # {}, last(b).until > now
      PROVE  NextCapture(ps) # 0 /\ NextCapture(ps) <= last(b).until
  <2>1. b \in open
    BY <1>8
  <2>2. PICK t \in RenewAt(b, last(b)) : t <= last(b).until
    BY <1>3, <1>8, <2>1
  <2>3. t \in times
    BY <1>5, <2>1, <2>2
  <2>4. last(b).until \in Nat
    BY <1>2 DEF Publication
  <2>5. Minimum(times) \in Nat \ {0} /\ Minimum(times) <= t /\ t \in Nat /\ times # {}
    BY <1>4, <1>6, <2>3
  <2> QED
    BY <1>1, <2>2, <2>4, <2>5
<1> QED
  BY <1>7, <1>8, Zenon DEF last

\* Publications stay covered when they only grow, by covered ones.
LEMMA PubsKept ==
    ASSUME SourceTyped, SourceTyped', SourceForward,
           PubsTyped, PubsTyped', PubsCovered, PubsForward,
           \A b \in Bindings : \A i \in 1 .. Len(pubs'[b]) :
              i \in 1 .. Len(pubs[b]) \/
                 /\ pubs'[b][i].issued < pubs'[b][i].until
                 /\ pubs'[b][i].until <= pubs'[b][i].issued + Fresh
                 /\ Covered(b, pubs[b][i].hash.models, pubs[b][i].issued, pubs[b][i].until)'
    PROVE  PubsCovered'
<1> SUFFICES ASSUME NEW b \in Bindings, NEW i \in 1 .. Len(pubs[b])
             PROVE  /\ pubs'[b][i].issued < pubs'[b][i].until
                    /\ pubs'[b][i].until <= pubs'[b][i].issued + Fresh
                    /\ Covered(b, pubs[b][i].hash.models, pubs[b][i].issued, pubs[b][i].until)'
  BY Zenon DEF PubsCovered
<1> DEFINE p == pubs[b][i]
<1>1. p \in Publication
  BY DEF PubsTyped
<1>2. p.hash.models \in SUBSET AccessModels /\ p.issued \in Nat /\ p.until \in Nat
  BY <1>1 DEF Publication, Policy
<1>3. /\ p.issued < p.until
      /\ p.until <= p.issued + Fresh
      /\ Covered(b, p.hash.models, p.issued, p.until)
  BY Zenon DEF PubsCovered
<1>4. pubs'[b][i].hash = p.hash /\ pubs'[b][i].issued = p.issued /\ pubs'[b][i].until = p.until
  BY Zenon DEF PubsForward
<1> HIDE DEF p
<1>5. \A M \in SUBSET AccessModels, x \in Nat, u \in Nat :
         Covered(b, M, x, u) => Covered(b, M, x, u)'
  BY CoveredKept, Zenon
<1> QED
  BY <1>2, <1>3, <1>4, <1>5 DEF Covered

\* captureModelAccess: what it does to the publications of one binding.
LEMMA CapturedShape ==
    ASSUME SourceInductive, Capture, NEW b \in Bindings
    PROVE  /\ pubs'[b] \in Seq(Publication)
           /\ Len(pubs'[b]) >= Len(pubs[b])
           /\ b \in Captured => pubs'[b] # <<>>
           /\ \A i \in 1 .. Len(pubs[b]) : /\ pubs'[b][i].hash = pubs[b][i].hash
                                           /\ pubs'[b][i].issued = pubs[b][i].issued
                                           /\ pubs'[b][i].until = pubs[b][i].until
           /\ \/ pubs'[b] = pubs[b]
              \/ \E p \in Publication :
                    /\ Len(pubs'[b]) = Len(pubs[b]) + 1
                    /\ pubs'[b][Len(pubs'[b])] = p
                    /\ p.phase = "queued" /\ p.claim = NoOne
                    /\ p.issued < p.until /\ p.until <= p.issued + Fresh
                    /\ Covered(b, p.hash.models, p.issued, p.until)
                    /\ \A i \in 1 .. Len(pubs[b]) :
                          \/ pubs'[b][i] = pubs[b][i] /\ ~Open(pubs[b][i])
                          \/ pubs'[b][i].phase = "superseded" /\ pubs'[b][i].claim = NoOne
<1> DEFINE due == change.next # 0 /\ change.next <= now
           s == pubs[b]
           p == Intent(b, due)
           q == Queue(s, p)
<1>1. s \in Seq(Publication)
  BY DEF SourceInductive, PubsTyped
<1>2. pubs'[b] = IF b \in Captured THEN q ELSE s
  BY DEF Capture
<1>3. /\ p \in Publication
      /\ p.phase = "queued" /\ p.claim = NoOne
      /\ p.issued < p.until /\ p.until <= p.issued + Fresh
      /\ Covered(b, p.hash.models, p.issued, p.until)
  BY IntentCovered, Zenon
<1> HIDE DEF p, due
<1>4. /\ q \in Seq(Publication)
      /\ Len(q) >= 1 /\ Len(q) >= Len(s)
      /\ \A i \in 1 .. Len(s) : /\ q[i].hash = s[i].hash
                                /\ q[i].issued = s[i].issued
                                /\ q[i].until = s[i].until
      /\ \/ q = s /\ s # <<>>
         \/ /\ Len(q) = Len(s) + 1
            /\ q[Len(q)] = p
            /\ \A i \in 1 .. Len(s) :
                  \/ q[i] = s[i] /\ ~Open(s[i])
                  \/ q[i].phase = "superseded" /\ q[i].claim = NoOne
  BY <1>1, <1>3, QueueShape, Zenon
<1> HIDE DEF q
<1>5. q # <<>>
  BY <1>4
<1>6. CASE b \notin Captured
  <2>1. pubs'[b] = s
    BY <1>2, <1>6
  <2>2. Len(pubs'[b]) >= Len(s)
    BY <1>1, <2>1
  <2> QED
    BY <1>1, <1>6, <2>1, <2>2, Zenon
<1>7. CASE b \in Captured
  <2>1. pubs'[b] = q
    BY <1>2, <1>7
  <2> HIDE DEF s
  <2>2. pubs[b] = s
    BY DEF s
  <2> QED
    BY <1>3, <1>4, <1>5, <2>1, <2>2, Zenon
<1> QED
  BY <1>6, <1>7

\* A capture keeps what is known of source and publications, and schedules.
LEMMA CaptureStep ==
    ASSUME SourceInductive, Capture
    PROVE  SourceInductive' /\ SourceForward /\ PubsForward /\ Scheduled'
<1>0. SourceTyped /\ SourceObserved /\ PubsTyped /\ PubsCovered
  BY DEF SourceInductive
<1>1. UNCHANGED <<now, subject, binding, allowedAt>>
  BY DEF Capture
<1>2. PubsTyped'
  <2>1. DOMAIN pubs' = Bindings /\ pubs' = [b \in Bindings |-> pubs'[b]]
    BY DEF Capture
  <2>2. \A b \in Bindings : pubs'[b] \in Seq(Publication)
    BY CapturedShape, Zenon
  <2> QED
    BY <2>1, <2>2 DEF PubsTyped
<1>3. PubsForward
  BY CapturedShape, Zenon DEF PubsForward
<1>4. SourceForward
  <2>1. \A b \in Bindings : binding[b].until \in Nat
    BY <1>0 DEF SourceTyped
  <2>2. \A b \in Bindings, m \in AccessModels : allowedAt[b][m] \in Nat
    BY <1>0 DEF SourceTyped
  <2> QED
    BY <1>1, <2>1, <2>2 DEF SourceForward
<1>5. ASSUME NEW b \in Bindings, NEW i \in 1 .. Len(pubs'[b]), i \notin 1 .. Len(pubs[b])
      PROVE  /\ pubs'[b][i].issued < pubs'[b][i].until
             /\ pubs'[b][i].until <= pubs'[b][i].issued + Fresh
             /\ Covered(b, pubs[b][i].hash.models, pubs[b][i].issued, pubs[b][i].until)'
  <2>1. pubs[b] \in Seq(Publication) /\ pubs'[b] \in Seq(Publication)
    BY <1>0, <1>2 DEF PubsTyped
  <2>2. pubs'[b] # pubs[b]
    BY <1>5
  <2>3. PICK p \in Publication :
           /\ Len(pubs'[b]) = Len(pubs[b]) + 1
           /\ pubs'[b][Len(pubs'[b])] = p
           /\ p.issued < p.until /\ p.until <= p.issued + Fresh
           /\ Covered(b, p.hash.models, p.issued, p.until)
    BY <2>2, CapturedShape, Zenon
  <2>4. i = Len(pubs'[b])
    BY <1>5, <2>1, <2>3
  <2>5. pubs'[b][i] = p
    BY <2>3, <2>4
  <2> QED
    BY <1>1, <2>3, <2>5 DEF Covered
<1>6. ASSUME NEW b \in Captured
      PROVE  /\ b \in Bindings
             /\ pubs'[b] # <<>>
             /\ pubs'[b][Len(pubs'[b])].issued < pubs'[b][Len(pubs'[b])].until
  <2>1. b \in Bindings
    BY DEF Captured
  <2>2. pubs'[b] # <<>> /\ pubs'[b] \in Seq(Publication) /\ pubs[b] \in Seq(Publication)
    BY <1>0, <2>1, CapturedShape DEF PubsTyped
  <2>3. Len(pubs'[b]) \in 1 .. Len(pubs'[b])
    BY <2>2
  <2>4. CASE pubs'[b] = pubs[b]
    <3>1. Len(pubs[b]) \in 1 .. Len(pubs[b])
      BY <2>3, <2>4
    <3>2. pubs[b][Len(pubs[b])].issued < pubs[b][Len(pubs[b])].until
      BY <1>0, <2>1, <3>1, Zenon DEF PubsCovered
    <3> QED
      BY <2>1, <2>2, <2>4, <3>2
  <2>5. CASE pubs'[b] # pubs[b]
    BY <2>1, <2>5, CapturedShape, Zenon
  <2> QED
    BY <2>1, <2>2, <2>4, <2>5
<1>7. /\ NextCapture(pubs') \in Nat
      /\ \A b \in Captured :
            pubs'[b][Len(pubs'[b])].hash.models # {} /\ pubs'[b][Len(pubs'[b])].until > now =>
               NextCapture(pubs') # 0 /\ NextCapture(pubs') <= pubs'[b][Len(pubs'[b])].until
  <2>1. pubs' \in [Bindings -> Seq(Publication)]
    BY <1>2 DEF PubsTyped
  <2> QED
    BY <1>0, <1>6, <2>1, CaptureTime, Zenon
<1>8. /\ change' \in [pending : BOOLEAN, next : Nat, count : Nat]
      /\ change'.next = NextCapture(pubs')
  <2> DEFINE n == NextCapture(pubs')
  <2>1. change' = [change EXCEPT !.pending = FALSE, !.next = n]
    BY DEF Capture
  <2>2. change \in [pending : BOOLEAN, next : Nat, count : Nat]
    BY <1>0 DEF SourceTyped
  <2>3. n \in Nat
    BY <1>7
  <2> HIDE DEF n
  <2> DEFINE e == [change EXCEPT !.pending = FALSE]
  <2>4. e \in [pending : BOOLEAN, next : Nat, count : Nat]
    BY <2>2
  <2>5. change' = [e EXCEPT !.next = n]
    BY <2>1
  <2> HIDE DEF e
  <2>6. change' \in [pending : BOOLEAN, next : Nat, count : Nat] /\ change'.next = n
    BY <2>3, <2>4, <2>5
  <2> QED
    BY <2>6 DEF n
<1>9. SourceTyped'
  BY <1>0, <1>1, <1>8 DEF SourceTyped
<1>10. SourceObserved'
  BY <1>0, <1>1 DEF SourceObserved, MayUse, Verified, Models
<1>11. PubsCovered'
  BY <1>0, <1>2, <1>3, <1>4, <1>5, <1>9, PubsKept
<1>12. Scheduled'
  <2> SUFFICES ASSUME NEW b \in Bindings, pubs'[b] # <<>>,
                      pubs'[b][Len(pubs'[b])].hash.models # {},
                      pubs'[b][Len(pubs'[b])].until > now
               PROVE  change'.next # 0 /\ change'.next <= pubs'[b][Len(pubs'[b])].until
    BY <1>1 DEF Scheduled, Latest
  <2>1. b \in Captured
    <3>1. CASE b \notin Captured
      <4>1. pubs'[b] = pubs[b]
        BY <3>1 DEF Capture
      <4> QED
        BY <3>1, <4>1 DEF Captured
    <3> QED
      BY <3>1
  <2> QED
    BY <1>7, <1>8, <2>1
<1> QED
  BY <1>2, <1>3, <1>4, <1>9, <1>10, <1>11, <1>12 DEF SourceInductive

\* Every step of the business side keeps what is known of source and publications.
LEMMA BusinessKeeps ==
    ASSUME SourceInductive, BusinessStep
    PROVE  /\ SourceInductive' /\ SourceForward /\ PubsForward
           /\ Scheduled => Scheduled'
           /\ UNCHANGED relayVars
<1>0. SourceTyped /\ SourceObserved /\ PubsTyped /\ PubsCovered
  BY DEF SourceInductive
<1>1. UNCHANGED relayVars
  BY DEF BusinessStep, SetDisabled, Tick, Capture, AssignModel, OpenSession, CloseSession,
         RegisterWorkload, Reverify, Renew, Changes
<1>2. CASE Capture
  BY <1>1, <1>2, CaptureStep
<1>3. CASE ~Capture
  <2>1. SourceTyped' /\ SourceObserved' /\ SourceForward /\ UNCHANGED pubs
    BY <1>0, <1>3, SourceStep
  <2>2. PubsForward
    <3>1. \A b \in Bindings : Len(pubs[b]) \in Nat
      BY <1>0 DEF PubsTyped
    <3> QED
      BY <2>1, <3>1 DEF PubsForward
  <2>3. PubsTyped'
    BY <1>0, <2>1 DEF PubsTyped
  <2>4. PubsCovered'
    BY <1>0, <2>1, <2>2, <2>3, PubsKept
  <2>5. ASSUME Scheduled PROVE Scheduled'
    <3>1. \/ change'.pending = TRUE
          \/ UNCHANGED <<change, pubs>> /\ now' \in {now, now + 1}
      <4>1. change \in [pending : BOOLEAN, next : Nat, count : Nat]
        BY <1>0 DEF SourceTyped
      <4>2. Signal(change).pending = TRUE
        BY <4>1 DEF Signal
      <4> HIDE DEF Signal
      <4> QED
        BY <1>3, <4>2 DEF BusinessStep, SetDisabled, Tick, AssignModel, OpenSession,
               CloseSession, RegisterWorkload, Reverify, Renew, Changes
    <3>2. CASE change'.pending = TRUE
      BY <3>2 DEF Scheduled
    <3>3. CASE UNCHANGED <<change, pubs>> /\ now' \in {now, now + 1}
      <4> SUFFICES ASSUME ~change.pending, NEW b \in Bindings, pubs[b] # <<>>,
                          Latest(b).hash.models # {}, Latest(b).until > now'
                   PROVE  change.next # 0 /\ change.next <= Latest(b).until
        BY <3>3 DEF Scheduled, Latest
      <4>1. pubs[b] \in Seq(Publication)
        BY <1>0 DEF PubsTyped
      <4>2. Latest(b) \in Publication
        BY <4>1 DEF Latest
      <4>3. Latest(b).until \in Nat /\ now \in Nat
        BY <1>0, <4>2 DEF Publication, SourceTyped
      <4>4. Latest(b).until > now
        BY <3>3, <4>3
      <4> QED
        BY <2>5, <4>4 DEF Scheduled
    <3> QED
      BY <3>1, <3>2, <3>3
  <2> QED
    BY <1>1, <2>1, <2>2, <2>3, <2>4, <2>5 DEF SourceInductive
<1> QED
  BY <1>2, <1>3

\* The first state.
LEMMA SourceStart ==
    ASSUME AccessInit
    PROVE  SourceInductive
<1>0. Life \in Nat /\ MaxNow \in Nat /\ now = 1
  BY Constants DEF AccessInit
<1>1. /\ subject \in [disabled : BOOLEAN, models : [AccessModels -> Nat]]
      /\ binding \in [Bindings -> [state : {"none", "live", "gone"}, until : Nat]]
      /\ \A b \in Bindings : binding[b].until <= now + Life
  <2>1. CASE /\ subject = [disabled |-> FALSE, models |-> [m \in AccessModels |-> 0]]
             /\ binding = [b \in Bindings |-> [state |-> "none", until |-> 0]]
    BY <1>0, <2>1
  <2>2. CASE \E a \in Bindings :
          /\ subject = [disabled |-> FALSE, models |-> [m \in AccessModels |-> MaxNow + 1]]
          /\ binding = [b \in Bindings |-> IF b = a THEN [state |-> "live", until |-> now + Life]
                                           ELSE [state |-> "none", until |-> 0]]
    BY <1>0, <2>2
  <2> QED
    BY <2>1, <2>2 DEF AccessInit
<1>2. change \in [pending : BOOLEAN, next : Nat, count : Nat]
  BY DEF AccessInit
<1>3. allowedAt = [b \in Bindings |-> [m \in AccessModels |->
                      IF MayUse(subject, binding, b, m) THEN now ELSE 0]]
  BY DEF AccessInit
<1>4. /\ allowedAt \in [Bindings -> [AccessModels -> Nat]]
      /\ \A b \in Bindings, m \in AccessModels :
            /\ allowedAt[b][m] <= now
            /\ MayUse(subject, binding, b, m) => allowedAt[b][m] = now
  BY <1>0, <1>3
<1>5. SourceTyped
  BY <1>0, <1>1, <1>2, <1>4 DEF SourceTyped
<1>6. SourceObserved
  BY <1>1, <1>4, Zenon DEF SourceObserved
<1>7. pubs = [b \in Bindings |-> <<>>]
  BY DEF AccessInit
<1>8. PubsTyped
  BY <1>7 DEF PubsTyped
<1>9. PubsCovered
  BY <1>7 DEF PubsCovered
<1> QED
  BY <1>5, <1>6, <1>8, <1>9 DEF SourceInductive

------------------------------------------------------------------------------
(* Steps of the relays                                                     *)

\* Grants stay, or carry a newer publication under a new version.
GrantsForward ==
    \A b \in Bindings : \A g \in grant[b] : \E h \in grant'[b] :
        h = g \/ (h.rv > g.rv /\ h.spec.seq >= g.spec.seq)

\* desiredAccess gives a spec, the same as long as the publication says the same.
LEMMA DesiredTyped ==
    ASSUME PubsTyped, NEW b \in Bindings, NEW n \in 1 .. Len(pubs[b])
    PROVE  DesiredAccess(b, n) \in GrantSpec /\ DesiredAccess(b, n).seq = n
<1>1. pubs[b] \in Seq(Publication)
  BY DEF PubsTyped
<1>2. pubs[b][n] \in Publication
  BY <1>1
<1>3. /\ pubs[b][n].hash.disabled \in BOOLEAN /\ pubs[b][n].hash.models \in SUBSET AccessModels
      /\ pubs[b][n].issued \in Nat /\ pubs[b][n].until \in Nat
  BY <1>2 DEF Publication, Policy
<1>4. n \in Nat
  BY <1>1
<1> QED
  BY <1>3, <1>4 DEF DesiredAccess, GrantSpec

LEMMA DesiredKept ==
    ASSUME PubsForward, NEW b \in Bindings, NEW n \in 1 .. Len(pubs[b])
    PROVE  DesiredAccess(b, n)' = DesiredAccess(b, n)
<1>1. /\ pubs'[b][n].hash = pubs[b][n].hash
      /\ pubs'[b][n].issued = pubs[b][n].issued
      /\ pubs'[b][n].until = pubs[b][n].until
  BY DEF PubsForward
<1> QED
  BY <1>1, Zenon DEF DesiredAccess

\* The grants that nobody writes stay what they are.
LEMMA GrantsStay ==
    ASSUME PubsTyped, PubsTyped', PubsForward, GrantsPublished, UNCHANGED grant
    PROVE  GrantsPublished'
<1> SUFFICES ASSUME NEW b \in Bindings, NEW g \in grant[b]
             PROVE  /\ grant'[b] = {g}
                    /\ ~g.deleting
                    /\ g.spec.seq \in 1 .. Len(pubs'[b])
                    /\ g.spec = DesiredAccess(b, g.spec.seq)'
  BY Zenon DEF GrantsPublished
<1>1. /\ grant[b] = {g} /\ ~g.deleting
      /\ g.spec.seq \in 1 .. Len(pubs[b]) /\ g.spec = DesiredAccess(b, g.spec.seq)
  BY DEF GrantsPublished
<1>2. Len(pubs[b]) \in Nat /\ Len(pubs'[b]) \in Nat /\ Len(pubs'[b]) >= Len(pubs[b])
  BY DEF PubsTyped, PubsForward
<1>3. DesiredAccess(b, g.spec.seq)' = DesiredAccess(b, g.spec.seq)
  BY <1>1, DesiredKept
<1>4. g.spec.seq \in 1 .. Len(pubs'[b])
  BY <1>1, <1>2
<1> QED
  BY <1>1, <1>3, <1>4

\* Create or Update of a grant: what the result is.
LEMMA PutShape ==
    ASSUME PubsTyped, grant \in [Bindings -> SUBSET Grant], lastUid \in Nat,
           NEW b \in Bindings, NEW n \in 1 .. Len(pubs[b]),
           \A g \in grant[b] : grant[b] = {g},
           PutGrant(b, n)
    PROVE  \E h \in Grant :
              /\ grant' = [grant EXCEPT ![b] = {h}]
              /\ h.spec = DesiredAccess(b, n)
              /\ \/ /\ grant[b] = {} /\ lastUid' = lastUid + 1
                    /\ h.uid = lastUid + 1 /\ ~h.deleting
                 \/ \E x \in grant[b] :
                       /\ lastUid' = lastUid
                       /\ h.uid = x.uid /\ h.deleting = x.deleting /\ h.final = x.final
                       /\ h = x \/ h.rv = x.rv + 1
<1> DEFINE d == DesiredAccess(b, n)
<1>1. d \in GrantSpec
  BY DesiredTyped
<1>2. CASE grant[b] = {}
  <2> DEFINE h == [uid |-> lastUid + 1, rv |-> 1, spec |-> d, deleting |-> FALSE, final |-> FALSE]
  <2>1. grant' = [grant EXCEPT ![b] = {h}] /\ lastUid' = lastUid + 1
    BY <1>2 DEF PutGrant
  <2> HIDE DEF d
  <2>2. h \in Grant /\ h.spec = d /\ h.uid = lastUid + 1 /\ ~h.deleting
    BY <1>1 DEF Grant
  <2> HIDE DEF h
  <2> QED
    BY <1>2, <2>1, <2>2 DEF d
<1>3. CASE grant[b] # {}
  <2>1. PICK x \in grant[b] : grant[b] = {x}
    BY <1>3
  <2>2. x \in Grant
    OBVIOUS
  <2> DEFINE h == IF x.spec = d THEN x ELSE [x EXCEPT !.spec = d, !.rv = @ + 1]
  <2>3. grant' = [grant EXCEPT ![b] = {h}] /\ lastUid' = lastUid
    <3> DEFINE put(g) == IF g.spec = d THEN g ELSE [g EXCEPT !.spec = d, !.rv = @ + 1]
    <3>1. grant' = [grant EXCEPT ![b] = {put(g) : g \in grant[b]}]
      BY <1>3 DEF PutGrant
    <3>2. lastUid' = lastUid
      BY <1>3 DEF PutGrant
    <3>3. h = put(x)
      OBVIOUS
    <3> HIDE DEF put, h
    <3>4. {put(g) : g \in grant[b]} = {h}
      BY <2>1, <3>3
    <3> QED
      BY <3>1, <3>2, <3>4
  <2> HIDE DEF d
  <2>4. /\ h \in Grant /\ h.spec = d /\ h.uid = x.uid /\ h.deleting = x.deleting
        /\ h.final = x.final
    <3>1. CASE x.spec = d
      BY <2>2, <3>1
    <3>2. CASE x.spec # d
      <4> DEFINE e == [x EXCEPT !.spec = d]
                 v == x.rv + 1
      <4>1. /\ e \in Grant /\ e.spec = d /\ e.uid = x.uid /\ e.deleting = x.deleting
            /\ e.final = x.final
        BY <1>1, <2>2 DEF Grant
      <4>2. v \in Nat \ {0} /\ h = [e EXCEPT !.rv = v]
        BY <2>2, <3>2 DEF Grant
      <4> HIDE DEF e, v, h
      <4> QED
        BY <4>1, <4>2 DEF Grant
    <3> QED
      BY <3>1, <3>2
  <2>5. h = x \/ h.rv = x.rv + 1
    BY <2>2 DEF Grant
  <2> HIDE DEF h
  <2> QED
    BY <2>1, <2>3, <2>4, <2>5 DEF d
<1> QED
  BY <1>2, <1>3

\* A write that moves no grant back keeps grants published.
LEMMA PutKeeps ==
    ASSUME PubsTyped, UNCHANGED pubs,
           grant \in [Bindings -> SUBSET Grant], lastUid \in Nat, GrantsPublished,
           NEW b \in Bindings, NEW n \in 1 .. Len(pubs[b]),
           \A g \in grant[b] : g.spec.seq <= n,
           PutGrant(b, n)
    PROVE  /\ grant' \in [Bindings -> SUBSET Grant] /\ lastUid' \in Nat
           /\ GrantsPublished' /\ GrantsForward
<1>1. PICK h \in Grant :
         /\ grant' = [grant EXCEPT ![b] = {h}]
         /\ h.spec = DesiredAccess(b, n)
         /\ \/ /\ grant[b] = {} /\ lastUid' = lastUid + 1
               /\ h.uid = lastUid + 1 /\ ~h.deleting
            \/ \E x \in grant[b] :
                  /\ lastUid' = lastUid
                  /\ h.uid = x.uid /\ h.deleting = x.deleting /\ h.final = x.final
                  /\ h = x \/ h.rv = x.rv + 1
  BY PutShape DEF GrantsPublished
<1>2. h.spec.seq = n
  BY <1>1, DesiredTyped
<1>3. ~h.deleting
  BY <1>1 DEF GrantsPublished
<1>4. /\ grant' \in [Bindings -> SUBSET Grant] /\ lastUid' \in Nat
      /\ grant'[b] = {h} /\ \A c \in Bindings \ {b} : grant'[c] = grant[c]
  BY <1>1
<1>5. GrantsPublished'
  <2> SUFFICES ASSUME NEW c \in Bindings, NEW g \in grant'[c]
               PROVE  /\ grant'[c] = {g}
                      /\ ~g.deleting
                      /\ g.spec.seq \in 1 .. Len(pubs'[c])
                      /\ g.spec = DesiredAccess(c, g.spec.seq)'
    BY Zenon DEF GrantsPublished
  <2>1. \A i : DesiredAccess(c, i)' = DesiredAccess(c, i)
    BY DEF DesiredAccess
  <2>2. CASE c = b
    BY <1>1, <1>2, <1>3, <1>4, <2>1, <2>2
  <2>3. CASE c # b
    BY <1>4, <2>1, <2>3 DEF GrantsPublished
  <2> QED
    BY <2>2, <2>3
<1>6. GrantsForward
  <2> SUFFICES ASSUME NEW c \in Bindings, NEW g \in grant[c]
               PROVE  \E k \in grant'[c] : k = g \/ (k.rv > g.rv /\ k.spec.seq >= g.spec.seq)
    BY DEF GrantsForward
  <2>1. CASE c # b
    BY <1>4, <2>1
  <2>2. CASE c = b
    <3>1. g \in Grant /\ h \in grant'[c] /\ g.spec.seq <= n /\ grant[b] = {g}
      BY <1>4, <2>2 DEF GrantsPublished
    <3>2. g.spec.seq \in Nat /\ g.rv \in Nat /\ n \in Nat
      BY <3>1 DEF Grant, GrantSpec
    <3>3. h = g \/ h.rv = g.rv + 1
      BY <1>1, <3>1
    <3> QED
      BY <1>2, <3>1, <3>2, <3>3
  <2> QED
    BY <2>1, <2>2
<1> QED
  BY <1>4, <1>5, <1>6

\* What a relay knows stays true when publications and grants move forward.
LEMMA KnowsKept ==
    ASSUME PubsTyped, PubsTyped', PubsForward, GrantsForward,
           grant \in [Bindings -> SUBSET Grant], grant' \in [Bindings -> SUBSET Grant],
           NEW r \in RelayState, Knows(r, pubs, grant)
    PROVE  Knows(r, pubs', grant')
<1>1. CASE r.at = "idle"
  <2>1. r.phase = "" /\ ~(r.at = "write") /\ ~(r.at # "idle")
    BY <1>1 DEF Knows
  <2> QED
    BY <2>1 DEF Knows
<1>2. CASE r.at # "idle"
  <2>1. r.b \in Bindings /\ r.seq \in 1 .. Len(pubs[r.b])
    BY <1>2 DEF Knows
  <2>2. r.seq \in 1 .. Len(pubs'[r.b])
    <3>1. Len(pubs[r.b]) \in Nat /\ Len(pubs'[r.b]) \in Nat /\ Len(pubs'[r.b]) >= Len(pubs[r.b])
      BY <2>1 DEF PubsTyped, PubsForward
    <3> QED
      BY <2>1, <3>1
  <2>3. r.seq \in Nat /\ r.rv \in Nat
    BY DEF RelayState
  <2>4. \A g \in grant[r.b] : g.rv \in Nat /\ g.spec.seq \in Nat
    BY <2>1 DEF Grant, GrantSpec
  <2>5. \A g \in grant'[r.b] : g.rv \in Nat /\ g.spec.seq \in Nat
    BY <2>1 DEF Grant, GrantSpec
  <2>6. \A g \in grant[r.b] : \E h \in grant'[r.b] :
           h = g \/ (h.rv > g.rv /\ h.spec.seq >= g.spec.seq)
    BY <2>1 DEF GrantsForward
  <2>7. ASSUME r.at = "write" /\ r.rv # 0
        PROVE  \E g \in grant'[r.b] : g.rv >= r.rv /\ (g.rv = r.rv => g.spec.seq <= r.seq)
    <3>1. PICK g \in grant[r.b] : g.rv >= r.rv /\ (g.rv = r.rv => g.spec.seq <= r.seq)
      BY <2>7 DEF Knows
    <3>2. PICK h \in grant'[r.b] : h = g \/ (h.rv > g.rv /\ h.spec.seq >= g.spec.seq)
      BY <2>6
    <3> QED
      BY <2>3, <2>4, <2>5, <3>1, <3>2
  <2>8. ASSUME r.phase = "projected" PROVE \E g \in grant'[r.b] : g.spec.seq >= r.seq
    <3>1. PICK g \in grant[r.b] : g.spec.seq >= r.seq
      BY <2>8 DEF Knows
    <3>2. PICK h \in grant'[r.b] : h = g \/ (h.rv > g.rv /\ h.spec.seq >= g.spec.seq)
      BY <2>6
    <3> QED
      BY <2>3, <2>4, <2>5, <3>1, <3>2
  <2>9. r.at # "finish" => r.phase = ""
    BY DEF Knows
  <2> QED
    BY <2>1, <2>2, <2>7, <2>8, <2>9 DEF Knows
<1> QED
  BY <1>1, <1>2

\* A step that touches neither source nor publications.
LEMMA SourceRests ==
    ASSUME SourceInductive, UNCHANGED <<sourceVars, pubs>>
    PROVE  SourceInductive' /\ PubsForward /\ (Scheduled => Scheduled')
<1>0. UNCHANGED <<now, subject, binding, change, allowedAt, pubs>>
  BY DEF sourceVars
<1>1. \A b \in Bindings : Len(pubs[b]) \in Nat
  BY DEF SourceInductive, PubsTyped
<1>2. PubsForward
  BY <1>0, <1>1 DEF PubsForward
<1>3. SourceTyped' /\ PubsTyped'
  BY <1>0 DEF SourceInductive, SourceTyped, PubsTyped
<1>4. SourceObserved'
  BY <1>0 DEF SourceInductive, SourceObserved, MayUse, Verified, Models
<1>5. PubsCovered'
  BY <1>0 DEF SourceInductive, PubsCovered, Covered
<1>6. Scheduled => Scheduled'
  BY <1>0 DEF Scheduled, Latest
<1> QED
  BY <1>2, <1>3, <1>4, <1>5, <1>6 DEF SourceInductive

\* A change of one publication that leaves what it says.
LEMMA RowEdit ==
    ASSUME SourceInductive, UNCHANGED sourceVars,
           NEW b \in Bindings, NEW n \in 1 .. Len(pubs[b]), NEW row \in Publication,
           row.hash = pubs[b][n].hash, row.issued = pubs[b][n].issued,
           row.until = pubs[b][n].until,
           pubs' = [pubs EXCEPT ![b] = [@ EXCEPT ![n] = row]]
    PROVE  /\ SourceInductive' /\ PubsForward /\ (Scheduled => Scheduled')
           /\ \A c \in Bindings :
                 /\ Len(pubs'[c]) = Len(pubs[c])
                 /\ \A i \in 1 .. Len(pubs[c]) :
                       pubs'[c][i] = IF c = b /\ i = n THEN row ELSE pubs[c][i]
<1>0. /\ SourceTyped /\ SourceObserved /\ PubsTyped /\ PubsCovered
      /\ UNCHANGED <<now, subject, binding, change, allowedAt>>
  BY DEF SourceInductive, sourceVars
<1> DEFINE s == [pubs[b] EXCEPT ![n] = row]
<1>1. pubs[b] \in Seq(Publication) /\ pubs \in [Bindings -> Seq(Publication)]
  BY <1>0 DEF PubsTyped
<1>2. /\ s \in Seq(Publication) /\ Len(s) = Len(pubs[b])
      /\ \A i \in 1 .. Len(pubs[b]) : s[i] = IF i = n THEN row ELSE pubs[b][i]
  <2>1. s \in [1 .. Len(pubs[b]) -> Publication] /\ Len(pubs[b]) \in Nat
    BY <1>1
  <2>2. \A i \in 1 .. Len(pubs[b]) : s[i] = IF i = n THEN row ELSE pubs[b][i]
    BY <1>1
  <2> HIDE DEF s
  <2> QED
    BY <2>1, <2>2, FunctionIsSequence
<1> HIDE DEF s
<1>3. pubs' = [pubs EXCEPT ![b] = s]
  BY DEF s
<1>4. \A c \in Bindings :
         /\ Len(pubs'[c]) = Len(pubs[c])
         /\ \A i \in 1 .. Len(pubs[c]) :
               pubs'[c][i] = IF c = b /\ i = n THEN row ELSE pubs[c][i]
  <2> SUFFICES ASSUME NEW c \in Bindings
               PROVE  /\ Len(pubs'[c]) = Len(pubs[c])
                      /\ \A i \in 1 .. Len(pubs[c]) :
                            pubs'[c][i] = IF c = b /\ i = n THEN row ELSE pubs[c][i]
    BY Zenon
  <2>1. CASE c = b
    <3>1. pubs'[c] = s
      BY <1>1, <1>3, <2>1
    <3> QED
      BY <1>2, <2>1, <3>1
  <2>2. CASE c # b
    <3>1. pubs'[c] = pubs[c]
      BY <1>1, <1>3, <2>2
    <3> QED
      BY <2>2, <3>1
  <2> QED
    BY <2>1, <2>2
<1>5. PubsTyped'
  BY <1>1, <1>2, <1>3 DEF PubsTyped
<1>6. ASSUME NEW c \in Bindings
      PROVE  /\ Len(pubs'[c]) = Len(pubs[c]) /\ Len(pubs[c]) \in Nat
             /\ \A i \in 1 .. Len(pubs[c]) : /\ pubs'[c][i].hash = pubs[c][i].hash
                                             /\ pubs'[c][i].issued = pubs[c][i].issued
                                             /\ pubs'[c][i].until = pubs[c][i].until
  <2>1. Len(pubs[c]) \in Nat
    BY <1>1
  <2>2. \A i \in 1 .. Len(pubs[c]) : /\ pubs'[c][i].hash = pubs[c][i].hash
                                     /\ pubs'[c][i].issued = pubs[c][i].issued
                                     /\ pubs'[c][i].until = pubs[c][i].until
    BY <1>4
  <2> QED
    BY <1>4, <2>1, <2>2, Zenon
<1>7. PubsForward
  <2> SUFFICES ASSUME NEW c \in Bindings
               PROVE  /\ Len(pubs'[c]) >= Len(pubs[c])
                      /\ \A i \in 1 .. Len(pubs[c]) : /\ pubs'[c][i].hash = pubs[c][i].hash
                                                      /\ pubs'[c][i].issued = pubs[c][i].issued
                                                      /\ pubs'[c][i].until = pubs[c][i].until
    BY Zenon DEF PubsForward
  <2>1. Len(pubs'[c]) >= Len(pubs[c])
    BY <1>6
  <2> QED
    BY <1>6, <2>1, Zenon
<1>8. SourceTyped' /\ SourceObserved'
  BY <1>0 DEF SourceTyped, SourceObserved, MayUse, Verified, Models
<1>9. SourceForward
  <2>1. \A c \in Bindings : binding[c].until \in Nat
    BY <1>0 DEF SourceTyped
  <2>2. \A c \in Bindings, m \in AccessModels : allowedAt[c][m] \in Nat
    BY <1>0 DEF SourceTyped
  <2> QED
    BY <1>0, <2>1, <2>2 DEF SourceForward
<1>10. PubsCovered'
  <2>1. \A c \in Bindings : \A i \in 1 .. Len(pubs'[c]) : i \in 1 .. Len(pubs[c])
    BY <1>6
  <2> QED
    BY <1>0, <1>5, <1>7, <1>8, <1>9, <2>1, PubsKept
<1>11. ASSUME Scheduled PROVE Scheduled'
  <2> SUFFICES ASSUME ~change.pending, NEW c \in Bindings, pubs'[c] # <<>>,
                      pubs'[c][Len(pubs'[c])].hash.models # {},
                      pubs'[c][Len(pubs'[c])].until > now
               PROVE  change.next # 0 /\ change.next <= pubs'[c][Len(pubs'[c])].until
    BY <1>0 DEF Scheduled, Latest
  <2>1. pubs[c] \in Seq(Publication) /\ pubs'[c] \in Seq(Publication)
    BY <1>0, <1>5 DEF PubsTyped
  <2>2. pubs[c] # <<>> /\ Len(pubs[c]) \in 1 .. Len(pubs[c]) /\ Len(pubs'[c]) = Len(pubs[c])
    BY <1>6, <2>1
  <2>3. /\ pubs'[c][Len(pubs'[c])].hash = Latest(c).hash
        /\ pubs'[c][Len(pubs'[c])].until = Latest(c).until
    BY <1>6, <2>2 DEF Latest
  <2> QED
    BY <1>11, <2>2, <2>3 DEF Scheduled
<1> QED
  BY <1>4, <1>5, <1>7, <1>8, <1>10, <1>11 DEF SourceInductive

\* A relay moves on and writes nothing.
LEMMA RelayMoves ==
    ASSUME AccessInductive, UNCHANGED <<sourceVars, pubs, grant, lastUid>>,
           NEW w \in Relays, NEW r \in RelayState, Knows(r, pubs, grant),
           relay' = [relay EXCEPT ![w] = r]
    PROVE  AccessInductive'
<1>0. /\ SourceInductive /\ RelayTyped /\ GrantsPublished /\ RelaysKnow /\ ClaimsMarked
      /\ OnlyLatestIsOpen /\ ProjectedCarried /\ Scheduled
      /\ UNCHANGED pubs /\ UNCHANGED grant /\ UNCHANGED lastUid
  BY DEF AccessInductive
<1>1. SourceInductive' /\ PubsForward /\ Scheduled'
  BY <1>0, SourceRests
<1>2. RelayTyped'
  BY <1>0 DEF RelayTyped
<1>3. GrantsPublished'
  BY <1>0, <1>1, GrantsStay DEF SourceInductive
<1>4. RelaysKnow'
  <2> SUFFICES ASSUME NEW v \in Relays PROVE Knows(relay'[v], pubs', grant')
    BY DEF RelaysKnow
  <2>1. relay'[v] = IF v = w THEN r ELSE relay[v]
    BY <1>0 DEF RelayTyped
  <2> QED
    BY <1>0, <2>1 DEF RelaysKnow
<1>5. ClaimsMarked' /\ OnlyLatestIsOpen' /\ ProjectedCarried'
  BY <1>0 DEF ClaimsMarked, OnlyLatestIsOpen, ProjectedCarried
<1> QED
  BY <1>1, <1>2, <1>3, <1>4, <1>5 DEF AccessInductive

\* An idle relay knows nothing.
LEMMA IdleKnows ==
    ASSUME NEW ps, NEW gr
    PROVE  IdleRelay \in RelayState /\ Knows(IdleRelay, ps, gr)
BY DEF IdleRelay, RelayState, Knows

\* The open publication of a binding is edited and one relay moves on.
LEMMA EditKeeps ==
    ASSUME AccessInductive, UNCHANGED <<sourceVars, grant, lastUid>>,
           NEW b \in Bindings, NEW n \in 1 .. Len(pubs[b]), n = Len(pubs[b]),
           NEW row \in Publication,
           row.hash = pubs[b][n].hash, row.issued = pubs[b][n].issued,
           row.until = pubs[b][n].until,
           (row.phase = "projecting") = (row.claim # NoOne),
           row.phase = "projected" => \E g \in grant[b] : g.spec.seq >= n,
           pubs' = [pubs EXCEPT ![b] = [@ EXCEPT ![n] = row]],
           NEW w \in Relays, NEW r \in RelayState, Knows(r, pubs, grant),
           relay' = [relay EXCEPT ![w] = r]
    PROVE  AccessInductive'
<1>0. /\ SourceInductive /\ RelayTyped /\ GrantsPublished /\ RelaysKnow /\ ClaimsMarked
      /\ OnlyLatestIsOpen /\ ProjectedCarried /\ Scheduled
      /\ UNCHANGED grant /\ UNCHANGED lastUid /\ UNCHANGED sourceVars
  BY DEF AccessInductive
<1>1. /\ SourceInductive' /\ PubsForward /\ Scheduled'
      /\ \A c \in Bindings :
            /\ Len(pubs'[c]) = Len(pubs[c])
            /\ \A i \in 1 .. Len(pubs[c]) :
                  pubs'[c][i] = IF c = b /\ i = n THEN row ELSE pubs[c][i]
  BY <1>0, RowEdit
<1>2. PubsTyped /\ PubsTyped'
  BY <1>0, <1>1 DEF SourceInductive
<1>3. RelayTyped'
  BY <1>0 DEF RelayTyped
<1>4. GrantsPublished'
  BY <1>0, <1>1, <1>2, GrantsStay
<1>5. RelaysKnow'
  <2>1. GrantsForward
    BY <1>0 DEF GrantsForward
  <2>2. grant \in [Bindings -> SUBSET Grant] /\ grant' \in [Bindings -> SUBSET Grant]
    BY <1>0, <1>3 DEF RelayTyped
  <2> SUFFICES ASSUME NEW v \in Relays PROVE Knows(relay'[v], pubs', grant')
    BY DEF RelaysKnow
  <2>3. relay'[v] = IF v = w THEN r ELSE relay[v]
    BY <1>0 DEF RelayTyped
  <2>4. relay'[v] \in RelayState /\ Knows(relay'[v], pubs, grant)
    BY <1>0, <2>3 DEF RelaysKnow, RelayTyped
  <2> QED
    BY <1>1, <1>2, <2>1, <2>2, <2>4, KnowsKept
<1>6. \A c \in Bindings : pubs[c] \in Seq(Publication) /\ pubs'[c] \in Seq(Publication)
  BY <1>2 DEF PubsTyped
<1>7. ClaimsMarked'
  <2> SUFFICES ASSUME NEW c \in Bindings, NEW i \in 1 .. Len(pubs'[c])
               PROVE  (pubs'[c][i].phase = "projecting") = (pubs'[c][i].claim # NoOne)
    BY DEF ClaimsMarked
  <2>1. i \in 1 .. Len(pubs[c])
    BY <1>1
  <2>2. CASE c = b /\ i = n
    BY <1>1, <2>1, <2>2
  <2>3. CASE ~(c = b /\ i = n)
    BY <1>0, <1>1, <2>1, <2>3 DEF ClaimsMarked
  <2> QED
    BY <2>2, <2>3
<1>8. OnlyLatestIsOpen'
  <2> SUFFICES ASSUME NEW c \in Bindings, NEW i \in DOMAIN pubs'[c], Open(pubs'[c][i])
               PROVE  i = Len(pubs'[c])
    BY DEF OnlyLatestIsOpen
  <2>1. i \in 1 .. Len(pubs[c]) /\ i \in DOMAIN pubs[c]
    BY <1>1, <1>6
  <2>2. CASE c = b /\ i = n
    BY <1>1, <2>2
  <2>3. CASE ~(c = b /\ i = n)
    <3>1. pubs'[c][i] = pubs[c][i]
      BY <1>1, <2>1, <2>3
    <3> QED
      BY <1>0, <1>1, <2>1, <3>1 DEF OnlyLatestIsOpen
  <2> QED
    BY <2>2, <2>3
<1>9. ProjectedCarried'
  <2> SUFFICES ASSUME NEW c \in Bindings, pubs'[c] # <<>>,
                      pubs'[c][Len(pubs'[c])].phase = "projected"
               PROVE  \E g \in grant[c] : g.spec.seq >= Len(pubs[c])
    BY <1>0, <1>1 DEF ProjectedCarried
  <2>1. Len(pubs'[c]) = Len(pubs[c]) /\ Len(pubs[c]) \in 1 .. Len(pubs[c]) /\ pubs[c] # <<>>
    BY <1>1, <1>6
  <2>2. CASE c = b
    BY <1>1, <2>1, <2>2
  <2>3. CASE c # b
    <3>1. pubs'[c][Len(pubs'[c])] = pubs[c][Len(pubs[c])]
      BY <1>1, <2>1, <2>3
    <3> QED
      BY <1>0, <2>1, <3>1 DEF ProjectedCarried
  <2> QED
    BY <2>2, <2>3
<1> QED
  BY <1>1, <1>3, <1>4, <1>5, <1>7, <1>8, <1>9 DEF AccessInductive

\* ClaimModelAccessPublication
LEMMA ClaimStep ==
    ASSUME AccessInductive, NEW w \in Relays, NEW b \in Bindings, Claim(w, b)
    PROVE  AccessInductive'
<1> DEFINE n == Len(pubs[b])
           old == pubs[b][n]
<1>0. /\ relay \in [Relays -> RelayState]
      /\ pubs \in [Bindings -> Seq(Publication)]
  BY DEF AccessInductive, RelayTyped, SourceInductive, PubsTyped
<1>1. UNCHANGED <<sourceVars, grant, lastUid>> /\ pubs[b] # <<>> /\ relay[w].at = "idle"
  BY DEF Claim
<1>2. pubs[b] \in Seq(Publication) /\ n \in 1 .. Len(pubs[b]) /\ old \in Publication
  BY <1>0, <1>1
<1>3. CASE Latest(b).until <= now
  <2> DEFINE row == [old EXCEPT !.phase = "failed", !.claim = NoOne]
  <2>1. pubs' = [pubs EXCEPT ![b] = [@ EXCEPT ![n] = row]] /\ UNCHANGED relay
    BY <1>0, <1>2, <1>3 DEF Claim
  <2>2. /\ row \in Publication /\ row.hash = old.hash /\ row.issued = old.issued
        /\ row.until = old.until /\ row.phase = "failed" /\ row.claim = NoOne
    BY <1>2 DEF Publication
  <2>3. relay' = [relay EXCEPT ![w] = relay[w]] /\ relay[w] \in RelayState
    BY <1>0, <2>1
  <2>4. Knows(relay[w], pubs, grant)
    BY DEF AccessInductive, RelaysKnow
  <2> HIDE DEF row, n
  <2>5. n = Len(pubs[b])
    BY DEF n
  <2> QED
    BY <1>1, <1>2, <2>1, <2>2, <2>3, <2>4, <2>5, EditKeeps
<1>4. CASE ~(Latest(b).until <= now)
  <2> DEFINE row == [old EXCEPT !.phase = "projecting", !.claim = w, !.lease = now + ClaimLease]
             r == [IdleRelay EXCEPT !.at = "read", !.b = b, !.seq = n]
  <2>1. pubs' = [pubs EXCEPT ![b] = [@ EXCEPT ![n] = row]] /\ relay' = [relay EXCEPT ![w] = r]
    BY <1>0, <1>2, <1>4 DEF Claim
  <2>2. now + ClaimLease \in Nat
    BY Constants DEF AccessInductive, SourceInductive, SourceTyped
  <2>3. /\ row \in Publication /\ row.hash = old.hash /\ row.issued = old.issued
        /\ row.until = old.until /\ row.phase = "projecting" /\ row.claim = w
    BY <1>2, <2>2 DEF Publication
  <2>4. w # NoOne
    BY AccessAssumption DEF NoOne
  <2>5. r \in RelayState /\ Knows(r, pubs, grant)
    <3>1. IdleRelay \in RelayState /\ IdleRelay.phase = ""
      BY IdleKnows DEF IdleRelay
    <3>2. n \in Nat
      BY <1>2
    <3>3. /\ r \in RelayState /\ r.at = "read" /\ r.b = b /\ r.seq = n
          /\ r.phase = IdleRelay.phase
      BY <3>1, <3>2 DEF RelayState
    <3> HIDE DEF r
    <3> QED
      BY <1>2, <3>1, <3>3 DEF Knows
  <2> HIDE DEF row, n, r
  <2>6. n = Len(pubs[b])
    BY DEF n
  <2> QED
    BY <1>1, <1>2, <2>1, <2>3, <2>4, <2>5, <2>6, EditKeeps
<1> QED
  BY <1>3, <1>4

\* FinishModelAccessPublication
LEMMA FinishStep ==
    ASSUME AccessInductive, NEW w \in Relays, Finish(w)
    PROVE  AccessInductive'
<1> DEFINE b == relay[w].b
           n == relay[w].seq
           old == pubs[b][n]
           phase == IF relay[w].phase = "" THEN "queued" ELSE relay[w].phase
<1>0. /\ relay \in [Relays -> RelayState]
      /\ pubs \in [Bindings -> Seq(Publication)]
  BY DEF AccessInductive, RelayTyped, SourceInductive, PubsTyped
<1>1. /\ UNCHANGED <<sourceVars, grant, lastUid>> /\ relay[w].at = "finish"
      /\ relay' = [relay EXCEPT ![w] = IdleRelay]
  BY DEF Finish
<1>2. Knows(relay[w], pubs, grant) /\ relay[w] \in RelayState
  BY <1>0 DEF AccessInductive, RelaysKnow
<1>3. b \in Bindings /\ n \in 1 .. Len(pubs[b])
  BY <1>1, <1>2 DEF Knows
<1>4. IdleRelay \in RelayState /\ Knows(IdleRelay, pubs, grant)
  BY IdleKnows
<1>5. CASE ~StillOwned(w)
  <2>1. UNCHANGED pubs
    BY <1>5 DEF Finish
  <2> QED
    BY <1>1, <1>4, <2>1, RelayMoves
<1>6. CASE StillOwned(w)
  <2> DEFINE row == [old EXCEPT !.phase = phase, !.claim = NoOne, !.lease = 0]
  <2>1. pubs' = [pubs EXCEPT ![b] = [@ EXCEPT ![n] = row]]
    BY <1>0, <1>3, <1>6 DEF Finish
  <2>2. n = Len(pubs[b])
    BY <1>6 DEF StillOwned
  <2>3. old \in Publication
    BY <1>0, <1>3
  <2>4. phase \in {"queued", "projected", "failed"} /\ (phase = "projected" => relay[w].phase = "projected")
    BY <1>2 DEF RelayState
  <2>5. phase = "projected" => \E g \in grant[b] : g.spec.seq >= n
    BY <1>2, <2>4 DEF Knows
  <2> HIDE DEF phase
  <2>6. /\ row \in Publication /\ row.hash = old.hash /\ row.issued = old.issued
        /\ row.until = old.until /\ row.phase = phase /\ row.claim = NoOne
    BY <2>3, <2>4 DEF Publication
  <2> HIDE DEF row, b, n, old
  <2>7. old = pubs[b][n]
    BY DEF old
  <2>8. (row.phase = "projecting") = (row.claim # NoOne)
    BY <2>4, <2>6
  <2> QED
    BY <1>1, <1>3, <1>4, <2>1, <2>2, <2>5, <2>6, <2>7, <2>8, EditKeeps
<1> QED
  BY <1>5, <1>6

\* The steps of a relay that write nothing: the check before the projection, the
\* read of the grant, the confirmation, a failed call and a lost worker.
LEMMA QuietStep ==
    ASSUME AccessInductive, NEW w \in Relays,
           ClaimLost(w) \/ ReadGrant(w) \/ ConfirmGrant(w) \/ Hiccup(w)
    PROVE  AccessInductive'
<1> DEFINE q == relay[w]
           b == q.b
<1>0. /\ relay \in [Relays -> RelayState] /\ grant \in [Bindings -> SUBSET Grant]
      /\ PubsTyped /\ GrantsPublished
  BY DEF AccessInductive, RelayTyped, SourceInductive
<1>1. UNCHANGED <<sourceVars, pubs, grant, lastUid>>
  BY DEF ClaimLost, ReadGrant, ConfirmGrant, Hiccup
<1>2. q \in RelayState /\ Knows(q, pubs, grant)
  BY <1>0 DEF AccessInductive, RelaysKnow
<1>3. q.at # "idle"
  BY DEF ClaimLost, ReadGrant, ConfirmGrant, Hiccup
<1>4. b \in Bindings /\ q.seq \in 1 .. Len(pubs[b]) /\ q.seq \in Nat
  BY <1>2, <1>3 DEF Knows, RelayState
<1>5. IdleRelay \in RelayState /\ Knows(IdleRelay, pubs, grant)
  BY IdleKnows
<1>6. \A g \in grant[b] : g.rv \in Nat \ {0} /\ g.spec.seq \in Nat
  BY <1>0, <1>4 DEF Grant, GrantSpec
<1>7. ASSUME NEW phase \in {"", "failed"}, NEW r, r = [q EXCEPT !.at = "finish", !.phase = phase]
      PROVE  r \in RelayState /\ Knows(r, pubs, grant)
  <2>1. /\ r \in RelayState /\ r.at = "finish" /\ r.phase = phase
        /\ r.b = q.b /\ r.seq = q.seq
    BY <1>2, <1>7 DEF RelayState
  <2> QED
    BY <1>4, <2>1 DEF Knows
<1>8. ASSUME NEW v \in Nat, NEW r, r = [q EXCEPT !.at = "write", !.rv = v], q.at = "read",
             v # 0 => \E g \in grant[b] : g.rv = v /\ g.spec.seq <= q.seq
      PROVE  r \in RelayState /\ Knows(r, pubs, grant)
  <2>1. /\ r \in RelayState /\ r.at = "write" /\ r.rv = v
        /\ r.b = q.b /\ r.seq = q.seq /\ r.phase = q.phase
    BY <1>2, <1>8 DEF RelayState
  <2>2. q.phase = ""
    BY <1>2, <1>8 DEF Knows
  <2>3. v # 0 => \E g \in grant[b] : g.rv >= v /\ (g.rv = v => g.spec.seq <= q.seq)
    BY <1>6, <1>8
  <2> QED
    BY <1>4, <2>1, <2>2, <2>3 DEF Knows
<1>9. CASE ClaimLost(w)
  BY <1>1, <1>5, <1>9, RelayMoves DEF ClaimLost
<1>10. CASE Hiccup(w)
  <2>1. CASE relay' = [relay EXCEPT ![w] = IdleRelay]
    BY <1>1, <1>5, <2>1, RelayMoves
  <2>2. CASE relay' = [relay EXCEPT ![w] = [@ EXCEPT !.at = "finish", !.phase = ""]]
    <3> DEFINE r == [q EXCEPT !.at = "finish", !.phase = ""]
    <3>1. r \in RelayState /\ Knows(r, pubs, grant)
      BY <1>7
    <3>2. relay' = [relay EXCEPT ![w] = r]
      BY <2>2
    <3> HIDE DEF r
    <3> QED
      BY <1>1, <3>1, <3>2, RelayMoves
  <2> QED
    BY <1>10, <2>1, <2>2 DEF Hiccup
<1>11. CASE ReadGrant(w)
  <2>0. q.at = "read"
    BY <1>11 DEF ReadGrant
  <2>1. CASE relay' = [relay EXCEPT ![w].at = "finish", ![w].phase = "failed"]
    <3> DEFINE r == [q EXCEPT !.at = "finish", !.phase = "failed"]
    <3>1. r \in RelayState /\ Knows(r, pubs, grant)
      BY <1>7
    <3>2. relay' = [relay EXCEPT ![w] = r]
      BY <1>0, <2>1
    <3> HIDE DEF r
    <3> QED
      BY <1>1, <3>1, <3>2, RelayMoves
  <2>2. ASSUME NEW g \in grant[b], ~Taken(w, g),
               relay' = [relay EXCEPT ![w].at = "write", ![w].rv = g.rv]
        PROVE  AccessInductive'
    <3> DEFINE r == [q EXCEPT !.at = "write", !.rv = g.rv]
    <3>1. g.rv \in Nat /\ g.spec.seq \in Nat
      BY <1>6
    <3>2. g.spec.seq <= q.seq
      BY <1>4, <2>2, <3>1 DEF Taken
    <3>3. r \in RelayState /\ Knows(r, pubs, grant)
      BY <1>8, <2>0, <3>1, <3>2
    <3>4. relay' = [relay EXCEPT ![w] = r]
      BY <1>0, <2>2
    <3> HIDE DEF r
    <3> QED
      BY <1>1, <3>3, <3>4, RelayMoves
  <2>3. CASE relay' = [relay EXCEPT ![w].at = "write", ![w].rv = 0]
    <3> DEFINE r == [q EXCEPT !.at = "write", !.rv = 0]
    <3>1. r \in RelayState /\ Knows(r, pubs, grant)
      BY <1>8, <2>0
    <3>2. relay' = [relay EXCEPT ![w] = r]
      BY <1>0, <2>3
    <3> HIDE DEF r
    <3> QED
      BY <1>1, <3>1, <3>2, RelayMoves
  <2> QED
    BY <1>11, <2>1, <2>2, <2>3, Zenon DEF ReadGrant
<1>12. CASE ConfirmGrant(w)
  <2> DEFINE found == \E g \in grant[b] : ~g.deleting /\ g.spec = DesiredAccess(b, q.seq)
             r == IF found THEN [q EXCEPT !.at = "finish", !.phase = "projected"]
                  ELSE IF grant[b] = {} THEN [q EXCEPT !.at = "finish"]
                  ELSE [q EXCEPT !.at = "finish", !.phase = "failed"]
  <2>0. relay' = [relay EXCEPT ![w] = r] /\ q.at = "confirm"
    BY <1>0, <1>12 DEF ConfirmGrant
  <2>1. CASE found
    <3>1. /\ r \in RelayState /\ r.at = "finish" /\ r.phase = "projected"
          /\ r.b = q.b /\ r.seq = q.seq
      BY <1>2, <2>1 DEF RelayState
    <3> HIDE DEF r
    <3>2. PICK g \in grant[b] : g.spec = DesiredAccess(b, q.seq)
      BY <2>1
    <3>3. g.spec.seq >= q.seq
      BY <1>0, <1>4, <3>2, DesiredTyped
    <3>4. Knows(r, pubs, grant)
      BY <1>4, <3>1, <3>3 DEF Knows
    <3> QED
      BY <1>1, <2>0, <3>1, <3>4, RelayMoves
  <2>2. CASE ~found /\ grant[b] = {}
    <3>1. q.phase = ""
      BY <1>2, <2>0 DEF Knows
    <3>2. r = [q EXCEPT !.at = "finish"]
      BY <2>2
    <3>3. /\ r \in RelayState /\ r.at = "finish" /\ r.phase = ""
          /\ r.b = q.b /\ r.seq = q.seq
      BY <1>2, <3>1, <3>2 DEF RelayState
    <3> HIDE DEF r
    <3>4. Knows(r, pubs, grant)
      BY <1>4, <3>3 DEF Knows
    <3> QED
      BY <1>1, <2>0, <3>3, <3>4, RelayMoves
  <2>3. CASE ~found /\ grant[b] # {}
    <3>1. r \in RelayState /\ Knows(r, pubs, grant)
      BY <1>7, <2>3
    <3> HIDE DEF r
    <3> QED
      BY <1>1, <2>0, <3>1, RelayMoves
  <2> QED
    BY <2>1, <2>2, <2>3
<1> QED
  BY <1>9, <1>10, <1>11, <1>12

\* A write without a conflict is a projection of a publication that is not older
\* than the grant.
LEMMA WriteProjects ==
    ASSUME AccessInductive, NEW w \in Relays, WriteGrant(w)
    PROVE  /\ relay[w].b \in Bindings /\ relay[w].seq \in 1 .. Len(pubs[relay[w].b])
           /\ \/ UNCHANGED <<grant, lastUid>>
              \/ /\ \A g \in grant[relay[w].b] : ~g.deleting /\ g.spec.seq <= relay[w].seq
                 /\ PutGrant(relay[w].b, relay[w].seq)
<1> DEFINE q == relay[w]
           b == q.b
           conflict == IF q.rv = 0 THEN grant[b] # {}
                       ELSE ~\E g \in grant[b] : SameVersion(w, g)
<1>1. q.at = "write" /\ Knows(q, pubs, grant) /\ GrantsPublished
  BY DEF AccessInductive, RelaysKnow, WriteGrant
<1>2. b \in Bindings /\ q.seq \in 1 .. Len(pubs[b])
  BY <1>1 DEF Knows
<1>3. CASE conflict
  BY <1>2, <1>3 DEF WriteGrant
<1>4. CASE ~conflict
  <2>1. PutGrant(b, q.seq)
    BY <1>4 DEF WriteGrant
  <2>2. ASSUME NEW g \in grant[b] PROVE ~g.deleting /\ g.spec.seq <= q.seq
    <3>1. grant[b] = {g} /\ ~g.deleting
      BY <1>1, <1>2 DEF GrantsPublished
    <3>2. q.rv # 0 /\ g.rv = q.rv
      BY <1>4, <3>1 DEF SameVersion
    <3>3. PICK h \in grant[b] : h.rv = q.rv => h.spec.seq <= q.seq
      BY <1>1, <3>2 DEF Knows
    <3> QED
      BY <3>1, <3>2, <3>3
  <2> QED
    BY <1>2, <2>1, <2>2
<1> QED
  BY <1>3, <1>4

\* Create or Update of the grant.
LEMMA WriteStep ==
    ASSUME AccessInductive, NEW w \in Relays, WriteGrant(w)
    PROVE  AccessInductive'
<1> DEFINE q == relay[w]
           b == q.b
<1>0. /\ SourceInductive /\ RelayTyped /\ GrantsPublished /\ RelaysKnow /\ ClaimsMarked
      /\ OnlyLatestIsOpen /\ ProjectedCarried /\ Scheduled /\ PubsTyped
  BY DEF AccessInductive, SourceInductive
<1>1. UNCHANGED <<sourceVars, pubs>> /\ UNCHANGED pubs
  BY DEF WriteGrant
<1>2. q \in RelayState /\ Knows(q, pubs, grant) /\ q.at = "write"
  BY <1>0 DEF RelaysKnow, RelayTyped, WriteGrant
<1>3. b \in Bindings /\ q.seq \in 1 .. Len(pubs[b])
  BY WriteProjects
<1>4. PICK r \in {[q EXCEPT !.at = "finish"], [q EXCEPT !.at = "confirm"]} :
         relay' = [relay EXCEPT ![w] = r]
  BY DEF WriteGrant
<1>5. r \in RelayState /\ Knows(r, pubs, grant)
  <2>1. q.phase = ""
    BY <1>2 DEF Knows
  <2>2. /\ r \in RelayState /\ r.at \in {"finish", "confirm"} /\ r.phase = ""
        /\ r.b = q.b /\ r.seq = q.seq
    BY <1>2, <2>1 DEF RelayState
  <2> QED
    BY <1>3, <2>2 DEF Knows
<1>6. CASE UNCHANGED <<grant, lastUid>>
  BY <1>1, <1>4, <1>5, <1>6, RelayMoves
<1>7. CASE ~UNCHANGED <<grant, lastUid>>
  <2>1. (\A g \in grant[b] : g.spec.seq <= q.seq) /\ PutGrant(b, q.seq)
    BY <1>7, WriteProjects
  <2>2. grant \in [Bindings -> SUBSET Grant] /\ lastUid \in Nat
    BY <1>0 DEF RelayTyped
  <2>3. /\ grant' \in [Bindings -> SUBSET Grant] /\ lastUid' \in Nat
        /\ GrantsPublished' /\ GrantsForward
    BY <1>0, <1>1, <1>3, <2>1, <2>2, PutKeeps
  <2>4. SourceInductive' /\ PubsForward /\ Scheduled' /\ PubsTyped'
    BY <1>0, <1>1, SourceRests DEF SourceInductive
  <2>5. RelayTyped'
    BY <1>0, <1>4, <1>5, <2>3 DEF RelayTyped
  <2>6. RelaysKnow'
    <3> SUFFICES ASSUME NEW v \in Relays PROVE Knows(relay'[v], pubs', grant')
      BY DEF RelaysKnow
    <3>1. relay'[v] = IF v = w THEN r ELSE relay[v]
      BY <1>0, <1>4 DEF RelayTyped
    <3>2. relay'[v] \in RelayState /\ Knows(relay'[v], pubs, grant)
      BY <1>0, <1>5, <3>1 DEF RelaysKnow, RelayTyped
    <3> QED
      BY <1>0, <2>2, <2>3, <2>4, <3>2, KnowsKept
  <2>7. ClaimsMarked' /\ OnlyLatestIsOpen'
    BY <1>0, <1>1 DEF ClaimsMarked, OnlyLatestIsOpen
  <2>8. ProjectedCarried'
    <3> SUFFICES ASSUME NEW c \in Bindings, pubs[c] # <<>>,
                        pubs[c][Len(pubs[c])].phase = "projected"
                 PROVE  \E h \in grant'[c] : h.spec.seq >= Len(pubs[c])
      BY <1>1 DEF ProjectedCarried
    <3>1. PICK g \in grant[c] : g.spec.seq >= Len(pubs[c])
      BY <1>0 DEF ProjectedCarried
    <3>2. PICK h \in grant'[c] : h = g \/ (h.rv > g.rv /\ h.spec.seq >= g.spec.seq)
      BY <2>3 DEF GrantsForward
    <3>3. g.spec.seq \in Nat /\ h.spec.seq \in Nat /\ Len(pubs[c]) \in Nat
      BY <1>0, <2>2, <2>3 DEF Grant, GrantSpec, PubsTyped
    <3> QED
      BY <3>1, <3>2, <3>3
  <2> QED
    BY <2>3, <2>4, <2>5, <2>6, <2>7, <2>8 DEF AccessInductive
<1> QED
  BY <1>6, <1>7

\* A step of the business side, the capture included, which closes every earlier
\* publication of a stream it extends.
LEMMA BusinessAccess ==
    ASSUME AccessInductive, BusinessStep
    PROVE  AccessInductive'
<1>0. /\ SourceInductive /\ RelayTyped /\ GrantsPublished /\ RelaysKnow /\ ClaimsMarked
      /\ OnlyLatestIsOpen /\ ProjectedCarried /\ Scheduled
  BY DEF AccessInductive
<1>1. SourceInductive' /\ PubsForward /\ Scheduled' /\ UNCHANGED relayVars
  BY <1>0, BusinessKeeps
<1>2. UNCHANGED relay /\ UNCHANGED grant /\ UNCHANGED lastUid
  BY <1>1 DEF relayVars
<1>3. PubsTyped /\ PubsTyped'
  BY <1>0, <1>1 DEF SourceInductive
<1>4. RelayTyped'
  BY <1>0, <1>2 DEF RelayTyped
<1>5. GrantsPublished'
  BY <1>0, <1>1, <1>2, <1>3, GrantsStay
<1>6. RelaysKnow'
  <2>1. GrantsForward
    BY <1>2 DEF GrantsForward
  <2>2. grant \in [Bindings -> SUBSET Grant] /\ grant' \in [Bindings -> SUBSET Grant]
    BY <1>0, <1>4 DEF RelayTyped
  <2> SUFFICES ASSUME NEW v \in Relays PROVE Knows(relay'[v], pubs', grant')
    BY DEF RelaysKnow
  <2>3. relay'[v] = relay[v] /\ relay[v] \in RelayState /\ Knows(relay[v], pubs, grant)
    BY <1>0, <1>2 DEF RelaysKnow, RelayTyped
  <2> QED
    BY <1>1, <1>3, <2>1, <2>2, <2>3, KnowsKept
<1>7. \A b \in Bindings :
         \/ pubs'[b] = pubs[b]
         \/ /\ Len(pubs'[b]) = Len(pubs[b]) + 1
            /\ pubs'[b][Len(pubs'[b])].phase = "queued"
            /\ pubs'[b][Len(pubs'[b])].claim = NoOne
            /\ \A i \in 1 .. Len(pubs[b]) :
                  \/ pubs'[b][i] = pubs[b][i] /\ ~Open(pubs[b][i])
                  \/ pubs'[b][i].phase = "superseded" /\ pubs'[b][i].claim = NoOne
  <2>1. CASE Capture
    BY <1>0, <2>1, CapturedShape, Zenon
  <2>2. CASE ~Capture
    <3>1. UNCHANGED pubs
      BY <1>0, <2>2, SourceStep DEF SourceInductive
    <3> QED
      BY <3>1
  <2> QED
    BY <2>1, <2>2
<1>8. \A b \in Bindings : pubs[b] \in Seq(Publication) /\ pubs'[b] \in Seq(Publication)
  BY <1>3 DEF PubsTyped
<1>9. ClaimsMarked'
  <2> SUFFICES ASSUME NEW b \in Bindings, NEW i \in 1 .. Len(pubs'[b])
               PROVE  (pubs'[b][i].phase = "projecting") = (pubs'[b][i].claim # NoOne)
    BY DEF ClaimsMarked
  <2>1. CASE pubs'[b] = pubs[b]
    BY <1>0, <2>1 DEF ClaimsMarked
  <2>2. CASE pubs'[b] # pubs[b]
    <3>1. /\ Len(pubs'[b]) = Len(pubs[b]) + 1
          /\ pubs'[b][Len(pubs'[b])].phase = "queued"
          /\ pubs'[b][Len(pubs'[b])].claim = NoOne
          /\ \A j \in 1 .. Len(pubs[b]) :
                \/ pubs'[b][j] = pubs[b][j] /\ ~Open(pubs[b][j])
                \/ pubs'[b][j].phase = "superseded" /\ pubs'[b][j].claim = NoOne
      BY <1>7, <2>2
    <3>2. i \in 1 .. Len(pubs[b]) \/ i = Len(pubs'[b])
      BY <1>8, <3>1
    <3>3. CASE i = Len(pubs'[b])
      BY <3>1, <3>3
    <3>4. CASE i \in 1 .. Len(pubs[b])
      BY <1>0, <3>1, <3>4 DEF ClaimsMarked
    <3> QED
      BY <3>2, <3>3, <3>4
  <2> QED
    BY <2>1, <2>2
<1>10. OnlyLatestIsOpen'
  <2> SUFFICES ASSUME NEW b \in Bindings, NEW i \in DOMAIN pubs'[b], Open(pubs'[b][i])
               PROVE  i = Len(pubs'[b])
    BY DEF OnlyLatestIsOpen
  <2>1. CASE pubs'[b] = pubs[b]
    BY <1>0, <2>1 DEF OnlyLatestIsOpen
  <2>2. CASE pubs'[b] # pubs[b]
    <3>1. /\ Len(pubs'[b]) = Len(pubs[b]) + 1
          /\ \A j \in 1 .. Len(pubs[b]) :
                \/ pubs'[b][j] = pubs[b][j] /\ ~Open(pubs[b][j])
                \/ pubs'[b][j].phase = "superseded" /\ pubs'[b][j].claim = NoOne
      BY <1>7, <2>2
    <3>2. i \in 1 .. Len(pubs[b]) \/ i = Len(pubs'[b])
      BY <1>8, <3>1
    <3>3. CASE i \in 1 .. Len(pubs[b])
      BY <3>1, <3>3 DEF Open
    <3> QED
      BY <3>2, <3>3
  <2> QED
    BY <2>1, <2>2
<1>11. ProjectedCarried'
  <2> SUFFICES ASSUME NEW b \in Bindings, pubs'[b] # <<>>,
                      pubs'[b][Len(pubs'[b])].phase = "projected"
               PROVE  \E g \in grant[b] : g.spec.seq >= Len(pubs'[b])
    BY <1>2 DEF ProjectedCarried
  <2>1. pubs'[b] = pubs[b]
    BY <1>7
  <2> QED
    BY <1>0, <2>1 DEF ProjectedCarried
<1> QED
  BY <1>1, <1>4, <1>5, <1>6, <1>9, <1>10, <1>11 DEF AccessInductive

\* The inductive invariant, step by step.
LEMMA AccessStep ==
    ASSUME AccessInductive, [AccessNext]_accessVars
    PROVE  AccessInductive'
<1>1. CASE UNCHANGED accessVars
  <2>1. SourceInductive' /\ Scheduled' /\ PubsForward
    BY <1>1, SourceRests DEF AccessInductive, accessVars, sourceVars
  <2>2. /\ UNCHANGED relay /\ UNCHANGED grant /\ UNCHANGED lastUid /\ UNCHANGED pubs
    BY <1>1 DEF accessVars
  <2>3. RelayTyped' /\ RelaysKnow' /\ ClaimsMarked' /\ OnlyLatestIsOpen' /\ ProjectedCarried'
    BY <2>2 DEF AccessInductive, RelayTyped, RelaysKnow, ClaimsMarked, OnlyLatestIsOpen,
                ProjectedCarried
  <2>4. GrantsPublished'
    BY <2>1, <2>2, GrantsStay DEF AccessInductive, SourceInductive
  <2> QED
    BY <2>1, <2>3, <2>4 DEF AccessInductive
<1>2. CASE BusinessStep
  BY <1>2, BusinessAccess
<1>3. ASSUME NEW w \in Relays, NEW b \in Bindings, Claim(w, b) PROVE AccessInductive'
  BY <1>3, ClaimStep
<1>4. ASSUME NEW w \in Relays, ClaimLost(w) \/ ReadGrant(w) \/ ConfirmGrant(w) \/ Hiccup(w)
      PROVE  AccessInductive'
  BY <1>4, QuietStep
<1>5. ASSUME NEW w \in Relays, WriteGrant(w) PROVE AccessInductive'
  BY <1>5, WriteStep
<1>6. ASSUME NEW w \in Relays, Finish(w) PROVE AccessInductive'
  BY <1>6, FinishStep
<1> DEFINE Goal == AccessInductive'
<1> HIDE DEF Goal
<1>7. Goal
  <2>1. CASE AccessNext
    BY <1>2, <1>3, <1>4, <1>5, <1>6, <2>1, Zenon DEF AccessNext, Goal
  <2> QED
    BY <1>1, <2>1, Zenon DEF Goal
<1> QED
  BY <1>7 DEF Goal

\* The first state.
LEMMA AccessStart ==
    ASSUME AccessInit
    PROVE  AccessInductive
<1>1. SourceInductive
  BY SourceStart
<1>2. /\ pubs = [b \in Bindings |-> <<>>] /\ relay = [w \in Relays |-> IdleRelay]
      /\ grant = [b \in Bindings |-> {}] /\ lastUid = 0
  BY DEF AccessInit
<1>3. RelayTyped /\ RelaysKnow
  BY <1>2, IdleKnows DEF RelayTyped, RelaysKnow
<1>4. GrantsPublished
  BY <1>2 DEF GrantsPublished
<1>5. \A b \in Bindings : pubs[b] = <<>> /\ Len(pubs[b]) = 0 /\ DOMAIN pubs[b] = {}
  BY <1>2
<1>6. ClaimsMarked /\ OnlyLatestIsOpen /\ ProjectedCarried /\ Scheduled
  BY <1>5 DEF ClaimsMarked, OnlyLatestIsOpen, ProjectedCarried, Scheduled
<1> QED
  BY <1>1, <1>3, <1>4, <1>6 DEF AccessInductive

------------------------------------------------------------------------------
(* The theorems                                                            *)

\* AccessInductive holds in every reachable state: what relays with running and
\* with lost claims have read and confirmed stays tied to grants and publications.
THEOREM AccessSafe == AccessSpec => []AccessInductive
<1>1. AccessInit => AccessInductive
  BY AccessStart
<1>2. AccessInductive /\ [AccessNext]_accessVars => AccessInductive'
  BY AccessStep
<1> QED
  BY <1>1, <1>2, PTL DEF AccessSpec

\* Types and windows; at most the latest publication of a binding is open; one that
\* is recorded as projected is what the grant carries; every access that has been
\* published is on the schedule before it ends.
THEOREM AccessCorrect == AccessSpec => []AccessInvariant
<1>1. ASSUME AccessInductive PROVE AccessInvariant
  <2>0. /\ SourceTyped /\ PubsTyped /\ PubsCovered /\ RelayTyped /\ GrantsPublished
        /\ ClaimsMarked /\ OnlyLatestIsOpen /\ ProjectedCarried /\ Scheduled
    BY <1>1 DEF AccessInductive, SourceInductive
  <2>1. \A b \in Bindings : pubs[b] \in Seq(Publication) /\ DOMAIN pubs[b] = 1 .. Len(pubs[b])
    BY <2>0 DEF PubsTyped
  <2>2. AccessTypeOK
    <3>1. /\ subject \in [disabled : BOOLEAN, models : [AccessModels -> Nat]]
          /\ binding \in [Bindings -> [state : {"none", "live", "gone"}, until : Nat]]
          /\ change.pending \in BOOLEAN /\ change.next \in Nat
      BY <2>0 DEF SourceTyped
    <3>2. ASSUME NEW b \in Bindings, NEW i \in DOMAIN pubs[b]
          PROVE  /\ pubs[b][i].phase \in {"queued", "projecting", "projected", "failed", "superseded"}
                 /\ (pubs[b][i].phase = "projecting") = (pubs[b][i].claim # NoOne)
                 /\ pubs[b][i].issued < pubs[b][i].until
                 /\ pubs[b][i].until <= pubs[b][i].issued + Fresh
      <4>1. i \in 1 .. Len(pubs[b]) /\ pubs[b][i] \in Publication
        BY <2>1
      <4>2. pubs[b][i].phase \in {"queued", "projecting", "projected", "failed", "superseded"}
        BY <4>1 DEF Publication
      <4> QED
        BY <2>0, <4>1, <4>2, Zenon DEF ClaimsMarked, PubsCovered
    <3>3. ASSUME NEW b \in Bindings PROVE Cardinality(grant[b]) <= 1
      <4>1. CASE grant[b] = {}
        BY <4>1, FS_EmptySet
      <4>2. CASE grant[b] # {}
        <5>1. PICK g \in grant[b] : grant[b] = {g}
          BY <2>0, <4>2 DEF GrantsPublished
        <5>2. Cardinality({g}) = 1
          BY FS_Singleton
        <5> QED
          BY <5>1, <5>2
      <4> QED
        BY <4>1, <4>2
    <3> QED
      BY <3>1, <3>2, <3>3, Zenon DEF AccessTypeOK
  <2>3. ProjectedIsOnCluster
    <3> SUFFICES ASSUME NEW b \in Bindings, pubs[b] # <<>>, Latest(b).phase = "projected",
                        NEW g \in grant[b]
                 PROVE  g.spec.seq = Len(pubs[b]) /\ g.spec.models = Latest(b).hash.models
      BY DEF ProjectedIsOnCluster
    <3>1. PICK h \in grant[b] : h.spec.seq >= Len(pubs[b])
      BY <2>0 DEF ProjectedCarried, Latest
    <3>2. h = g /\ g.spec.seq \in 1 .. Len(pubs[b]) /\ g.spec = DesiredAccess(b, g.spec.seq)
      BY <2>0 DEF GrantsPublished
    <3>3. g.spec.seq = Len(pubs[b])
      BY <2>1, <3>1, <3>2
    <3>4. DesiredAccess(b, Len(pubs[b])).models = Latest(b).hash.models
      BY DEF DesiredAccess, Latest
    <3> QED
      BY <3>2, <3>3, <3>4
  <2> QED
    BY <2>0, <2>2, <2>3 DEF AccessInvariant
<1> QED
  BY <1>1, AccessSafe, PTL

\* A relay writes one of the publications of the binding, never one older than the
\* grant carries, whatever claims expire or are lost between reading a grant and
\* writing it.
THEOREM GrantsOnlyForward == AccessSpec => GrantsMoveForward
<1>1. ASSUME AccessInductive, [AccessNext]_accessVars
      PROVE  [relay' # relay /\ grant' # grant =>
                 \E b \in Bindings : \E n \in DOMAIN pubs[b] : Projects(b, n)]_accessVars
  <2> SUFFICES ASSUME AccessNext, grant' # grant
               PROVE  \E b \in Bindings : \E n \in DOMAIN pubs[b] : Projects(b, n)
    BY <1>1 DEF accessVars
  <2>1. ASSUME NEW w \in Relays, WriteGrant(w)
        PROVE  \E b \in Bindings : \E n \in DOMAIN pubs[b] : Projects(b, n)
    <3> DEFINE b == relay[w].b
               n == relay[w].seq
    <3>1. /\ b \in Bindings /\ n \in 1 .. Len(pubs[b])
          /\ \A g \in grant[b] : ~g.deleting /\ g.spec.seq <= n
          /\ PutGrant(b, n)
      BY <1>1, <2>1, WriteProjects
    <3>2. DOMAIN pubs[b] = 1 .. Len(pubs[b])
      BY <1>1, <3>1 DEF AccessInductive, SourceInductive, PubsTyped
    <3> QED
      BY <3>1, <3>2, Zenon DEF Projects
  <2>2. BusinessStep => UNCHANGED grant
    BY DEF BusinessStep, SetDisabled, Tick, Capture, AssignModel, OpenSession, CloseSession,
           RegisterWorkload, Reverify, Renew, Changes, relayVars
  <2>3. \A w \in Relays :
           (\/ \E b \in Bindings : Claim(w, b)
            \/ ClaimLost(w) \/ ReadGrant(w) \/ ConfirmGrant(w) \/ Finish(w) \/ Hiccup(w))
              => UNCHANGED grant
    BY DEF Claim, ClaimLost, ReadGrant, ConfirmGrant, Finish, Hiccup
  <2> QED
    BY <2>1, <2>2, <2>3, Zenon DEF AccessNext
<1>2. AccessSpec => [][relay' # relay /\ grant' # grant =>
                 \E b \in Bindings : \E n \in DOMAIN pubs[b] : Projects(b, n)]_accessVars
  BY <1>1, AccessSafe, PTL DEF AccessSpec
<1> QED
  BY <1>2 DEF GrantsMoveForward


------------------------------------------------------------------------------
(* The inductive invariant                                                 *)

Hash == [disabled : BOOLEAN, models : SUBSET AccessModels]
BoundsRow == [uid : Nat, seq : Nat, hash : Hash, issued : Nat, until : Nat]
ConfigRow == [uid : Nat, seq : Nat, hash : Hash]

\* A grant, or the copy of it a reconcile works on, carries a covered publication.
GrantCovered(b, g) ==
    /\ g \in Grant
    /\ g.uid <= lastUid
    /\ g.spec.seq \in 1 .. Len(pubs[b])
    /\ g.spec.issued < g.spec.until
    /\ Covered(b, g.spec.models, g.spec.issued, g.spec.until)

GrantsCovered ==
    /\ lastUid \in Nat
    /\ grant \in [Bindings -> SUBSET Grant]
    /\ \A b \in Bindings : \A g \in grant[b] : grant[b] = {g} /\ GrantCovered(b, g)

OpSteps == {"policy", "config", "route", "remove", "finalize"}

OpCovered ==
    \/ op = NoOp
    \/ \E at \in OpSteps, b \in Bindings, g \in Grant :
          op = [at |-> at, b |-> b, g |-> {g}] /\ GrantCovered(b, g)

\* The bounds that are written and loaded are those of covered publications.
BoundsCovered(b, c) ==
    /\ c.seq \in 1 .. Len(pubs[b])
    /\ c.issued < c.until
    /\ Covered(b, c.hash.models, c.issued, c.until)

ConfigPublished(b, c) == c.seq \in 1 .. Len(pubs[b]) /\ c.uid \in 1 .. lastUid

ObjectsTyped ==
    /\ bounds \in [Bindings -> SUBSET BoundsRow]
    /\ config \in [Bindings -> SUBSET ConfigRow]
    /\ serving \in [Bindings -> [config : SUBSET ConfigRow, bounds : SUBSET BoundsRow]]
    /\ route \in [Bindings -> Nat]

ObjectsCovered ==
    \A b \in Bindings :
        /\ \A c \in bounds[b] : bounds[b] = {c} /\ BoundsCovered(b, c)
        /\ \A c \in serving[b].bounds : BoundsCovered(b, c)
        /\ \A c \in config[b] : config[b] = {c} /\ ConfigPublished(b, c)
        /\ route[b] <= lastUid

\* The grant a reconcile renders keeps its finalizer until that reconcile ends,
\* and a finalizer is removed only when there is no route.
RouteGuarded ==
    /\ op.at \in {"policy", "config", "route"} =>
          \A g \in op.g : \E h \in grant[op.b] : h.uid = g.uid /\ h.final
    /\ op.at = "finalize" => route[op.b] = 0

EnforceInductive ==
    /\ SourceInductive
    /\ GrantsCovered
    /\ OpCovered
    /\ ObjectsTyped
    /\ ObjectsCovered
    /\ RouteGuarded
    /\ NoOrphanRoute

------------------------------------------------------------------------------
(* What is covered stays covered                                           *)

\* Source, publications and UIDs move forward.
Later ==
    /\ SourceTyped /\ SourceTyped' /\ SourceForward
    /\ PubsTyped /\ PubsTyped' /\ PubsForward
    /\ lastUid \in Nat /\ lastUid' \in Nat /\ lastUid' >= lastUid

LEMMA GrantLater ==
    ASSUME Later, NEW b \in Bindings, NEW g, GrantCovered(b, g)
    PROVE  GrantCovered(b, g)'
<1>1. g \in Grant /\ g.uid <= lastUid /\ g.spec.seq \in 1 .. Len(pubs[b])
      /\ g.spec.issued < g.spec.until /\ Covered(b, g.spec.models, g.spec.issued, g.spec.until)
  BY DEF GrantCovered
<1>2. /\ g.uid \in Nat /\ g.spec.models \in SUBSET AccessModels
      /\ g.spec.issued \in Nat /\ g.spec.until \in Nat
  BY <1>1 DEF Grant, GrantSpec
<1>3. Len(pubs[b]) \in Nat /\ Len(pubs'[b]) \in Nat /\ Len(pubs'[b]) >= Len(pubs[b])
  BY DEF Later, PubsTyped, PubsForward
<1>4. Covered(b, g.spec.models, g.spec.issued, g.spec.until)'
  BY <1>1, <1>2, CoveredKept DEF Later
<1>5. g.uid <= lastUid' /\ g.spec.seq \in 1 .. Len(pubs'[b])
  BY <1>1, <1>2, <1>3 DEF Later
<1> QED
  BY <1>1, <1>4, <1>5, Zenon DEF GrantCovered

LEMMA BoundsLater ==
    ASSUME Later, NEW b \in Bindings, NEW c \in BoundsRow, BoundsCovered(b, c)
    PROVE  BoundsCovered(b, c)'
<1>1. /\ c.seq \in 1 .. Len(pubs[b])
      /\ c.issued < c.until /\ Covered(b, c.hash.models, c.issued, c.until)
  BY Zenon DEF BoundsCovered
<1>2. c.hash.models \in SUBSET AccessModels /\ c.issued \in Nat /\ c.until \in Nat
  BY DEF BoundsRow, Hash
<1>3. Len(pubs[b]) \in Nat /\ Len(pubs'[b]) \in Nat /\ Len(pubs'[b]) >= Len(pubs[b])
  BY DEF Later, PubsTyped, PubsForward
<1>4. Covered(b, c.hash.models, c.issued, c.until)'
  BY <1>1, <1>2, CoveredKept DEF Later
<1>5. c.seq \in 1 .. Len(pubs'[b])
  BY <1>1, <1>3
<1> QED
  BY <1>1, <1>4, <1>5, Zenon DEF BoundsCovered

LEMMA ConfigLater ==
    ASSUME Later, NEW b \in Bindings, NEW c \in ConfigRow, ConfigPublished(b, c)
    PROVE  ConfigPublished(b, c)'
<1>1. Len(pubs[b]) \in Nat /\ Len(pubs'[b]) \in Nat /\ Len(pubs'[b]) >= Len(pubs[b])
  BY DEF Later, PubsTyped, PubsForward
<1> QED
  BY <1>1 DEF Later, ConfigPublished

\* Source and publications move forward in every step.
LEMMA SourceLater ==
    ASSUME EnforceInductive, EnforceNext
    PROVE  SourceInductive' /\ Later
<1>0. /\ SourceInductive /\ SourceTyped /\ PubsTyped /\ GrantsCovered /\ lastUid \in Nat
      /\ grant \in [Bindings -> SUBSET Grant]
  BY DEF EnforceInductive, SourceInductive, GrantsCovered
<1>1. ASSUME UNCHANGED sourceVars, SourceTyped' PROVE SourceForward
  <2>1. \A c \in Bindings : binding[c].until \in Nat
    BY <1>0 DEF SourceTyped
  <2>2. \A c \in Bindings, m \in AccessModels : allowedAt[c][m] \in Nat
    BY <1>0 DEF SourceTyped
  <2>3. UNCHANGED binding /\ UNCHANGED allowedAt
    BY <1>1 DEF sourceVars
  <2> QED
    BY <2>1, <2>2, <2>3 DEF SourceForward
<1>2. CASE BusinessStep /\ UNCHANGED enforceVars
  <2>1. SourceInductive' /\ SourceForward /\ PubsForward /\ UNCHANGED relayVars
    BY <1>0, <1>2, BusinessKeeps
  <2>2. lastUid' = lastUid
    BY <2>1 DEF relayVars
  <2> QED
    BY <1>0, <2>1, <2>2 DEF Later, SourceInductive
<1>3. ASSUME UNCHANGED <<sourceVars, pubs>>, lastUid' \in {lastUid, lastUid + 1}
      PROVE  SourceInductive' /\ Later
  <2>1. SourceInductive' /\ PubsForward
    BY <1>0, <1>3, SourceRests
  <2>2. SourceForward
    BY <1>1, <1>3, <2>1 DEF SourceInductive
  <2>3. lastUid' \in Nat /\ lastUid' >= lastUid
    BY <1>0, <1>3
  <2> QED
    BY <1>0, <2>1, <2>2, <2>3 DEF Later, SourceInductive
<1>4. ASSUME NEW b \in Bindings, Project(b) PROVE SourceInductive' /\ Later
  <2>1. UNCHANGED <<sourceVars, pubs>>
    BY <1>4 DEF Project
  <2>2. lastUid' \in {lastUid, lastUid + 1}
    BY <1>4 DEF Project, Projects, PutGrant
  <2> QED
    BY <1>3, <2>1, <2>2
<1>5. ASSUME NEW b \in Bindings, Fail(b) PROVE SourceInductive' /\ Later
  <2> DEFINE n == Len(pubs[b])
             old == pubs[b][n]
             row == [old EXCEPT !.phase = "failed"]
  <2>1. UNCHANGED sourceVars /\ UNCHANGED lastUid /\ pubs[b] # <<>>
    BY <1>5 DEF Fail
  <2>2. pubs[b] \in Seq(Publication) /\ pubs \in [Bindings -> Seq(Publication)]
    BY <1>0 DEF PubsTyped
  <2>3. n \in 1 .. Len(pubs[b]) /\ old \in Publication
    BY <2>1, <2>2
  <2>4. pubs' = [pubs EXCEPT ![b] = [@ EXCEPT ![n] = row]]
    BY <1>5, <2>2, <2>3 DEF Fail
  <2>5. /\ row \in Publication /\ row.hash = old.hash /\ row.issued = old.issued
        /\ row.until = old.until
    BY <2>3 DEF Publication
  <2> HIDE DEF row, n
  <2>6. SourceInductive' /\ PubsForward
    BY <1>0, <2>1, <2>3, <2>4, <2>5, RowEdit
  <2>7. SourceForward
    BY <1>1, <2>1, <2>6 DEF SourceInductive
  <2> QED
    BY <1>0, <2>1, <2>6, <2>7 DEF Later, SourceInductive
<1>6. ASSUME UNCHANGED ledgerVars PROVE SourceInductive' /\ Later
  BY <1>3, <1>6 DEF ledgerVars, sourceVars
<1>7. \/ BusinessStep /\ UNCHANGED enforceVars
      \/ \E b \in Bindings : Project(b) \/ Fail(b)
      \/ UNCHANGED ledgerVars
  BY Zenon DEF EnforceNext, Outdated, WritePolicy, WriteConfig, WriteRoute, RemoveRoute,
         RemoveFinalizer, OperatorFails, Reconcile, DeleteGrant, Collect, LoadConfig, LoadBounds
<1> DEFINE Goal == SourceInductive' /\ Later
<1> HIDE DEF Goal
<1>8. Goal
  BY <1>2, <1>4, <1>5, <1>6, <1>7, Zenon DEF Goal
<1> QED
  BY <1>8 DEF Goal

------------------------------------------------------------------------------
(* Grants                                                                  *)

\* A grant that keeps its route's finalizer is still there, finalizer and all.
FinalsKept ==
    \A b \in Bindings : \A g \in grant[b] :
        g.final => \E h \in grant'[b] : h.uid = g.uid /\ h.final

\* The update of a grant's metadata.
LEMMA MetadataEdit ==
    ASSUME NEW g \in Grant,
           NEW h, \/ h = [g EXCEPT !.final = TRUE, !.rv = @ + 1]
                  \/ h = [g EXCEPT !.deleting = TRUE, !.rv = @ + 1]
    PROVE  h \in Grant /\ h.uid = g.uid /\ h.spec = g.spec /\ (g.final => h.final)
<1> DEFINE v == g.rv + 1
           e == [g EXCEPT !.rv = v]
<1>1. v \in Nat \ {0}
  BY DEF Grant
<1>2. h = [e EXCEPT !.final = TRUE] \/ h = [e EXCEPT !.deleting = TRUE]
  OBVIOUS
<1> HIDE DEF v
<1>3. e \in Grant /\ e.uid = g.uid /\ e.spec = g.spec /\ e.final = g.final
  BY <1>1 DEF Grant
<1> HIDE DEF e
<1>4. CASE h = [e EXCEPT !.final = TRUE]
  BY <1>3, <1>4 DEF Grant
<1>5. CASE h = [e EXCEPT !.deleting = TRUE]
  BY <1>3, <1>5 DEF Grant
<1> QED
  BY <1>2, <1>4, <1>5

\* The grants of one binding are replaced.
LEMMA GrantsReplaced ==
    ASSUME Later, GrantsCovered, NEW b \in Bindings, NEW T,
           T = {} \/ \E h \in Grant : T = {h} /\ GrantCovered(b, h)',
           grant' = [grant EXCEPT ![b] = T]
    PROVE  GrantsCovered'
<1>0. T \in SUBSET Grant
  OBVIOUS
<1>1. /\ lastUid' \in Nat /\ grant \in [Bindings -> SUBSET Grant]
      /\ \A c \in Bindings : \A g \in grant[c] : grant[c] = {g} /\ GrantCovered(c, g)
  BY DEF Later, GrantsCovered
<1>2. /\ grant' \in [Bindings -> SUBSET Grant]
      /\ grant'[b] = T /\ \A c \in Bindings \ {b} : grant'[c] = grant[c]
  BY <1>0, <1>1
<1>3. ASSUME NEW c \in Bindings, NEW g \in grant'[c]
      PROVE  grant'[c] = {g} /\ GrantCovered(c, g)'
  <2>1. CASE c = b
    <3>1. PICK h \in Grant : T = {h} /\ GrantCovered(b, h)'
      BY <1>2, <1>3, <2>1
    <3>2. g = h /\ grant'[c] = {g}
      BY <1>2, <1>3, <2>1, <3>1
    <3> QED
      BY <2>1, <3>1, <3>2
  <2>2. CASE c # b
    <3>1. grant'[c] = grant[c]
      BY <1>2, <2>2
    <3>2. grant[c] = {g} /\ GrantCovered(c, g)
      BY <1>1, <3>1
    <3> QED
      BY <3>1, <3>2, GrantLater
  <2> QED
    BY <2>1, <2>2
<1> QED
  BY <1>1, <1>2, <1>3, Zenon DEF GrantsCovered

\* Every step keeps the grants covered, and only the removal of a finalizer takes
\* one away.
LEMMA GrantsStep ==
    ASSUME EnforceInductive, EnforceNext
    PROVE  GrantsCovered' /\ (RemoveFinalizer \/ FinalsKept)
<1>0. /\ GrantsCovered /\ OpCovered /\ SourceInductive /\ PubsTyped /\ PubsCovered
      /\ lastUid \in Nat /\ grant \in [Bindings -> SUBSET Grant]
      /\ \A b \in Bindings : \A g \in grant[b] : grant[b] = {g} /\ GrantCovered(b, g) /\ g \in Grant
  BY DEF EnforceInductive, GrantsCovered, GrantCovered, SourceInductive
<1>1. Later /\ SourceInductive'
  BY SourceLater
<1> DEFINE Goal == GrantsCovered' /\ (RemoveFinalizer \/ FinalsKept)
<1>2. ASSUME UNCHANGED grant PROVE Goal
  <2>1. \A c \in Bindings : \A g \in grant[c] : grant'[c] = {g} /\ GrantCovered(c, g)'
    BY <1>0, <1>1, <1>2, GrantLater
  <2>2. GrantsCovered'
    BY <1>0, <1>1, <1>2, <2>1 DEF GrantsCovered, Later
  <2> QED
    BY <1>2, <2>2 DEF FinalsKept
<1>3. ASSUME NEW b \in Bindings, Project(b) PROVE Goal
  <2>1. PICK n \in DOMAIN pubs[b] : PutGrant(b, n)
    BY <1>3 DEF Project, Projects
  <2>2. UNCHANGED <<sourceVars, pubs>>
    BY <1>3 DEF Project
  <2>3. n \in 1 .. Len(pubs[b]) /\ pubs[b] \in Seq(Publication) /\ n \in Nat
    BY <1>0, <2>1 DEF PubsTyped
  <2>4. PICK h \in Grant :
           /\ grant' = [grant EXCEPT ![b] = {h}]
           /\ h.spec = DesiredAccess(b, n)
           /\ \/ /\ grant[b] = {} /\ lastUid' = lastUid + 1
                 /\ h.uid = lastUid + 1 /\ ~h.deleting
              \/ \E x \in grant[b] :
                    /\ lastUid' = lastUid
                    /\ h.uid = x.uid /\ h.deleting = x.deleting /\ h.final = x.final
                    /\ h = x \/ h.rv = x.rv + 1
    BY <1>0, <2>1, <2>3, PutShape
  <2>5. h.uid <= lastUid'
    <3>1. h.uid \in Nat
      BY DEF Grant
    <3>2. \A x \in grant[b] : x.uid <= lastUid
      BY <1>0 DEF GrantCovered
    <3> QED
      BY <1>0, <2>4, <3>1, <3>2
  <2>6. /\ h.spec.seq = n /\ h.spec.issued = pubs[b][n].issued
        /\ h.spec.until = pubs[b][n].until /\ h.spec.models = pubs[b][n].hash.models
    BY <2>4 DEF DesiredAccess
  <2>7. /\ pubs[b][n].issued < pubs[b][n].until
        /\ Covered(b, pubs[b][n].hash.models, pubs[b][n].issued, pubs[b][n].until)
    BY <1>0, <2>3, Zenon DEF PubsCovered
  <2>8. UNCHANGED pubs /\ UNCHANGED binding /\ UNCHANGED allowedAt
    BY <2>2 DEF sourceVars
  <2>9. h.spec.issued < h.spec.until /\ Covered(b, h.spec.models, h.spec.issued, h.spec.until)'
    BY <2>6, <2>7, <2>8 DEF Covered
  <2>10. GrantCovered(b, h)'
    BY <2>3, <2>5, <2>6, <2>8, <2>9 DEF GrantCovered
  <2>11. GrantsCovered'
    BY <1>0, <1>1, <2>4, <2>10, GrantsReplaced
  <2>12. FinalsKept
    <3> SUFFICES ASSUME NEW c \in Bindings, NEW g \in grant[c], g.final
                 PROVE  \E k \in grant'[c] : k.uid = g.uid /\ k.final
      BY DEF FinalsKept
    <3>1. CASE c # b
      <4>1. grant'[c] = grant[c]
        BY <1>0, <2>4, <3>1
      <4> QED
        BY <4>1
    <3>2. CASE c = b
      <4>1. grant'[b] = {h} /\ grant[b] = {g}
        BY <1>0, <2>4, <3>2
      <4>2. h.uid = g.uid /\ h.final = g.final
        BY <2>4, <4>1
      <4> QED
        BY <3>2, <4>1, <4>2
    <3> QED
      BY <3>1, <3>2
  <2> QED
    BY <2>11, <2>12
<1>4. ASSUME NEW b \in Bindings, NEW g \in grant[b], NEW h \in Grant,
             h.uid = g.uid, h.spec = g.spec, g.final => h.final,
             grant' = [grant EXCEPT ![b] = {h}]
      PROVE  Goal
  <2>1. GrantCovered(b, g)'
    BY <1>0, <1>1, GrantLater
  <2>2. GrantCovered(b, h)'
    BY <1>4, <2>1 DEF GrantCovered
  <2>3. GrantsCovered'
    BY <1>0, <1>1, <1>4, <2>2, GrantsReplaced
  <2>4. FinalsKept
    <3> SUFFICES ASSUME NEW c \in Bindings, NEW x \in grant[c], x.final
                 PROVE  \E k \in grant'[c] : k.uid = x.uid /\ k.final
      BY DEF FinalsKept
    <3>1. CASE c # b
      <4>1. grant'[c] = grant[c]
        BY <1>0, <1>4, <3>1
      <4> QED
        BY <4>1
    <3>2. CASE c = b
      <4>1. grant'[b] = {h} /\ grant[b] = {x} /\ grant[b] = {g}
        BY <1>0, <1>4, <3>2
      <4> QED
        BY <1>4, <3>2, <4>1
    <3> QED
      BY <3>1, <3>2
  <2> QED
    BY <2>3, <2>4
<1>5. ASSUME NEW b \in Bindings, Reconcile(b) PROVE Goal
  <2>1. CASE UNCHANGED grant
    BY <1>2, <2>1
  <2>2. CASE ~UNCHANGED grant
    <3>1. PICK g \in grant[b] :
             grant' = [grant EXCEPT ![b] = {[g EXCEPT !.final = TRUE, !.rv = @ + 1]}]
      BY <1>5, <2>2 DEF Reconcile
    <3> DEFINE h == [g EXCEPT !.final = TRUE, !.rv = @ + 1]
    <3>2. g \in Grant /\ h = [g EXCEPT !.final = TRUE, !.rv = @ + 1]
      BY <1>0
    <3>3. grant' = [grant EXCEPT ![b] = {h}]
      BY <3>1
    <3> HIDE DEF h
    <3>4. h \in Grant /\ h.uid = g.uid /\ h.spec = g.spec /\ (g.final => h.final)
      BY <3>2, MetadataEdit, Zenon
    <3> QED
      BY <1>4, <3>3, <3>4
  <2> QED
    BY <2>1, <2>2
<1>6. ASSUME NEW b \in Bindings, DeleteGrant(b) PROVE Goal
  <2>1. PICK g \in grant[b] :
           grant' = [grant EXCEPT ![b] =
                       IF g.final THEN {[g EXCEPT !.deleting = TRUE, !.rv = @ + 1]} ELSE {}]
    BY <1>6 DEF DeleteGrant
  <2>2. CASE g.final
    <3> DEFINE h == [g EXCEPT !.deleting = TRUE, !.rv = @ + 1]
    <3>1. g \in Grant /\ h = [g EXCEPT !.deleting = TRUE, !.rv = @ + 1]
      BY <1>0
    <3>2. grant' = [grant EXCEPT ![b] = {h}]
      BY <2>1, <2>2
    <3> HIDE DEF h
    <3>3. h \in Grant /\ h.uid = g.uid /\ h.spec = g.spec /\ (g.final => h.final)
      BY <3>1, MetadataEdit, Zenon
    <3> QED
      BY <1>4, <3>2, <3>3
  <2>3. CASE ~g.final
    <3>1. grant' = [grant EXCEPT ![b] = {}]
      BY <2>1, <2>3
    <3>2. GrantsCovered'
      BY <1>0, <1>1, <3>1, GrantsReplaced
    <3>3. FinalsKept
      <4> SUFFICES ASSUME NEW c \in Bindings, NEW x \in grant[c], x.final
                   PROVE  \E k \in grant'[c] : k.uid = x.uid /\ k.final
        BY DEF FinalsKept
      <4>1. c # b
        BY <1>0, <2>3
      <4>2. grant'[c] = grant[c]
        BY <1>0, <3>1, <4>1
      <4> QED
        BY <4>2
    <3> QED
      BY <3>2, <3>3
  <2> QED
    BY <2>2, <2>3
<1>7. CASE RemoveFinalizer
  <2>0. op.at = "finalize"
    BY <1>7 DEF RemoveFinalizer
  <2>1. op # NoOp
    BY <2>0 DEF NoOp
  <2>2. PICK at \in OpSteps, b \in Bindings, g \in Grant : op = [at |-> at, b |-> b, g |-> {g}]
    BY <1>0, <2>1 DEF OpCovered
  <2>3. op.b = b /\ op.g = {g}
    BY <2>2
  <2> DEFINE T == {h \in grant[b] : h.uid # g.uid \/ h.rv # g.rv}
  <2>4. grant' = [grant EXCEPT ![b] = T]
    BY <1>7, <2>3 DEF RemoveFinalizer
  <2>5. T = {} \/ \E h \in Grant : T = {h} /\ GrantCovered(b, h)'
    <3>1. CASE T # {}
      <4>1. PICK h \in T : TRUE
        BY <3>1
      <4>2. h \in grant[b] /\ h \in Grant /\ grant[b] = {h} /\ GrantCovered(b, h)
        BY <1>0, <4>1
      <4>3. T = {h}
        BY <4>1, <4>2
      <4>4. GrantCovered(b, h)'
        BY <1>1, <4>2, GrantLater
      <4> QED
        BY <4>2, <4>3, <4>4
    <3> QED
      BY <3>1
  <2> HIDE DEF T
  <2>7. GrantsCovered'
    BY <1>0, <1>1, <2>4, <2>5, GrantsReplaced
  <2> QED
    BY <1>7, <2>7
<1>8. ASSUME BusinessStep \/ \E b \in Bindings : Fail(b) PROVE UNCHANGED grant
  <2>1. CASE BusinessStep
    BY <1>0, <2>1, BusinessKeeps DEF relayVars
  <2>2. CASE \E b \in Bindings : Fail(b)
    BY <2>2 DEF Fail
  <2> QED
    BY <1>8, <2>1, <2>2
<1>9. ASSUME \/ Outdated \/ WritePolicy \/ WriteConfig \/ WriteRoute \/ RemoveRoute
             \/ OperatorFails
             \/ \E b \in Bindings : Collect(b) \/ LoadConfig(b) \/ LoadBounds(b)
      PROVE  UNCHANGED grant
  BY <1>9, Zenon DEF Outdated, WritePolicy, WriteConfig, WriteRoute, RemoveRoute, OperatorFails,
              Collect, LoadConfig, LoadBounds
<1> HIDE DEF Goal
<1>10. \/ UNCHANGED grant
       \/ \E b \in Bindings : Project(b) \/ Reconcile(b) \/ DeleteGrant(b)
       \/ RemoveFinalizer
  BY <1>8, <1>9, Zenon DEF EnforceNext
<1>11. Goal
  BY <1>2, <1>3, <1>5, <1>6, <1>7, <1>10, Zenon DEF Goal
<1> QED
  BY <1>11 DEF Goal

------------------------------------------------------------------------------
(* The reconcile under way                                                 *)

\* What a reconcile under way holds.
LEMMA OpHolds ==
    ASSUME OpCovered, op.at # "idle"
    PROVE  \E b \in Bindings, g \in Grant :
              /\ op.at \in OpSteps /\ op.b = b /\ op.g = {g}
              /\ op = [at |-> op.at, b |-> b, g |-> {g}]
              /\ GrantCovered(b, g)
<1>1. op # NoOp
  BY DEF NoOp
<1>2. PICK at \in OpSteps, b \in Bindings, g \in Grant :
         op = [at |-> at, b |-> b, g |-> {g}] /\ GrantCovered(b, g)
  BY <1>1 DEF OpCovered
<1>3. op.at = at /\ op.b = b /\ op.g = {g}
  BY <1>2
<1> QED
  BY <1>2, <1>3

\* How a step moves the reconcile: not at all, to its end, one step on, or to the
\* first step of a new one, which holds a grant of the cluster.
LEMMA OpMoves ==
    ASSUME EnforceInductive, EnforceNext
    PROVE  \/ UNCHANGED op
           \/ op' = NoOp
           \/ /\ op.at # "idle"
              /\ \E at \in OpSteps : op' = [op EXCEPT !.at = at]
           \/ \E b \in Bindings : \E g \in grant[b] : \E at \in OpSteps :
                 op' = [at |-> at, b |-> b, g |-> {g}]
<1> DEFINE Goal == \/ UNCHANGED op
                   \/ op' = NoOp
                   \/ /\ op.at # "idle"
                      /\ \E at \in OpSteps : op' = [op EXCEPT !.at = at]
                   \/ \E b \in Bindings : \E g \in grant[b] : \E at \in OpSteps :
                         op' = [at |-> at, b |-> b, g |-> {g}]
<1>1. ASSUME NEW g, NEW at \in OpSteps, Go(at, g), op.at # "idle" PROVE Goal
  BY <1>1 DEF Go
<1>2. ASSUME End PROVE Goal
  BY <1>2 DEF End
<1>3. CASE WritePolicy
  <2>1. op.at # "idle" /\ "config" \in OpSteps
    BY <1>3 DEF WritePolicy, OpSteps
  <2>2. End \/ \E g : Go("config", g)
    BY <1>3, Zenon DEF WritePolicy
  <2> HIDE DEF Goal
  <2> QED
    BY <1>1, <1>2, <2>1, <2>2 DEF Goal
<1>4. CASE WriteConfig
  <2>1. op.at # "idle" /\ "route" \in OpSteps
    BY <1>4 DEF WriteConfig, OpSteps
  <2>2. End \/ \E g : Go("route", g)
    BY <1>4, Zenon DEF WriteConfig
  <2> HIDE DEF Goal
  <2> QED
    BY <1>1, <1>2, <2>1, <2>2 DEF Goal
<1>5. CASE RemoveRoute
  <2>1. op.at # "idle" /\ "finalize" \in OpSteps
    BY <1>5 DEF RemoveRoute, OpSteps
  <2>2. End \/ op' = [op EXCEPT !.at = "finalize"]
    BY <1>5, Zenon DEF RemoveRoute
  <2> QED
    BY <1>2, <2>1, <2>2
<1>6. ASSUME NEW b \in Bindings, Reconcile(b) PROVE Goal
  <2>1. "remove" \in OpSteps /\ "policy" \in OpSteps
    BY DEF OpSteps
  <2>2. \/ UNCHANGED op
        \/ \E g \in grant[b] : \E at \in {"remove", "policy"} :
              op' = [at |-> at, b |-> b, g |-> {g}]
    BY <1>6 DEF Reconcile
  <2> QED
    BY <2>1, <2>2
<1>7. ASSUME Outdated \/ WriteRoute \/ RemoveFinalizer \/ OperatorFails PROVE End
  BY <1>7, Zenon DEF Outdated, WriteRoute, RemoveFinalizer, OperatorFails
<1>8. ASSUME \/ BusinessStep /\ UNCHANGED enforceVars
             \/ \E b \in Bindings : \/ Project(b) \/ Fail(b) \/ DeleteGrant(b) \/ Collect(b)
                                    \/ LoadConfig(b) \/ LoadBounds(b)
      PROVE  UNCHANGED op
  BY <1>8 DEF enforceVars, Project, Fail, DeleteGrant, Collect, LoadConfig, LoadBounds
<1>9. ASSUME UNCHANGED op PROVE Goal
  BY <1>9
<1> HIDE DEF Goal
<1>10. Goal
  BY <1>2, <1>3, <1>4, <1>5, <1>6, <1>7, <1>8, <1>9, Zenon DEF EnforceNext, Goal
<1> QED
  BY <1>10 DEF Goal

\* A reconcile works on a covered publication.
LEMMA OpStep ==
    ASSUME EnforceInductive, EnforceNext
    PROVE  OpCovered'
<1>0. /\ OpCovered /\ GrantsCovered
      /\ \A b \in Bindings : \A g \in grant[b] : GrantCovered(b, g) /\ g \in Grant
  BY DEF EnforceInductive, GrantsCovered, GrantCovered
<1>1. Later
  BY SourceLater
<1>2. ASSUME NEW at \in OpSteps, NEW b \in Bindings, NEW g \in Grant, GrantCovered(b, g),
             op' = [at |-> at, b |-> b, g |-> {g}]
      PROVE  OpCovered'
  <2>1. GrantCovered(b, g)'
    BY <1>1, <1>2, GrantLater
  <2> QED
    BY <1>2, <2>1, Zenon DEF OpCovered
<1>3. CASE UNCHANGED op
  <2>1. CASE op = NoOp
    BY <1>3, <2>1 DEF OpCovered, NoOp
  <2>2. CASE op # NoOp
    BY <1>0, <1>2, <1>3, <2>2, Zenon DEF OpCovered
  <2> QED
    BY <2>1, <2>2
<1>4. CASE op' = NoOp
  BY <1>4 DEF OpCovered, NoOp
<1>5. ASSUME op.at # "idle", NEW at \in OpSteps, op' = [op EXCEPT !.at = at] PROVE OpCovered'
  <2>1. PICK b \in Bindings, g \in Grant :
           op = [at |-> op.at, b |-> b, g |-> {g}] /\ GrantCovered(b, g)
    BY <1>0, <1>5, OpHolds
  <2>2. op' = [at |-> at, b |-> b, g |-> {g}]
    BY <1>5, <2>1
  <2> QED
    BY <1>2, <2>1, <2>2
<1>6. ASSUME NEW b \in Bindings, NEW g \in grant[b], NEW at \in OpSteps,
             op' = [at |-> at, b |-> b, g |-> {g}]
      PROVE  OpCovered'
  BY <1>0, <1>2, <1>6
<1> QED
  BY <1>3, <1>4, <1>5, <1>6, OpMoves, Zenon

------------------------------------------------------------------------------
(* The objects of the operator                                             *)

\* Render: the objects of a covered grant are covered.
LEMMA RenderCovered ==
    ASSUME GrantsCovered, NEW b \in Bindings, NEW g, GrantCovered(b, g)
    PROVE  /\ RenderBounds(g) \in BoundsRow /\ BoundsCovered(b, RenderBounds(g))
           /\ RenderConfig(g) \in ConfigRow /\ ConfigPublished(b, RenderConfig(g))
<1>1. /\ g.uid \in Nat \ {0} /\ g.spec.seq \in Nat /\ g.spec.disabled \in BOOLEAN
      /\ g.spec.models \in SUBSET AccessModels /\ g.spec.issued \in Nat /\ g.spec.until \in Nat
  BY DEF GrantCovered, Grant, GrantSpec
<1>2. PolicyHash(g.spec) \in Hash /\ PolicyHash(g.spec).models = g.spec.models
  BY <1>1 DEF PolicyHash, Hash
<1> DEFINE hash == PolicyHash(g.spec)
           n == RenderBounds(g)
           c == RenderConfig(g)
<1> HIDE DEF hash
<1>3. /\ n \in BoundsRow /\ n.seq = g.spec.seq /\ n.issued = g.spec.issued
      /\ n.until = g.spec.until /\ n.hash = hash
  BY <1>1, <1>2 DEF RenderBounds, BoundsRow, hash
<1>4. c \in ConfigRow /\ c.seq = g.spec.seq /\ c.uid = g.uid
  BY <1>1, <1>2 DEF RenderConfig, ConfigRow
<1> HIDE DEF n, c
<1>5. n.hash.models = g.spec.models
  BY <1>2, <1>3 DEF hash
<1>6. BoundsCovered(b, n)
  BY <1>3, <1>5 DEF BoundsCovered, GrantCovered
<1>7. ConfigPublished(b, c)
  <2>1. g.uid \in 1 .. lastUid /\ g.spec.seq \in 1 .. Len(pubs[b])
    BY <1>1 DEF GrantCovered, GrantsCovered
  <2> QED
    BY <1>4, <2>1 DEF ConfigPublished
<1> QED
  BY <1>3, <1>4, <1>6, <1>7 DEF n, c

\* The ConfigMaps with the bounds.
LEMMA BoundsStep ==
    ASSUME EnforceInductive, EnforceNext
    PROVE  /\ bounds' \in [Bindings -> SUBSET BoundsRow]
           /\ \A b \in Bindings : \A c \in bounds'[b] : bounds'[b] = {c} /\ BoundsCovered(b, c)'
<1>0. /\ GrantsCovered /\ OpCovered /\ bounds \in [Bindings -> SUBSET BoundsRow]
      /\ \A b \in Bindings : \A c \in bounds[b] : bounds[b] = {c} /\ BoundsCovered(b, c)
  BY DEF EnforceInductive, ObjectsTyped, ObjectsCovered
<1>1. Later
  BY SourceLater
<1>2. ASSUME NEW b \in Bindings, NEW c \in bounds[b]
      PROVE  bounds[b] = {c} /\ BoundsCovered(b, c)'
  <2>1. c \in BoundsRow /\ BoundsCovered(b, c) /\ bounds[b] = {c}
    BY <1>0, <1>2
  <2> QED
    BY <1>1, <2>1, BoundsLater
<1> DEFINE Goal == /\ bounds' \in [Bindings -> SUBSET BoundsRow]
                   /\ \A b \in Bindings : \A c \in bounds'[b] :
                         bounds'[b] = {c} /\ BoundsCovered(b, c)'
<1>3. ASSUME UNCHANGED bounds PROVE Goal
  BY <1>0, <1>2, <1>3
<1>4. CASE WritePolicy
  <2>1. PICK b \in Bindings, g \in Grant : op.b = b /\ op.g = {g} /\ GrantCovered(b, g)
    BY <1>0, <1>4, OpHolds DEF WritePolicy
  <2>2. UNCHANGED bounds \/ bounds' = [bounds EXCEPT ![b] = {RenderBounds(g)}]
    BY <1>4, <2>1 DEF WritePolicy
  <2> DEFINE n == RenderBounds(g)
  <2>3. n \in BoundsRow /\ BoundsCovered(b, n)
    BY <1>0, <2>1, RenderCovered
  <2> HIDE DEF n
  <2>4. BoundsCovered(b, n)'
    BY <1>1, <2>3, BoundsLater
  <2>5. ASSUME bounds' = [bounds EXCEPT ![b] = {n}] PROVE Goal
    <3>1. /\ bounds' \in [Bindings -> SUBSET BoundsRow]
          /\ bounds'[b] = {n} /\ \A c \in Bindings \ {b} : bounds'[c] = bounds[c]
      BY <1>0, <2>3, <2>5
    <3>2. ASSUME NEW d \in Bindings, NEW c \in bounds'[d]
          PROVE  bounds'[d] = {c} /\ BoundsCovered(d, c)'
      <4>1. CASE d = b
        <5>1. c = n /\ bounds'[d] = {c}
          BY <3>1, <3>2, <4>1
        <5> QED
          BY <2>4, <4>1, <5>1
      <4>2. CASE d # b
        BY <1>2, <3>1, <3>2, <4>2
      <4> QED
        BY <4>1, <4>2
    <3> QED
      BY <3>1, <3>2
  <2> QED
    BY <1>3, <2>2, <2>5 DEF n
<1>5. ASSUME NEW b \in Bindings, Collect(b) PROVE Goal
  <2>1. PICK T \in SUBSET bounds[b] : bounds' = [bounds EXCEPT ![b] = T]
    <3>1. bounds' = [bounds EXCEPT ![b] =
                       {c \in bounds[b] : \E g \in grant[b] : g.uid = c.uid}]
      BY <1>5 DEF Collect
    <3> QED
      BY <3>1
  <2>2. /\ bounds' \in [Bindings -> SUBSET BoundsRow]
        /\ \A d \in Bindings : bounds'[d] \subseteq bounds[d]
    BY <1>0, <2>1
  <2>3. ASSUME NEW d \in Bindings, NEW c \in bounds'[d]
        PROVE  bounds'[d] = {c} /\ BoundsCovered(d, c)'
    <3>1. c \in bounds[d]
      BY <2>2, <2>3
    <3>2. bounds[d] = {c} /\ BoundsCovered(d, c)'
      BY <1>2, <3>1
    <3>3. bounds'[d] = {c}
      BY <2>2, <2>3, <3>2
    <3> QED
      BY <3>2, <3>3
  <2> QED
    BY <2>2, <2>3
<1>6. ASSUME \/ BusinessStep /\ UNCHANGED enforceVars
             \/ Outdated \/ WriteConfig \/ WriteRoute \/ RemoveRoute \/ RemoveFinalizer
             \/ OperatorFails
             \/ \E b \in Bindings : \/ Project(b) \/ Fail(b) \/ Reconcile(b) \/ DeleteGrant(b)
                                    \/ LoadConfig(b) \/ LoadBounds(b)
      PROVE  UNCHANGED bounds
  BY <1>6, Zenon DEF enforceVars, Project, Fail, DeleteGrant, LoadConfig, LoadBounds, Outdated,
              WriteConfig, WriteRoute, RemoveRoute, RemoveFinalizer, OperatorFails, Reconcile
<1> HIDE DEF Goal
<1>7. Goal
  BY <1>3, <1>4, <1>5, <1>6, Zenon DEF EnforceNext, Goal
<1> QED
  BY <1>7 DEF Goal

\* The AuthConfigs.
LEMMA ConfigStep ==
    ASSUME EnforceInductive, EnforceNext
    PROVE  /\ config' \in [Bindings -> SUBSET ConfigRow]
           /\ \A b \in Bindings : \A c \in config'[b] : config'[b] = {c} /\ ConfigPublished(b, c)'
<1>0. /\ GrantsCovered /\ OpCovered /\ config \in [Bindings -> SUBSET ConfigRow]
      /\ \A b \in Bindings : \A c \in config[b] : config[b] = {c} /\ ConfigPublished(b, c)
  BY DEF EnforceInductive, ObjectsTyped, ObjectsCovered
<1>1. Later
  BY SourceLater
<1>2. ASSUME NEW b \in Bindings, NEW c \in config[b]
      PROVE  config[b] = {c} /\ ConfigPublished(b, c)'
  <2>1. c \in ConfigRow /\ ConfigPublished(b, c) /\ config[b] = {c}
    BY <1>0, <1>2
  <2> QED
    BY <1>1, <2>1, ConfigLater
<1> DEFINE Goal == /\ config' \in [Bindings -> SUBSET ConfigRow]
                   /\ \A b \in Bindings : \A c \in config'[b] :
                         config'[b] = {c} /\ ConfigPublished(b, c)'
<1>3. ASSUME UNCHANGED config PROVE Goal
  BY <1>0, <1>2, <1>3
<1>4. CASE WriteConfig
  <2>1. PICK b \in Bindings, g \in Grant : op.b = b /\ op.g = {g} /\ GrantCovered(b, g)
    BY <1>0, <1>4, OpHolds DEF WriteConfig
  <2>2. UNCHANGED config \/ config' = [config EXCEPT ![b] = {RenderConfig(g)}]
    BY <1>4, <2>1 DEF WriteConfig
  <2> DEFINE n == RenderConfig(g)
  <2>3. n \in ConfigRow /\ ConfigPublished(b, n)
    BY <1>0, <2>1, RenderCovered
  <2> HIDE DEF n
  <2>4. ConfigPublished(b, n)'
    BY <1>1, <2>3, ConfigLater
  <2>5. ASSUME config' = [config EXCEPT ![b] = {n}] PROVE Goal
    <3>1. /\ config' \in [Bindings -> SUBSET ConfigRow]
          /\ config'[b] = {n} /\ \A c \in Bindings \ {b} : config'[c] = config[c]
      BY <1>0, <2>3, <2>5
    <3>2. ASSUME NEW d \in Bindings, NEW c \in config'[d]
          PROVE  config'[d] = {c} /\ ConfigPublished(d, c)'
      <4>1. CASE d = b
        <5>1. c = n /\ config'[d] = {c}
          BY <3>1, <3>2, <4>1
        <5> QED
          BY <2>4, <4>1, <5>1
      <4>2. CASE d # b
        BY <1>2, <3>1, <3>2, <4>2
      <4> QED
        BY <4>1, <4>2
    <3> QED
      BY <3>1, <3>2
  <2> QED
    BY <1>3, <2>2, <2>5 DEF n
<1>5. ASSUME NEW b \in Bindings, Collect(b) PROVE Goal
  <2>1. PICK T \in SUBSET config[b] : config' = [config EXCEPT ![b] = T]
    <3>1. config' = [config EXCEPT ![b] =
                       {c \in config[b] : \E g \in grant[b] : g.uid = c.uid}]
      BY <1>5 DEF Collect
    <3> QED
      BY <3>1
  <2>2. /\ config' \in [Bindings -> SUBSET ConfigRow]
        /\ \A d \in Bindings : config'[d] \subseteq config[d]
    BY <1>0, <2>1
  <2>3. ASSUME NEW d \in Bindings, NEW c \in config'[d]
        PROVE  config'[d] = {c} /\ ConfigPublished(d, c)'
    <3>1. c \in config[d]
      BY <2>2, <2>3
    <3>2. config[d] = {c} /\ ConfigPublished(d, c)'
      BY <1>2, <3>1
    <3>3. config'[d] = {c}
      BY <2>2, <2>3, <3>2
    <3> QED
      BY <3>2, <3>3
  <2> QED
    BY <2>2, <2>3
<1>6. ASSUME \/ BusinessStep /\ UNCHANGED enforceVars
             \/ Outdated \/ WritePolicy \/ WriteRoute \/ RemoveRoute \/ RemoveFinalizer
             \/ OperatorFails
             \/ \E b \in Bindings : \/ Project(b) \/ Fail(b) \/ Reconcile(b) \/ DeleteGrant(b)
                                    \/ LoadConfig(b) \/ LoadBounds(b)
      PROVE  UNCHANGED config
  BY <1>6, Zenon DEF enforceVars, Project, Fail, DeleteGrant, LoadConfig, LoadBounds, Outdated,
              WritePolicy, WriteRoute, RemoveRoute, RemoveFinalizer, OperatorFails, Reconcile
<1> HIDE DEF Goal
<1>7. Goal
  BY <1>3, <1>4, <1>5, <1>6, Zenon DEF EnforceNext, Goal
<1> QED
  BY <1>7 DEF Goal

\* What the authorizer has loaded.
LEMMA ServingStep ==
    ASSUME EnforceInductive, EnforceNext
    PROVE  /\ serving' \in [Bindings -> [config : SUBSET ConfigRow, bounds : SUBSET BoundsRow]]
           /\ \A b \in Bindings : \A c \in serving'[b].bounds : BoundsCovered(b, c)'
<1>0. /\ bounds \in [Bindings -> SUBSET BoundsRow] /\ config \in [Bindings -> SUBSET ConfigRow]
      /\ serving \in [Bindings -> [config : SUBSET ConfigRow, bounds : SUBSET BoundsRow]]
      /\ \A b \in Bindings : \A c \in bounds[b] : BoundsCovered(b, c)
      /\ \A b \in Bindings : \A c \in serving[b].bounds : BoundsCovered(b, c)
  BY DEF EnforceInductive, ObjectsTyped, ObjectsCovered
<1>1. Later
  BY SourceLater
<1>2. ASSUME NEW b \in Bindings, NEW c \in bounds[b] \cup serving[b].bounds
      PROVE  BoundsCovered(b, c)'
  <2>1. c \in BoundsRow /\ BoundsCovered(b, c)
    BY <1>0, <1>2
  <2> QED
    BY <1>1, <2>1, BoundsLater
<1> DEFINE Loaded == [config : SUBSET ConfigRow, bounds : SUBSET BoundsRow]
           Goal == /\ serving' \in [Bindings -> Loaded]
                   /\ \A b \in Bindings : \A c \in serving'[b].bounds : BoundsCovered(b, c)'
<1>3. ASSUME UNCHANGED serving PROVE Goal
  BY <1>0, <1>2, <1>3
<1>4. ASSUME NEW b \in Bindings, NEW e \in Loaded, serving' = [serving EXCEPT ![b] = e],
             e.bounds \in {bounds[b], serving[b].bounds}
      PROVE  Goal
  <2>1. /\ serving' \in [Bindings -> Loaded] /\ serving'[b] = e
        /\ \A d \in Bindings \ {b} : serving'[d] = serving[d]
    BY <1>0, <1>4
  <2>2. ASSUME NEW d \in Bindings, NEW c \in serving'[d].bounds PROVE BoundsCovered(d, c)'
    <3>1. CASE d = b
      BY <1>2, <1>4, <2>1, <2>2, <3>1
    <3>2. CASE d # b
      BY <1>2, <2>1, <2>2, <3>2
    <3> QED
      BY <3>1, <3>2
  <2> QED
    BY <2>1, <2>2
<1>5. ASSUME NEW b \in Bindings, LoadConfig(b) PROVE Goal
  <2> DEFINE e == [serving[b] EXCEPT !.config = config[b]]
  <2>1. serving' = [serving EXCEPT ![b] = e]
    BY <1>5 DEF LoadConfig
  <2>2. e \in Loaded /\ e.bounds = serving[b].bounds
    BY <1>0
  <2> HIDE DEF e, Goal
  <2> QED
    BY <1>4, <2>1, <2>2
<1>6. ASSUME NEW b \in Bindings, LoadBounds(b) PROVE Goal
  <2> DEFINE e == [serving[b] EXCEPT !.bounds = bounds[b]]
  <2>1. serving' = [serving EXCEPT ![b] = e]
    BY <1>6 DEF LoadBounds
  <2>2. e \in Loaded /\ e.bounds = bounds[b]
    BY <1>0
  <2> HIDE DEF e, Goal
  <2> QED
    BY <1>4, <2>1, <2>2
<1>7. ASSUME \/ BusinessStep /\ UNCHANGED enforceVars
             \/ Outdated \/ WritePolicy \/ WriteConfig \/ WriteRoute \/ RemoveRoute
             \/ RemoveFinalizer \/ OperatorFails
             \/ \E b \in Bindings : \/ Project(b) \/ Fail(b) \/ Reconcile(b) \/ DeleteGrant(b)
                                    \/ Collect(b)
      PROVE  UNCHANGED serving
  BY <1>7, Zenon DEF enforceVars, Project, Fail, DeleteGrant, Collect, Outdated, WritePolicy,
              WriteConfig, WriteRoute, RemoveRoute, RemoveFinalizer, OperatorFails, Reconcile
<1> HIDE DEF Goal
<1>8. Goal
  BY <1>3, <1>5, <1>6, <1>7, Zenon DEF EnforceNext
<1> QED
  BY <1>8 DEF Goal

------------------------------------------------------------------------------
(* Routes                                                                  *)

\* A route is set to the grant of the reconcile that writes it, or cleared; no
\* other step touches it.
LEMMA RouteMoves ==
    ASSUME EnforceInductive, EnforceNext
    PROVE  \/ UNCHANGED route
           \/ /\ op.at = "route" /\ op' = NoOp /\ UNCHANGED <<grant, lastUid>>
              /\ \E b \in Bindings, g \in Grant : \E u \in {0, g.uid} :
                    /\ op.b = b /\ op.g = {g} /\ GrantCovered(b, g)
                    /\ route' = [route EXCEPT ![b] = u]
           \/ /\ op.at = "remove" /\ UNCHANGED <<grant, lastUid>>
              /\ \E b \in Bindings : op.b = b /\ route' = [route EXCEPT ![b] = 0]
<1>0. OpCovered
  BY DEF EnforceInductive
<1> DEFINE Goal == \/ UNCHANGED route
                   \/ /\ op.at = "route" /\ op' = NoOp /\ UNCHANGED <<grant, lastUid>>
                      /\ \E b \in Bindings, g \in Grant : \E u \in {0, g.uid} :
                            /\ op.b = b /\ op.g = {g} /\ GrantCovered(b, g)
                            /\ route' = [route EXCEPT ![b] = u]
                   \/ /\ op.at = "remove" /\ UNCHANGED <<grant, lastUid>>
                      /\ \E b \in Bindings : op.b = b /\ route' = [route EXCEPT ![b] = 0]
<1>1. CASE WriteRoute
  <2>1. op.at = "route" /\ op' = NoOp /\ UNCHANGED <<grant, lastUid>>
    BY <1>1 DEF WriteRoute, End, ledgerVars
  <2>2. PICK b \in Bindings, g \in Grant : op.b = b /\ op.g = {g} /\ GrantCovered(b, g)
    BY <1>0, <2>1, OpHolds
  <2>3. route' = IF route[b] \notin {0, g.uid} THEN route
                 ELSE [route EXCEPT ![b] = IF WantsRoute(g) THEN g.uid ELSE 0]
    BY <1>1, <2>2 DEF WriteRoute
  <2>4. UNCHANGED route \/ \E u \in {0, g.uid} : route' = [route EXCEPT ![b] = u]
    BY <2>3
  <2> QED
    BY <2>1, <2>2, <2>4
<1>2. CASE RemoveRoute
  <2>1. op.at = "remove" /\ UNCHANGED <<grant, lastUid>>
    BY <1>2 DEF RemoveRoute, ledgerVars
  <2>2. PICK b \in Bindings, g \in Grant : op.b = b /\ op.g = {g}
    BY <1>0, <2>1, OpHolds
  <2>3. UNCHANGED route \/ route' = [route EXCEPT ![b] = 0]
    BY <1>2, <2>2 DEF RemoveRoute
  <2> QED
    BY <2>1, <2>2, <2>3
<1>3. ASSUME \/ BusinessStep /\ UNCHANGED enforceVars
             \/ Outdated \/ WritePolicy \/ WriteConfig \/ RemoveFinalizer \/ OperatorFails
             \/ \E b \in Bindings : \/ Project(b) \/ Fail(b) \/ Reconcile(b) \/ DeleteGrant(b)
                                    \/ Collect(b) \/ LoadConfig(b) \/ LoadBounds(b)
      PROVE  UNCHANGED route
  BY <1>3, Zenon DEF enforceVars, Project, Fail, DeleteGrant, Collect, LoadConfig, LoadBounds,
              Outdated, WritePolicy, WriteConfig, RemoveFinalizer, OperatorFails, Reconcile
<1>4. ASSUME UNCHANGED route PROVE Goal
  BY <1>4
<1> HIDE DEF Goal
<1>5. Goal
  BY <1>1, <1>2, <1>3, <1>4, Zenon DEF EnforceNext, Goal
<1> QED
  BY <1>5 DEF Goal

\* Routes keep the type, and every route has the grant whose finalizer removes it.
LEMMA RouteStep ==
    ASSUME EnforceInductive, EnforceNext
    PROVE  /\ route' \in [Bindings -> Nat]
           /\ \A b \in Bindings : route'[b] <= lastUid'
           /\ NoOrphanRoute'
<1>0. /\ route \in [Bindings -> Nat] /\ grant \in [Bindings -> SUBSET Grant] /\ OpCovered
      /\ RouteGuarded
      /\ \A b \in Bindings : route[b] <= lastUid
      /\ \A b \in Bindings : route[b] # 0 => \E g \in grant[b] : g.uid = route[b] /\ g.final
  BY DEF EnforceInductive, ObjectsTyped, ObjectsCovered, GrantsCovered, NoOrphanRoute
<1>1. lastUid \in Nat /\ lastUid' \in Nat /\ lastUid' >= lastUid
  BY SourceLater DEF Later
<1> DEFINE Goal == /\ route' \in [Bindings -> Nat]
                   /\ \A b \in Bindings : route'[b] <= lastUid'
                   /\ \A b \in Bindings :
                         route'[b] # 0 => \E h \in grant'[b] : h.uid = route'[b] /\ h.final
<1>2. ASSUME NEW b \in Bindings, NEW u \in Nat, u <= lastUid,
             u # 0 => \E h \in grant[b] : h.uid = u /\ h.final,
             UNCHANGED <<grant, lastUid>>, route' = [route EXCEPT ![b] = u]
      PROVE  Goal
  <2>1. /\ route' \in [Bindings -> Nat] /\ route'[b] = u
        /\ \A c \in Bindings \ {b} : route'[c] = route[c]
    BY <1>0, <1>2
  <2>2. \A c \in Bindings : route'[c] <= lastUid'
    BY <1>0, <1>2, <2>1
  <2>3. ASSUME NEW c \in Bindings, route'[c] # 0
        PROVE  \E h \in grant'[c] : h.uid = route'[c] /\ h.final
    <3>1. CASE c = b
      BY <1>2, <2>1, <2>3, <3>1
    <3>2. CASE c # b
      BY <1>0, <1>2, <2>1, <2>3, <3>2
    <3> QED
      BY <3>1, <3>2
  <2> QED
    BY <2>1, <2>2, <2>3
<1>3. ASSUME /\ op.at = "route" /\ op' = NoOp /\ UNCHANGED <<grant, lastUid>>
             /\ \E b \in Bindings, g \in Grant : \E u \in {0, g.uid} :
                   /\ op.b = b /\ op.g = {g} /\ GrantCovered(b, g)
                   /\ route' = [route EXCEPT ![b] = u]
      PROVE  Goal
  <2>1. PICK b \in Bindings, g \in Grant : \E u \in {0, g.uid} :
           /\ op.b = b /\ op.g = {g} /\ GrantCovered(b, g)
           /\ route' = [route EXCEPT ![b] = u]
    BY <1>3
  <2>2. PICK u \in {0, g.uid} :
           /\ op.b = b /\ op.g = {g} /\ GrantCovered(b, g)
           /\ route' = [route EXCEPT ![b] = u]
    BY <2>1
  <2>3. g.uid \in Nat /\ g.uid <= lastUid
    BY <2>2 DEF GrantCovered, Grant
  <2>4. \E h \in grant[b] : h.uid = g.uid /\ h.final
    BY <1>0, <1>3, <2>2 DEF RouteGuarded
  <2>5. u \in Nat /\ u <= lastUid /\ (u # 0 => \E h \in grant[b] : h.uid = u /\ h.final)
    BY <1>1, <2>2, <2>3, <2>4
  <2> HIDE DEF Goal
  <2> QED
    BY <1>2, <1>3, <2>2, <2>5
<1>4. ASSUME /\ op.at = "remove" /\ UNCHANGED <<grant, lastUid>>
             /\ \E b \in Bindings : op.b = b /\ route' = [route EXCEPT ![b] = 0]
      PROVE  Goal
  <2>1. PICK b \in Bindings : route' = [route EXCEPT ![b] = 0]
    BY <1>4
  <2>2. 0 \in Nat /\ 0 <= lastUid
    BY <1>1
  <2> HIDE DEF Goal
  <2> QED
    BY <1>2, <1>4, <2>1, <2>2
<1>5. ASSUME UNCHANGED route PROVE Goal
  <2>1. \A b \in Bindings : route'[b] <= lastUid'
    BY <1>0, <1>1, <1>5
  <2>2. ASSUME NEW b \in Bindings, route'[b] # 0
        PROVE  \E h \in grant'[b] : h.uid = route'[b] /\ h.final
    <3>1. PICK g \in grant[b] : g.uid = route[b] /\ g.final
      BY <1>0, <1>5, <2>2
    <3>2. CASE FinalsKept
      BY <1>5, <3>1, <3>2 DEF FinalsKept
    <3>3. CASE RemoveFinalizer
      <4>1. op.at = "finalize"
        BY <3>3 DEF RemoveFinalizer
      <4>2. PICK d \in Bindings, k \in Grant : op.b = d /\ op.g = {k}
        BY <1>0, <4>1, OpHolds
      <4>3. d # b
        BY <1>0, <1>5, <2>2, <4>1, <4>2 DEF RouteGuarded
      <4> DEFINE T == {h \in grant[d] : h.uid # k.uid \/ h.rv # k.rv}
      <4>4. grant' = [grant EXCEPT ![d] = T]
        BY <3>3, <4>2 DEF RemoveFinalizer
      <4> HIDE DEF T
      <4>5. grant'[b] = grant[b]
        BY <1>0, <4>3, <4>4
      <4> QED
        BY <1>5, <3>1, <4>5
    <3> QED
      BY <3>2, <3>3, GrantsStep
  <2> QED
    BY <1>0, <1>5, <2>1, <2>2
<1> HIDE DEF Goal
<1>6. Goal
  BY <1>3, <1>4, <1>5, RouteMoves, Zenon
<1> QED
  BY <1>6 DEF Goal, NoOrphanRoute

\* How a step moves the reconcile, and what it leaves of the grant and the route.
LEMMA GuardStep ==
    ASSUME EnforceInductive, EnforceNext
    PROVE  RouteGuarded'
<1>0. RouteGuarded /\ OpCovered
      /\ route \in [Bindings -> Nat] /\ grant \in [Bindings -> SUBSET Grant]
  BY DEF EnforceInductive, ObjectsTyped, GrantsCovered
<1> DEFINE Rendering == {"policy", "config", "route"}
<1>1. ASSUME op'.at \in {"idle", "remove"} PROVE RouteGuarded'
  BY <1>1 DEF RouteGuarded
<1>2. CASE op' = NoOp
  BY <1>1, <1>2 DEF NoOp
<1>3. ASSUME NEW b \in Bindings, NEW g \in Grant, op'.b = b, op'.g = {g},
             op'.at \in Rendering, \E h \in grant'[b] : h.uid = g.uid /\ h.final
      PROVE  RouteGuarded'
  BY <1>3 DEF RouteGuarded
<1>4. ASSUME op'.at = "finalize", route'[op'.b] = 0 PROVE RouteGuarded'
  BY <1>4 DEF RouteGuarded
<1>5. ASSUME op' # NoOp PROVE FinalsKept
  BY <1>5, GrantsStep DEF RemoveFinalizer, End
\* A reconcile that renders goes on rendering the same grant.
<1>6. ASSUME op.at \in Rendering, op'.at \in Rendering, op'.b = op.b, op'.g = op.g
      PROVE  RouteGuarded'
  <2>1. op.at # "idle" /\ op' # NoOp
    BY <1>6 DEF NoOp
  <2>2. PICK b \in Bindings, g \in Grant : op.b = b /\ op.g = {g}
    BY <1>0, <2>1, OpHolds
  <2>3. PICK h \in grant[b] : h.uid = g.uid /\ h.final
    BY <1>0, <1>6, <2>2 DEF RouteGuarded
  <2>4. \E k \in grant'[b] : k.uid = g.uid /\ k.final
    BY <1>5, <2>1, <2>3 DEF FinalsKept
  <2> QED
    BY <1>3, <1>6, <2>2, <2>4
<1>7. CASE UNCHANGED op
  <2>1. CASE op.at = "finalize"
    <3>1. op # NoOp
      BY <2>1 DEF NoOp
    <3>2. UNCHANGED route
      BY <1>7, <2>1, RouteMoves
    <3> QED
      BY <1>0, <1>4, <1>7, <2>1, <3>2 DEF RouteGuarded
  <2>2. CASE op.at = "idle"
    BY <1>1, <1>7, <2>2
  <2>3. CASE op.at \notin {"idle", "finalize"}
    <3>1. op.at \in OpSteps
      BY <1>0, <2>3, OpHolds
    <3> QED
      BY <1>1, <1>6, <1>7, <2>3, <3>1 DEF OpSteps
  <2> QED
    BY <2>1, <2>2, <2>3
<1>8. ASSUME NEW at \in Rendering, NEW g, Go(at, g), op.at \in Rendering PROVE RouteGuarded'
  <2>1. CASE op' # NoOp
    <3>1. op.at # "idle"
      BY <1>8
    <3>2. PICK b \in Bindings, x \in Grant : op = [at |-> op.at, b |-> b, g |-> {x}]
      BY <1>0, <3>1, OpHolds
    <3>3. op' = [op EXCEPT !.at = at]
      BY <1>8, <2>1 DEF Go
    <3>4. op'.at = at /\ op'.b = op.b /\ op'.g = op.g
      BY <3>2, <3>3
    <3> QED
      BY <1>6, <1>8, <3>4
  <2> QED
    BY <1>2, <2>1
<1>9. CASE WritePolicy
  <2>1. op.at \in Rendering /\ "config" \in Rendering
    BY <1>9 DEF WritePolicy
  <2>2. End \/ \E g : Go("config", g)
    BY <1>9, Zenon DEF WritePolicy
  <2> HIDE DEF Rendering
  <2> QED
    BY <1>2, <1>8, <2>1, <2>2 DEF End
<1>10. CASE WriteConfig
  <2>1. op.at \in Rendering /\ "route" \in Rendering
    BY <1>10 DEF WriteConfig
  <2>2. End \/ \E g : Go("route", g)
    BY <1>10, Zenon DEF WriteConfig
  <2> HIDE DEF Rendering
  <2> QED
    BY <1>2, <1>8, <2>1, <2>2 DEF End
<1>11. CASE RemoveRoute
  <2>1. op.at = "remove" /\ op.at # "idle"
    BY <1>11 DEF RemoveRoute
  <2>2. PICK b \in Bindings, g \in Grant :
           op.b = b /\ op.g = {g} /\ op = [at |-> op.at, b |-> b, g |-> {g}]
    BY <1>0, <2>1, OpHolds
  <2>3. op' = NoOp \/ (route' = [route EXCEPT ![b] = 0] /\ op' = [op EXCEPT !.at = "finalize"])
    BY <1>11, <2>2 DEF RemoveRoute, End
  <2>4. CASE route' = [route EXCEPT ![b] = 0] /\ op' = [op EXCEPT !.at = "finalize"]
    <3>1. op'.at = "finalize" /\ op'.b = b
      BY <2>2, <2>4
    <3>2. route'[b] = 0
      BY <1>0, <2>4
    <3> QED
      BY <1>4, <3>1, <3>2
  <2> QED
    BY <1>2, <2>3, <2>4
<1>12. ASSUME NEW b \in Bindings, Reconcile(b) PROVE RouteGuarded'
  <2>1. PICK g \in grant[b] :
           \/ op' = [at |-> "remove", b |-> b, g |-> {g}]
           \/ UNCHANGED op
           \/ g.final /\ op' = [at |-> "policy", b |-> b, g |-> {g}] /\ UNCHANGED grant
    BY <1>12, Zenon DEF Reconcile, HasFinalizer
  <2>2. CASE op' = [at |-> "remove", b |-> b, g |-> {g}]
    BY <1>1, <2>2
  <2>3. CASE g.final /\ op' = [at |-> "policy", b |-> b, g |-> {g}] /\ UNCHANGED grant
    <3>1. op'.at \in Rendering /\ op'.b = b /\ op'.g = {g} /\ g \in Grant
      BY <1>0, <2>3
    <3> QED
      BY <1>3, <2>3, <3>1
  <2> QED
    BY <1>7, <2>1, <2>2, <2>3
<1>13. ASSUME Outdated \/ WriteRoute \/ RemoveFinalizer \/ OperatorFails PROVE op' = NoOp
  BY <1>13, Zenon DEF Outdated, WriteRoute, RemoveFinalizer, OperatorFails, End
<1>14. ASSUME \/ BusinessStep /\ UNCHANGED enforceVars
              \/ \E b \in Bindings : \/ Project(b) \/ Fail(b) \/ DeleteGrant(b) \/ Collect(b)
                                     \/ LoadConfig(b) \/ LoadBounds(b)
       PROVE  UNCHANGED op
  BY <1>14 DEF enforceVars, Project, Fail, DeleteGrant, Collect, LoadConfig, LoadBounds
<1> QED
  BY <1>2, <1>7, <1>9, <1>10, <1>11, <1>12, <1>13, <1>14, Zenon DEF EnforceNext

------------------------------------------------------------------------------
(* The theorems                                                            *)

\* A stuttering step.
LEMMA EnforceStutter ==
    ASSUME EnforceInductive, UNCHANGED allAccessVars
    PROVE  EnforceInductive'
<1>0. /\ UNCHANGED <<sourceVars, pubs>> /\ UNCHANGED <<binding, allowedAt, grant, lastUid>>
      /\ UNCHANGED <<bounds, config, route, op, serving>>
  BY DEF allAccessVars, accessVars, enforceVars, sourceVars
<1>1. SourceInductive'
  BY <1>0, SourceRests DEF EnforceInductive
<1>2. GrantsCovered'
  BY <1>0 DEF EnforceInductive, GrantsCovered, GrantCovered, Covered
<1>3. OpCovered'
  BY <1>0 DEF EnforceInductive, OpCovered, GrantCovered, Covered, NoOp
<1>4. ObjectsTyped' /\ RouteGuarded' /\ NoOrphanRoute'
  BY <1>0 DEF EnforceInductive, ObjectsTyped, RouteGuarded, NoOrphanRoute
<1>5. ObjectsCovered'
  BY <1>0 DEF EnforceInductive, ObjectsCovered, BoundsCovered, ConfigPublished, Covered
<1> QED
  BY <1>1, <1>2, <1>3, <1>4, <1>5 DEF EnforceInductive

\* The first state.
LEMMA EnforceStart ==
    ASSUME EnforceInit
    PROVE  EnforceInductive
<1>0. AccessInit /\ SourceInductive
  BY SourceStart DEF EnforceInit
<1>1. /\ grant = [b \in Bindings |-> {}] /\ lastUid = 0
      /\ bounds = [b \in Bindings |-> {}] /\ config = [b \in Bindings |-> {}]
      /\ route = [b \in Bindings |-> 0] /\ op = NoOp
  BY <1>0 DEF EnforceInit, AccessInit
<1>2. serving = [b \in Bindings |-> [config |-> {}, bounds |-> {}]]
  BY DEF EnforceInit
<1>3. GrantsCovered /\ OpCovered
  BY <1>1 DEF GrantsCovered, OpCovered
<1>4. serving \in [Bindings -> [config : SUBSET ConfigRow, bounds : SUBSET BoundsRow]]
      /\ \A b \in Bindings : serving[b].bounds = {}
  BY <1>2
<1>5. ObjectsTyped /\ ObjectsCovered
  BY <1>1, <1>4 DEF ObjectsTyped, ObjectsCovered
<1>6. op.at = "idle"
  BY <1>1 DEF NoOp
<1>7. RouteGuarded /\ NoOrphanRoute
  BY <1>1, <1>6 DEF RouteGuarded, NoOrphanRoute
<1> QED
  BY <1>0, <1>3, <1>5, <1>7 DEF EnforceInductive

\* EnforceInductive holds in every reachable state: every window that is rendered,
\* written or loaded is one the source covers, and a finalizer guards every route.
THEOREM EnforceSafe == EnforceSpec => []EnforceInductive
<1>1. EnforceInit => EnforceInductive
  BY EnforceStart
<1>2. EnforceInductive /\ [EnforceNext]_allAccessVars => EnforceInductive'
  <2>1. ASSUME EnforceInductive, EnforceNext PROVE EnforceInductive'
    <3>1. SourceInductive' /\ GrantsCovered' /\ OpCovered' /\ RouteGuarded' /\ NoOrphanRoute'
      BY <2>1, SourceLater, GrantsStep, OpStep, GuardStep, RouteStep
    <3>2. ObjectsTyped'
      BY <2>1, BoundsStep, ConfigStep, ServingStep, RouteStep DEF ObjectsTyped
    <3>3. ObjectsCovered'
      BY <2>1, BoundsStep, ConfigStep, ServingStep, RouteStep DEF ObjectsCovered
    <3> QED
      BY <3>1, <3>2, <3>3 DEF EnforceInductive
  <2> QED
    BY <2>1, EnforceStutter
<1> QED
  BY <1>1, <1>2, PTL DEF EnforceSpec

\* What the authorizer allows lies inside a window the source covers.
LEMMA AllowedCovered ==
    ASSUME EnforceInductive, NEW b \in Bindings, NEW m \in AccessModels, Allowed(b, m)
    PROVE  now - allowedAt[b][m] < Fresh /\ binding[b].until > now
<1>1. PICK c \in serving[b].config, n \in serving[b].bounds :
         m \in c.hash.models /\ n.hash = c.hash /\ n.issued <= now /\ n.until > now
  BY DEF Allowed, BoundsAllow
<1>2. BoundsCovered(b, n) /\ m \in n.hash.models
  BY <1>1 DEF EnforceInductive, ObjectsCovered
<1>3. n.until <= binding[b].until /\ n.until <= n.issued + Fresh /\ n.issued <= allowedAt[b][m]
  BY <1>2 DEF BoundsCovered, Covered
<1>4. n.issued \in Nat /\ n.until \in Nat
  BY DEF EnforceInductive, ObjectsTyped, BoundsRow
<1>5. now \in Nat /\ binding[b].until \in Nat /\ allowedAt[b][m] \in Nat /\ Fresh \in Nat
  BY Constants DEF EnforceInductive, SourceInductive, SourceTyped
<1> QED
  BY <1>1, <1>3, <1>4, <1>5

\* A request is allowed only for a model the source allowed this binding less than
\* the freshness ago: a revocation takes effect within Fresh seconds, though every
\* capture, delivery, reconcile and load after it may fail or stand still.
THEOREM RevocationTakesEffect == EnforceSpec => []AccessIsRecent
<1>1. EnforceInductive => AccessIsRecent
  BY AllowedCovered DEF AccessIsRecent
<1> QED
  BY <1>1, EnforceSafe, PTL

\* Access ends with the session or verification it was given for.
THEOREM AccessEndsInTime == EnforceSpec => []ExpiryEndsAccess
<1>1. EnforceInductive => ExpiryEndsAccess
  BY AllowedCovered DEF ExpiryEndsAccess
<1> QED
  BY <1>1, EnforceSafe, PTL

\* Types; access is recent and ends with its deadline; no route outlives the grant
\* whose finalizer removes it.
THEOREM EnforceCorrect == EnforceSpec => []EnforceInvariant
<1>1. ASSUME EnforceInductive PROVE EnforceInvariant
  <2>1. ASSUME NEW S, \A c \in S : S = {c} PROVE Cardinality(S) <= 1
    <3>1. CASE S = {}
      BY <3>1, FS_EmptySet
    <3>2. CASE S # {}
      <4>1. PICK c \in S : S = {c}
        BY <2>1, <3>2
      <4>2. Cardinality({c}) = 1
        BY FS_Singleton
      <4> QED
        BY <4>1, <4>2
    <3> QED
      BY <3>1, <3>2
  <2>2. \A b \in Bindings : DOMAIN pubs[b] = 1 .. Len(pubs[b])
    BY <1>1 DEF EnforceInductive, SourceInductive, PubsTyped
  <2>3. ASSUME NEW b \in Bindings
        PROVE  /\ Cardinality(bounds[b]) <= 1 /\ Cardinality(config[b]) <= 1
               /\ \A c \in bounds[b] : c.seq \in DOMAIN pubs[b] /\ c.issued < c.until
               /\ \A c \in config[b] : c.seq \in DOMAIN pubs[b] /\ c.uid \in 1 .. lastUid
    <3>1. /\ \A c \in bounds[b] : bounds[b] = {c} /\ BoundsCovered(b, c)
          /\ \A c \in config[b] : config[b] = {c} /\ ConfigPublished(b, c)
      BY <1>1 DEF EnforceInductive, ObjectsCovered
    <3>2. Cardinality(bounds[b]) <= 1 /\ Cardinality(config[b]) <= 1
      BY <2>1, <3>1
    <3> QED
      BY <2>2, <3>1, <3>2, Zenon DEF BoundsCovered, ConfigPublished
  <2>4. route \in [Bindings -> 0 .. lastUid]
    BY <1>1 DEF EnforceInductive, ObjectsTyped, ObjectsCovered, GrantsCovered
  <2>5. op.b \in Bindings \cup {NoOne}
    BY <1>1 DEF EnforceInductive, OpCovered, NoOp
  <2>6. EnforceTypeOK
    BY <2>3, <2>4, <2>5 DEF EnforceTypeOK
  <2>7. AccessIsRecent /\ ExpiryEndsAccess
    BY <1>1, AllowedCovered DEF AccessIsRecent, ExpiryEndsAccess
  <2> QED
    BY <1>1, <2>6, <2>7 DEF EnforceInductive, EnforceInvariant
<1> QED
  BY <1>1, EnforceSafe, PTL
==============================================================================
