----------------------------- MODULE ModelAccess -----------------------------
(***************************************************************************)
(* The access ledger of one subject: business changes signal the subject,  *)
(* the relay captures what its sessions and workloads may use into         *)
(* publications with a deadline, and projects the latest publication of    *)
(* each binding into a ModelAccessGrant of the cluster.                    *)
(*                                                                         *)
(* Time is counted in seconds.  Business changes and captures hold the     *)
(* same advisory lock, so each is one step.  A publication is what the     *)
(* canonical snapshot hashes (disabled, retired, models) with its window.  *)
(***************************************************************************)
EXTENDS Integers, Sequences, FiniteSets

CONSTANTS Sessions, Workloads, AccessModels, Relays,
          Fresh,        \* freshness of a publication
          Life,         \* lifetime of session tokens and of verifications
          ClaimLease,   \* seconds a claimed delivery is leased
          GrantTimes,   \* expiry times of model assignments
          MaxNow, MaxChanges, MaxHiccups

ASSUME AccessAssumption ==
    /\ Fresh \in Nat \ {0, 1}
    /\ Life \in Nat /\ ClaimLease \in Nat /\ MaxNow \in Nat
    /\ GrantTimes \subseteq Nat
    /\ Sessions \cap Workloads = {}
    /\ "no one" \notin Relays

VARIABLES now,
          subject,     \* [disabled, models]: expiry of every assigned model, 0 without
          binding,     \* per binding: [state, until], state none, live or gone
          change,      \* model_access_changes: [pending, next, count]: version is
                       \* above acknowledged_version; next_capture_at, 0 without
          pubs,        \* per binding: its publications, in order of sequence
          relay,       \* per relay worker: [at, b, seq, rv, phase]
          grant,       \* per binding: the set of its at most one ModelAccessGrant
          lastUid,     \* source of UIDs of grants
          allowedAt,   \* auxiliary: when the source last allowed binding and model
          hiccups      \* counter of faults

accessVars == <<now, subject, binding, change, pubs, relay, grant, lastUid,
                allowedAt, hiccups>>

Bindings == Sessions \cup Workloads
NoOne == "no one"
IdleRelay == [at |-> "idle", b |-> NoOne, seq |-> 0, rv |-> 0, phase |-> ""]
Latest(b) == pubs[b][Len(pubs[b])]
Open(p) == p.phase \in {"queued", "projecting"}

------------------------------------------------------------------------------
(* The source (modelAccessSourceSQL)                                       *)

Verified(bs, b) == bs[b].state = "live" /\ bs[b].until > now
Models(s) == {m \in AccessModels : s.models[m] > now}

(* What the source allows now; allowedAt is kept up to date by every step. *)
MayUse(s, bs, b, m) == ~s.disabled /\ Verified(bs, b) /\ m \in Models(s)

Observe(s, bs) ==
    allowedAt' = [b \in Bindings |-> [m \in AccessModels |->
                    IF MayUse(s, bs, b, m) THEN now ELSE allowedAt[b][m]]]

AccessInit ==
    /\ now = 1
    /\ \/ /\ subject = [disabled |-> FALSE, models |-> [m \in AccessModels |-> 0]]
          /\ binding = [b \in Bindings |-> [state |-> "none", until |-> 0]]
       \/ \E a \in Bindings :
          /\ subject = [disabled |-> FALSE, models |-> [m \in AccessModels |-> MaxNow + 1]]
          /\ binding = [b \in Bindings |-> IF b = a THEN [state |-> "live", until |-> now + Life]
                                           ELSE [state |-> "none", until |-> 0]]
    /\ change = [pending |-> TRUE, next |-> 0, count |-> 0]
    /\ pubs = [b \in Bindings |-> <<>>]
    /\ relay = [w \in Relays |-> IdleRelay]
    /\ grant = [b \in Bindings |-> {}]
    /\ lastUid = 0
    /\ allowedAt = [b \in Bindings |-> [m \in AccessModels |->
                      IF MayUse(subject, binding, b, m) THEN now ELSE 0]]
    /\ hiccups = 0

relayVars == <<relay, grant, lastUid, hiccups>>

(* A business change; the triggers queue the subject in its transaction.   *)
Signal(c) == [c EXCEPT !.pending = TRUE, !.count = @ + 1]

Changes ==
    /\ change.count < MaxChanges
    /\ change' = Signal(change)
    /\ Observe(subject', binding')
    /\ UNCHANGED <<now, pubs, relayVars>>

SetDisabled ==
    /\ subject' = [subject EXCEPT !.disabled = ~@]
    /\ UNCHANGED binding
    /\ Changes

AssignModel(m, e) ==
    /\ e # subject.models[m] /\ (e = 0 \/ e > now)
    /\ subject' = [subject EXCEPT !.models[m] = e]
    /\ UNCHANGED binding
    /\ Changes

OpenSession(b) ==
    /\ binding[b].state = "none"
    /\ binding' = [binding EXCEPT ![b] = [state |-> "live", until |-> now + Life]]
    /\ UNCHANGED subject
    /\ Changes

CloseSession(b) ==
    /\ binding[b].state = "live"
    /\ binding' = [binding EXCEPT ![b].state = "gone"]
    /\ UNCHANGED subject
    /\ Changes

(* RegisterModelAccessWorkload of another identity retires the current one *)
(* and RetireModelAccessWorkload without a successor.                      *)
RegisterWorkload(b) ==
    /\ binding[b].state = "none"
    /\ binding' = [c \in Bindings |->
                     IF c = b THEN [state |-> "live", until |-> now + Life]
                     ELSE IF c \in Workloads /\ binding[c].state = "live"
                          THEN [binding[c] EXCEPT !.state = "gone"] ELSE binding[c]]
    /\ UNCHANGED subject
    /\ Changes

(* A rotated token and the renewal of a verification that is still running *)
(* are no policy changes: nothing is queued.  A verification that had run  *)
(* out is.                                                                 *)
Renew(b) ==
    /\ binding[b].state = "live" /\ binding[b].until > now
    /\ binding' = [binding EXCEPT ![b].until = now + Life]
    /\ Observe(subject, binding')
    /\ UNCHANGED <<now, subject, change, pubs, relayVars>>

Reverify(b) ==
    /\ b \in Workloads /\ binding[b].state = "live" /\ binding[b].until <= now
    /\ binding' = [binding EXCEPT ![b].until = now + Life]
    /\ UNCHANGED subject
    /\ Changes

Tick ==
    /\ now < MaxNow
    /\ now' = now + 1
    /\ allowedAt' = [b \in Bindings |-> [m \in AccessModels |->
                       IF /\ ~subject.disabled /\ binding[b].state = "live"
                          /\ binding[b].until > now + 1 /\ subject.models[m] > now + 1
                       THEN now + 1 ELSE allowedAt[b][m]]]
    /\ UNCHANGED <<subject, binding, change, pubs, relayVars>>

------------------------------------------------------------------------------
(* Capture                                                                 *)

Minimum(S) == CHOOSE x \in S : \A y \in S : x <= y

(* A session counts while it is live, a workload until it is retired.      *)
Current(b) == IF b \in Sessions THEN Verified(binding, b) ELSE binding[b].state = "live"

(* Mutant: a disabled account is not looked at.                            *)
DisabledIgnored(b) == ~Verified(binding, b)

Off(b) == subject.disabled \/ ~Verified(binding, b)

(* modelAccessSnapshot, and the tombstone of a binding that has ended.     *)
Snapshot(b) ==
    IF ~Current(b) THEN [disabled |-> TRUE, retired |-> TRUE, models |-> {}]
    ELSE IF Off(b) THEN [disabled |-> TRUE, retired |-> FALSE, models |-> {}]
    ELSE [disabled |-> FALSE, retired |-> FALSE, models |-> Models(subject)]

(* modelAccessDeadline                                                     *)
Deadline(b) ==
    IF ~Current(b) \/ Off(b) THEN now + Fresh
    ELSE Minimum({now + Fresh, binding[b].until}
                   \cup {subject.models[m] : m \in Models(subject)})

(* canonicalAccessIntents: an unchanged policy keeps its window unless it  *)
(* is to be renewed, or must end earlier.                                  *)
KeepsWindow(b, due) ==
    /\ pubs[b] # <<>>
    /\ Latest(b).hash = Snapshot(b)
    /\ Latest(b).until > now /\ Latest(b).until <= Deadline(b)
    /\ ~due \/ Snapshot(b).models = {}

Intent(b, due) ==
    [hash |-> Snapshot(b),
     issued |-> IF KeepsWindow(b, due) THEN Latest(b).issued ELSE now,
     until |-> IF KeepsWindow(b, due) THEN Latest(b).until ELSE Deadline(b),
     phase |-> "queued", claim |-> NoOne, lease |-> 0]

(* Bindings that get an intent: those with a stream and the current ones.  *)
Captured == {b \in Bindings : pubs[b] # <<>> \/ Current(b)}

(* A retired binding that is live again stops the capture of the subject.  *)
Refused == \E b \in Bindings : Current(b) /\ pubs[b] # <<>> /\ Latest(b).hash.retired

(* QueueModelAccessPublication: the same content and deadline is no new    *)
(* publication unless the last one failed; a new one supersedes the open.  *)
Queue(s, p) ==
    IF s # <<>> /\ s[Len(s)].hash = p.hash /\ s[Len(s)].until = p.until
         /\ s[Len(s)].phase # "failed"
    THEN s
    ELSE Append([i \in DOMAIN s |-> IF Open(s[i]) THEN
                   [s[i] EXCEPT !.phase = "superseded", !.claim = NoOne, !.lease = 0] ELSE s[i]], p)

(* When a publication that allows something is to be captured again.       *)
RenewAt(b, p) ==
    IF b \in Workloads
    THEN {IF p.until - now >= 2 THEN now + (p.until - now) \div 2 ELSE p.until}
    ELSE {IF p.until = p.issued + Fresh THEN p.issued + Fresh \div 2 ELSE p.until}

NextCapture(ps) ==
    LET times == UNION {RenewAt(b, ps[b][Len(ps[b])]) :
                          b \in {c \in Captured : ps[c][Len(ps[c])].hash.models # {}}}
    IN IF times = {} THEN 0 ELSE Minimum(times)

(* captureModelAccess                                                      *)
Capture ==
    LET due == change.next # 0 /\ change.next <= now IN
    /\ change.pending \/ due
    /\ ~Refused
    /\ pubs' = [b \in Bindings |->
                  IF b \in Captured THEN Queue(pubs[b], Intent(b, due)) ELSE pubs[b]]
    /\ change' = [change EXCEPT !.pending = FALSE, !.next = NextCapture(pubs')]
    /\ UNCHANGED <<now, subject, binding, relayVars, allowedAt>>

------------------------------------------------------------------------------
(* Delivery                                                                *)

sourceVars == <<now, subject, binding, change, allowedAt>>
Item(w) == pubs[relay[w].b][relay[w].seq]

(* ClaimModelAccessPublication: the latest publication of a binding, when  *)
(* it is due; one whose window has passed fails.                           *)
Claim(w, b) ==
    /\ relay[w].at = "idle" /\ pubs[b] # <<>> /\ Open(Latest(b))
    /\ Latest(b).claim = NoOne \/ Latest(b).lease <= now
    /\ LET n == Len(pubs[b]) IN
       IF Latest(b).until <= now
       THEN /\ pubs' = [pubs EXCEPT ![b][n] = [@ EXCEPT !.phase = "failed", !.claim = NoOne]]
            /\ UNCHANGED relay
       ELSE /\ pubs' = [pubs EXCEPT ![b][n] = [@ EXCEPT !.phase = "projecting",
                           !.claim = w, !.lease = now + ClaimLease]]
            /\ relay' = [relay EXCEPT ![w] = [IdleRelay EXCEPT !.at = "read", !.b = b, !.seq = n]]
    /\ UNCHANGED <<sourceVars, grant, lastUid, hiccups>>

(* CheckModelAccessDelivery                                                *)
StillOwned(w) ==
    /\ relay[w].seq = Len(pubs[relay[w].b])
    /\ Item(w).phase = "projecting" /\ Item(w).claim = w
    /\ Item(w).lease > now /\ Item(w).until > now

(* The check before a projection is taken with the claim, where it holds;  *)
(* made later, it may find the claim lost.  The check after it finds what  *)
(* Finish finds and is taken with it.                                      *)
ClaimLost(w) ==
    /\ relay[w].at = "read" /\ ~StillOwned(w)
    /\ relay' = [relay EXCEPT ![w] = IdleRelay]
    /\ UNCHANGED <<sourceVars, pubs, grant, lastUid, hiccups>>

(* desiredAccess: publication n of a binding as the spec of a grant.       *)
DesiredAccess(b, n) ==
    [seq |-> n, disabled |-> pubs[b][n].hash.disabled, models |-> pubs[b][n].hash.models,
     issued |-> pubs[b][n].issued, until |-> pubs[b][n].until]

(* checkAccess: a newer publication, or a grant that is being deleted.     *)
Taken(w, g) == g.deleting \/ g.spec.seq > relay[w].seq

(* ProjectAccess reads the grant and checks its markers.                   *)
ReadGrant(w) ==
    LET live == grant[relay[w].b] IN
    /\ relay[w].at = "read"
    /\ \/ /\ \E g \in live : Taken(w, g)
          /\ relay' = [relay EXCEPT ![w].at = "finish", ![w].phase = "failed"]
       \/ \E g \in live :
             /\ ~Taken(w, g)
             /\ relay' = [relay EXCEPT ![w].at = "write", ![w].rv = g.rv]
       \/ /\ live = {}
          /\ relay' = [relay EXCEPT ![w].at = "write", ![w].rv = 0]
    /\ UNCHANGED <<sourceVars, pubs, grant, lastUid, hiccups>>

(* Mutant: the update is sent without the version that was read.           *)
AnyVersion(w, g) == TRUE

SameVersion(w, g) == g.rv = relay[w].rv

PutGrant(b, n) ==
    /\ grant' = [grant EXCEPT ![b] =
         IF @ = {} THEN {[uid |-> lastUid + 1, rv |-> 1, spec |-> DesiredAccess(b, n),
                          deleting |-> FALSE, final |-> FALSE]}
         ELSE {IF g.spec = DesiredAccess(b, n) THEN g
               ELSE [g EXCEPT !.spec = DesiredAccess(b, n), !.rv = @ + 1] : g \in @}]
    /\ lastUid' = IF grant[b] = {} THEN lastUid + 1 ELSE lastUid

(* Mutant: a conflict counts as done.                                      *)
ConflictIsDone(w) ==
    /\ relay[w].at = "write"
    /\ IF \/ relay[w].rv = 0 /\ grant[relay[w].b] # {}
          \/ relay[w].rv # 0 /\ ~\E g \in grant[relay[w].b] : SameVersion(w, g)
       THEN UNCHANGED <<grant, lastUid>> ELSE PutGrant(relay[w].b, relay[w].seq)
    /\ relay' = [relay EXCEPT ![w].at = "finish", ![w].phase = "projected"]
    /\ UNCHANGED <<sourceVars, pubs, hiccups>>

(* Create or Update; a conflict is retried later.                          *)
WriteGrant(w) ==
    LET b == relay[w].b
        conflict == IF relay[w].rv = 0 THEN grant[b] # {}
                    ELSE ~\E g \in grant[b] : SameVersion(w, g)
    IN
    /\ relay[w].at = "write"
    /\ IF conflict THEN UNCHANGED <<grant, lastUid>> ELSE PutGrant(b, relay[w].seq)
    /\ relay' = [relay EXCEPT ![w] =
                   IF conflict THEN [@ EXCEPT !.at = "finish"] ELSE [@ EXCEPT !.at = "confirm"]]
    /\ UNCHANGED <<sourceVars, pubs, hiccups>>

ConfirmGrant(w) ==
    /\ relay[w].at = "confirm"
    /\ relay' = [relay EXCEPT ![w] =
                   IF \E g \in grant[@.b] : ~g.deleting /\ g.spec = DesiredAccess(@.b, @.seq)
                   THEN [@ EXCEPT !.at = "finish", !.phase = "projected"]
                   ELSE IF grant[@.b] = {} THEN [@ EXCEPT !.at = "finish"]
                   ELSE [@ EXCEPT !.at = "finish", !.phase = "failed"]]
    /\ UNCHANGED <<sourceVars, pubs, grant, lastUid, hiccups>>

(* FinishModelAccessPublication                                            *)
Finish(w) ==
    LET b == relay[w].b
        phase == IF relay[w].phase = "" THEN "queued" ELSE relay[w].phase
    IN
    /\ relay[w].at = "finish"
    /\ relay' = [relay EXCEPT ![w] = IdleRelay]
    /\ pubs' = IF StillOwned(w)
               THEN [pubs EXCEPT ![b][relay[w].seq] =
                       [@ EXCEPT !.phase = phase, !.claim = NoOne, !.lease = 0]]
               ELSE pubs
    /\ UNCHANGED <<sourceVars, grant, lastUid, hiccups>>

(* A call fails and the delivery is retried, or the worker is lost.        *)
Hiccup(w) ==
    /\ relay[w].at # "idle" /\ hiccups < MaxHiccups
    /\ hiccups' = hiccups + 1
    /\ \/ relay' = [relay EXCEPT ![w] = [@ EXCEPT !.at = "finish", !.phase = ""]]
       \/ relay' = [relay EXCEPT ![w] = IdleRelay]
    /\ UNCHANGED <<sourceVars, pubs, grant, lastUid>>

BusinessStep ==
    \/ SetDisabled \/ Tick \/ Capture
    \/ \E m \in AccessModels, e \in GrantTimes : AssignModel(m, e)
    \/ \E b \in Sessions : OpenSession(b) \/ CloseSession(b)
    \/ \E b \in Workloads : RegisterWorkload(b) \/ CloseSession(b) \/ Reverify(b)
    \/ \E b \in Bindings : Renew(b)

AccessNext ==
    \/ BusinessStep
    \/ \E w \in Relays : \/ \E b \in Bindings : Claim(w, b)
                         \/ ClaimLost(w) \/ ReadGrant(w) \/ WriteGrant(w)
                         \/ ConfirmGrant(w) \/ Finish(w) \/ Hiccup(w)

AccessSpec == AccessInit /\ [][AccessNext]_accessVars

------------------------------------------------------------------------------
(* What the relay promises to those who read grants: it writes one of the  *)
(* publications of the binding, never one older than the grant carries,    *)
(* and never into a grant that is being deleted.                           *)
Projects(b, n) ==
    /\ n \in DOMAIN pubs[b]
    /\ \A g \in grant[b] : ~g.deleting /\ g.spec.seq <= n
    /\ PutGrant(b, n)

(* GrantsMoveForward: the relays keep that promise, whatever claims expire *)
(* or are lost between reading a grant and writing it.                     *)
GrantsMoveForward ==
    [][relay' # relay /\ grant' # grant =>
           \E b \in Bindings : \E n \in DOMAIN pubs[b] : Projects(b, n)]_accessVars

------------------------------------------------------------------------------
(* AccessTypeOK: the types; a publication is claimed exactly while it is   *)
(* projected, and its window is not empty and within the freshness.        *)
AccessTypeOK ==
    /\ subject \in [disabled : BOOLEAN, models : [AccessModels -> Nat]]
    /\ binding \in [Bindings -> [state : {"none", "live", "gone"}, until : Nat]]
    /\ change.pending \in BOOLEAN /\ change.next \in Nat
    /\ \A b \in Bindings : \A i \in DOMAIN pubs[b] :
          /\ pubs[b][i].phase \in {"queued", "projecting", "projected", "failed", "superseded"}
          /\ (pubs[b][i].phase = "projecting") = (pubs[b][i].claim # NoOne)
          /\ pubs[b][i].issued < pubs[b][i].until
          /\ pubs[b][i].until <= pubs[b][i].issued + Fresh
    /\ \A b \in Bindings : Cardinality(grant[b]) <= 1

(* OnlyLatestIsOpen: at most the latest publication of a binding is still  *)
(* to be delivered, so a stale relay cannot finish or revive an older one. *)
OnlyLatestIsOpen ==
    \A b \in Bindings : \A i \in DOMAIN pubs[b] : Open(pubs[b][i]) => i = Len(pubs[b])

(* ProjectedIsOnCluster: a latest publication recorded as projected is the *)
(* one the grant of its binding carries, whatever other relays with lost   *)
(* leases were doing meanwhile.                                            *)
ProjectedIsOnCluster ==
    \A b \in Bindings :
        pubs[b] # <<>> /\ Latest(b).phase = "projected" =>
            \A g \in grant[b] : g.spec.seq = Len(pubs[b]) /\ g.spec.models = Latest(b).hash.models

(* Scheduled: a captured policy that allows a model has its renewal or its *)
(* end on the schedule no later than it expires: access does not lapse     *)
(* because nobody looks again.                                             *)
Scheduled ==
    ~change.pending =>
        \A b \in Bindings :
            pubs[b] # <<>> /\ Latest(b).hash.models # {} /\ Latest(b).until > now =>
                change.next # 0 /\ change.next <= Latest(b).until

\* The types; only the latest publication of a binding is open; projected means
\* on the cluster; every open access is on the schedule.
AccessInvariant ==
    /\ AccessTypeOK
    /\ OnlyLatestIsOpen
    /\ ProjectedIsOnCluster
    /\ Scheduled
==============================================================================
