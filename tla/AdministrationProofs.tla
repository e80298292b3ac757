------------------------ MODULE AdministrationProofs ------------------------
(***************************************************************************)
(* Proofs about the control service part by part, for all values of the    *)
(* constants: control events and their deliveries, login attempts and the  *)
(* calculations of the login policy, the audit trail, the health of models *)
(* and the grants of roles and teams.                                      *)
(***************************************************************************)
EXTENDS MCAdministration, FiniteSetTheorems, WellFoundedInduction, TLAPS

------------------------------------------------------------------------------
(* The inductive invariant                                                 *)

EventRow ==
    [state : EventStates, audience : SUBSET Recipients,
     key : SupersedeKeys \cup {"none"}, expired : BOOLEAN]

SessionRow == [state : {"none", "open", "revoked"}, user : Recipients \cup {"none"}]

Tx ==
    [step : {"none", "waiting", "superseded", "fanned"}, row : EventRow,
     old : SUBSET Events, dropped : SUBSET Pairs, targets : SUBSET EventSessions]

LoginTx ==
    [step : {"none", "fanned"}, user : Recipients \cup {"none"}, chosen : SUBSET Events]

EventsTyped ==
    /\ events \in [Events -> EventRow]
    /\ sessionRows \in [EventSessions -> SessionRow]
    /\ delivery \in [Pairs -> DeliveryStates]
    /\ creating \in [Events -> Tx]
    /\ login \in [EventSessions -> LoginTx]
    /\ cancelling \subseteq Events
    /\ crossed \subseteq Pairs

\* What a transaction holds of other rows exists, and its own row does not yet.
RowsExist ==
    /\ \A e \in Events, s \in EventSessions : delivery[<<e, s>>] # "none" =>
          events[e].state # "none" /\ sessionRows[s].state # "none"
    /\ \A e \in Events :
          /\ creating[e].step # "none" =>
                events[e].state = "none" /\ creating[e].row.state = "active"
          /\ e \notin creating[e].old
          /\ \A x \in creating[e].old : events[x].state # "none"
          /\ \A s \in creating[e].targets : sessionRows[s].state # "none"
    /\ \A s \in EventSessions :
          /\ login[s].step # "none" => sessionRows[s].state = "none"
          /\ \A e \in login[s].chosen : events[e].state # "none"

Holds(e) == creating[e].step \in {"superseded", "fanned"}

\* Row locks: an event is superseded by one transaction at a time, and what that
\* transaction will withdraw stays pending until it ends.
EventLocksHeld ==
    /\ \A e, f \in Events : e # f /\ Holds(e) /\ Holds(f) =>
          creating[e].old \cap creating[f].old = {}
    /\ \A e \in Events : Holds(e) =>
          \A p \in creating[e].dropped : p[1] \in creating[e].old /\ delivery[p] = "pending"

\* A login that has read the events and is not committed is recorded as crossing
\* every creation under way and all the events those supersede.
LoginsCross ==
    \A s \in EventSessions, e \in Events : login[s].step = "fanned" =>
        /\ creating[e].step # "none" => <<e, s>> \in crossed
        /\ \A x \in creating[e].old : <<x, s>> \in crossed

\* Without a crossing, either fan-out has found what the other side committed.
FanOutsFind ==
    \A e \in Events, s \in EventSessions : <<e, s>> \notin crossed =>
        /\ (creating[e].step = "fanned" /\ sessionRows[s].state = "open"
              /\ sessionRows[s].user \in creating[e].row.audience)
           => s \in creating[e].targets
        /\ (login[s].step = "fanned" /\ Active(e) /\ login[s].user \in events[e].audience)
           => e \in login[s].chosen

\* Without a crossing, a withdrawal knows all pending deliveries, and a login has
\* chosen no event that is withdrawn by now.
WithdrawalsFind ==
    \A x \in Events, s \in EventSessions : <<x, s>> \notin crossed =>
        /\ \A e \in Events : x \in creating[e].old /\ delivery[<<x, s>>] = "pending"
              => <<x, s>> \in creating[e].dropped
        /\ login[s].step = "fanned" /\ x \in login[s].chosen => events[x].state = "active"

EventInductive ==
    /\ EventsTyped
    /\ RowsExist
    /\ EventLocksHeld
    /\ LoginsCross
    /\ FanOutsFind
    /\ WithdrawalsFind
    /\ FanOutMeets
    /\ WithdrawnNotPending

------------------------------------------------------------------------------
(* Transactions that begin, move on and end                                *)

LEMMA PairOf ==
    /\ \A e \in Events, s \in EventSessions : <<e, s>> \in Pairs
    /\ \A p \in Pairs : p[1] \in Events /\ p[2] \in EventSessions /\ p = <<p[1], p[2]>>
  BY DEF Pairs

LEMMA NoTxFields ==
    /\ NoTx \in Tx /\ NoTx.step = "none" /\ NoTx.old = {} /\ NoTx.dropped = {}
    /\ NoTx.targets = {}
<1>1. NoEvent \in EventRow
  BY DEF NoEvent, EventRow, EventStates
<1> DEFINE row == NoEvent
<1> HIDE DEF row
<1>2. NoTx = [step |-> "none", row |-> row, old |-> {}, dropped |-> {}, targets |-> {}]
  BY DEF NoTx, row
<1>3. row \in EventRow
  BY <1>1 DEF row
<1> QED
  BY <1>2, <1>3 DEF Tx

LEMMA NoLoginFields ==
    NoLogin \in LoginTx /\ NoLogin.step = "none" /\ NoLogin.chosen = {}
  BY DEF NoLogin, LoginTx

\* A step of the transaction that creates e, which leaves the other rows alone.
CreationMoves(e, tx) ==
    /\ tx \in Tx
    /\ creating' = [creating EXCEPT ![e] = tx]
    /\ UNCHANGED <<events, sessionRows, delivery, login, cancelling>>

LEMMA InsertEffect ==
    ASSUME EventsTyped, NEW e \in Events, NEW a \in Audiences,
           NEW k \in SupersedeKeys \cup {"none"}, CreateInsert(e, a, k)
    PROVE  \E tx \in Tx :
              /\ CreationMoves(e, tx)
              /\ tx.step = "waiting" /\ tx.row.state = "active" /\ tx.targets = {}
              /\ \A x \in tx.old : events[x].state = "active"
              /\ tx.dropped = {p \in tx.old \X EventSessions : delivery[p] = "pending"}
              /\ crossed' = crossed \cup ((tx.old \cup {e}) \X Entering)
              /\ events[e].state = "none"
<1> DEFINE old == IF k = "none" THEN {}
                  ELSE {x \in Events : events[x].state = "active" /\ events[x].key = k}
           dropped == {p \in old \X EventSessions : delivery[p] = "pending"}
           row == [state |-> "active", audience |-> a, key |-> k, expired |-> FALSE]
           tx == [step |-> "waiting", old |-> old, targets |-> {}, dropped |-> dropped, row |-> row]
<1>1. /\ creating' = [creating EXCEPT ![e] = tx]
      /\ crossed' = crossed \cup ((old \cup {e}) \X Entering)
      /\ UNCHANGED <<events, sessionRows, delivery, login, cancelling>>
      /\ events[e] = NoEvent
  BY DEF CreateInsert
<1>2. old \in SUBSET Events /\ \A x \in old : events[x].state = "active"
  OBVIOUS
<1>3. dropped \in SUBSET Pairs
  BY <1>2 DEF Pairs
<1>4. row.state = "active"
  OBVIOUS
<1>5. row \in EventRow
  <2>1. a \in SUBSET Recipients
    BY EventsAssumption
  <2> QED
    BY <2>1 DEF EventRow, EventStates
<1> HIDE DEF row, old, dropped
<1>6. /\ tx \in Tx /\ tx.step = "waiting" /\ tx.row = row /\ tx.targets = {} /\ tx.old = old
      /\ tx.dropped = dropped
  BY <1>2, <1>3, <1>5 DEF Tx
<1> HIDE DEF tx
<1>7. events[e].state = "none"
  BY <1>1 DEF NoEvent
<1>8. CreationMoves(e, tx)
  BY <1>1, <1>6 DEF CreationMoves
<1>9. /\ \A x \in tx.old : events[x].state = "active"
      /\ tx.dropped = {p \in tx.old \X EventSessions : delivery[p] = "pending"}
      /\ crossed' = crossed \cup ((tx.old \cup {e}) \X Entering)
  BY <1>1, <1>2, <1>6 DEF dropped
<1> QED
  BY <1>4, <1>6, <1>7, <1>8, <1>9

LEMMA SupersedeEffect ==
    ASSUME EventsTyped, NEW e \in Events, CreateSupersede(e)
    PROVE  \E tx \in Tx :
              /\ CreationMoves(e, tx) /\ UNCHANGED crossed
              /\ creating[e].step = "waiting" /\ tx.step = "superseded"
              /\ tx.row = creating[e].row /\ tx.targets = creating[e].targets
              /\ tx.old = {x \in creating[e].old : events[x].state = "active"}
              /\ tx.dropped = {p \in creating[e].dropped : p[1] \in tx.old /\ delivery[p] = "pending"}
              /\ \A x \in creating[e].old : \A f \in Events : Holds(f) => x \notin creating[f].old
<1> DEFINE c == creating[e]
           old == {x \in c.old : events[x].state = "active"}
           dropped == {p \in c.dropped : p[1] \in old /\ delivery[p] = "pending"}
           t1 == [c EXCEPT !.step = "superseded"]
           t2 == [t1 EXCEPT !.old = old]
           tx == [t2 EXCEPT !.dropped = dropped]
<1>0. c \in Tx
  BY DEF EventsTyped
<1>1. /\ creating' = [creating EXCEPT ![e].step = "superseded", ![e].old = old,
                        ![e].dropped = dropped]
      /\ UNCHANGED <<events, sessionRows, delivery, login, cancelling, crossed>>
      /\ c.step = "waiting"
  BY DEF CreateSupersede
<1>2. creating' = [creating EXCEPT ![e] = tx]
  BY <1>1 DEF EventsTyped
<1>3. old \in SUBSET Events /\ dropped \in SUBSET Pairs
  BY <1>0 DEF Tx
<1> HIDE DEF old, dropped
<1>4. t1 \in Tx /\ t1.step = "superseded" /\ t1.row = c.row /\ t1.targets = c.targets
  BY <1>0 DEF Tx
<1> HIDE DEF t1
<1>5. t2 \in Tx /\ t2.step = "superseded" /\ t2.row = c.row /\ t2.targets = c.targets /\ t2.old = old
  BY <1>3, <1>4 DEF Tx
<1> HIDE DEF t2
<1>6. /\ tx \in Tx /\ tx.step = "superseded" /\ tx.row = c.row /\ tx.targets = c.targets
      /\ tx.old = old /\ tx.dropped = dropped
  BY <1>3, <1>5 DEF Tx
<1> HIDE DEF tx
<1>7. CreationMoves(e, tx)
  BY <1>1, <1>2, <1>6 DEF CreationMoves
<1>8. \A x \in creating[e].old : \A f \in Events : Holds(f) => x \notin creating[f].old
  BY DEF CreateSupersede, LockedEvent, Holds
<1> QED
  BY <1>1, <1>6, <1>7, <1>8 DEF old, dropped

LEMMA FanOutEffect ==
    ASSUME EventsTyped, NEW e \in Events, CreateFanOut(e)
    PROVE  \E tx \in Tx :
              /\ CreationMoves(e, tx) /\ UNCHANGED crossed
              /\ creating[e].step = "superseded" /\ tx.step = "fanned"
              /\ tx.row = creating[e].row /\ tx.targets = FanOutTargets(tx.row.audience)
              /\ tx.old = creating[e].old /\ tx.dropped = creating[e].dropped
<1> DEFINE c == creating[e]
           T == FanOutTargets(c.row.audience)
           t1 == [c EXCEPT !.step = "fanned"]
           tx == [t1 EXCEPT !.targets = T]
<1>0. c \in Tx
  BY DEF EventsTyped
<1>1. /\ creating' = [creating EXCEPT ![e].step = "fanned", ![e].targets = T]
      /\ UNCHANGED <<events, sessionRows, delivery, login, cancelling, crossed>>
      /\ c.step = "superseded"
  BY DEF CreateFanOut
<1>2. creating' = [creating EXCEPT ![e] = tx]
  BY <1>1 DEF EventsTyped
<1>3. T \in SUBSET EventSessions
  BY DEF FanOutTargets
<1> HIDE DEF T
<1>4. /\ t1 \in Tx /\ t1.step = "fanned" /\ t1.row = c.row /\ t1.old = c.old
      /\ t1.dropped = c.dropped
  BY <1>0 DEF Tx
<1> HIDE DEF t1
<1>5. /\ tx \in Tx /\ tx.step = "fanned" /\ tx.row = c.row /\ tx.old = c.old
      /\ tx.dropped = c.dropped /\ tx.targets = T
  BY <1>3, <1>4 DEF Tx
<1> HIDE DEF tx
<1>6. CreationMoves(e, tx)
  BY <1>1, <1>2, <1>5 DEF CreationMoves
<1> QED
  BY <1>1, <1>5, <1>6 DEF T

------------------------------------------------------------------------------
(* Creation                                                                *)

\* What the transaction that creates e must satisfy in the present tables, when K
\* are the crossings.
TxFits(e, tx, K) ==
    /\ tx.step # "none" => events[e].state = "none" /\ tx.row.state = "active"
    /\ e \notin tx.old
    /\ \A x \in tx.old : events[x].state # "none"
    /\ \A s \in tx.targets : sessionRows[s].state # "none"
    /\ tx.step \in {"superseded", "fanned"} =>
          /\ \A f \in Events \ {e} : Holds(f) => tx.old \cap creating[f].old = {}
          /\ \A p \in tx.dropped : p[1] \in tx.old /\ delivery[p] = "pending"
    /\ \A s \in EventSessions : login[s].step = "fanned" =>
          /\ tx.step # "none" => <<e, s>> \in K
          /\ \A x \in tx.old : <<x, s>> \in K
    /\ \A s \in EventSessions :
          (<<e, s>> \notin K /\ tx.step = "fanned" /\ sessionRows[s].state = "open"
             /\ sessionRows[s].user \in tx.row.audience)
          => s \in tx.targets
    /\ \A x \in tx.old, s \in EventSessions :
          <<x, s>> \notin K /\ delivery[<<x, s>>] = "pending" => <<x, s>> \in tx.dropped

LEMMA CreationKeeps ==
    ASSUME EventInductive, NEW e \in Events, NEW tx, CreationMoves(e, tx),
           crossed \subseteq crossed', crossed' \subseteq Pairs, TxFits(e, tx, crossed')
    PROVE  EventInductive'
<1>0. /\ EventsTyped /\ RowsExist /\ EventLocksHeld /\ LoginsCross /\ FanOutsFind /\ WithdrawalsFind
      /\ FanOutMeets /\ WithdrawnNotPending
  BY DEF EventInductive
<1>1. UNCHANGED <<events, sessionRows, delivery, login, cancelling>>
  BY DEF CreationMoves
<1>2. creating' \in [Events -> Tx] /\ creating'[e] = tx
      /\ \A f \in Events : f # e => creating'[f] = creating[f]
  BY <1>0 DEF CreationMoves, EventsTyped
<1>3. EventsTyped'
  BY <1>0, <1>1, <1>2 DEF EventsTyped
<1>4. RowsExist'
  BY <1>0, <1>1, <1>2 DEF RowsExist, TxFits
<1>5. EventLocksHeld'
  <2>1. ASSUME NEW f \in Events, NEW g \in Events, f # g, Holds(f)', Holds(g)'
        PROVE  creating'[f].old \cap creating'[g].old = {}
    BY <1>0, <1>2, <2>1 DEF EventLocksHeld, TxFits, Holds
  <2>2. ASSUME NEW f \in Events, Holds(f)', NEW p \in creating'[f].dropped
        PROVE  p[1] \in creating'[f].old /\ delivery'[p] = "pending"
    BY <1>0, <1>1, <1>2, <2>2 DEF EventLocksHeld, TxFits, Holds
  <2> QED
    BY <2>1, <2>2 DEF EventLocksHeld
<1>6. LoginsCross'
  BY <1>0, <1>1, <1>2 DEF LoginsCross, TxFits
<1>7. FanOutsFind'
  BY <1>0, <1>1, <1>2 DEF FanOutsFind, TxFits, Active
<1>8. WithdrawalsFind'
  <2>1. ASSUME NEW x \in Events, NEW s \in EventSessions, <<x, s>> \notin crossed',
               NEW f \in Events, x \in creating'[f].old, delivery'[<<x, s>>] = "pending"
        PROVE  <<x, s>> \in creating'[f].dropped
    <3>1. CASE f = e
      BY <1>1, <1>2, <2>1, <3>1 DEF TxFits
    <3>2. CASE f # e
      BY <1>0, <1>1, <1>2, <2>1, <3>2 DEF WithdrawalsFind
    <3> QED
      BY <3>1, <3>2
  <2>2. \A x \in Events, s \in EventSessions :
           <<x, s>> \notin crossed' /\ login'[s].step = "fanned" /\ x \in login'[s].chosen
              => events'[x].state = "active"
    BY <1>0, <1>1 DEF WithdrawalsFind
  <2> QED
    BY <2>1, <2>2 DEF WithdrawalsFind
<1>9. FanOutMeets' /\ WithdrawnNotPending'
  BY <1>0, <1>1 DEF FanOutMeets, WithdrawnNotPending, Missing, Active
<1> QED
  BY <1>3, <1>4, <1>5, <1>6, <1>7, <1>8, <1>9 DEF EventInductive

LEMMA InsertStep ==
    ASSUME EventInductive, NEW e \in Events, NEW a \in Audiences,
           NEW k \in SupersedeKeys \cup {"none"}, CreateInsert(e, a, k)
    PROVE  EventInductive'
<1>0. EventsTyped /\ RowsExist /\ LoginsCross /\ crossed \subseteq Pairs
  BY DEF EventInductive, EventsTyped
<1>1. PICK tx \in Tx :
         /\ CreationMoves(e, tx)
         /\ tx.step = "waiting" /\ tx.row.state = "active" /\ tx.targets = {}
         /\ \A x \in tx.old : events[x].state = "active"
         /\ tx.dropped = {p \in tx.old \X EventSessions : delivery[p] = "pending"}
         /\ crossed' = crossed \cup ((tx.old \cup {e}) \X Entering)
         /\ events[e].state = "none"
  BY <1>0, InsertEffect
<1>2. tx.old \in SUBSET Events /\ Entering \in SUBSET EventSessions
  BY DEF Tx, Entering
<1>3. crossed \subseteq crossed' /\ crossed' \subseteq Pairs
  BY <1>0, <1>1, <1>2 DEF Pairs
<1>4. \A s \in EventSessions : login[s].step = "fanned" =>
         <<e, s>> \in crossed' /\ \A x \in tx.old : <<x, s>> \in crossed'
  BY <1>1, <1>2 DEF Entering
<1>5. \A x \in tx.old, s \in EventSessions :
         delivery[<<x, s>>] = "pending" => <<x, s>> \in tx.dropped
  BY <1>1
<1>6. TxFits(e, tx, crossed')
  BY <1>1, <1>4, <1>5 DEF TxFits
<1> QED
  BY <1>1, <1>3, <1>6, CreationKeeps

LEMMA SupersedeStep ==
    ASSUME EventInductive, NEW e \in Events, CreateSupersede(e)
    PROVE  EventInductive'
<1>0. /\ EventsTyped /\ RowsExist /\ LoginsCross /\ WithdrawalsFind /\ crossed \subseteq Pairs
      /\ creating[e] \in Tx
  BY DEF EventInductive, EventsTyped
<1>1. PICK tx \in Tx :
         /\ CreationMoves(e, tx) /\ UNCHANGED crossed
         /\ creating[e].step = "waiting" /\ tx.step = "superseded"
         /\ tx.row = creating[e].row /\ tx.targets = creating[e].targets
         /\ tx.old = {x \in creating[e].old : events[x].state = "active"}
         /\ tx.dropped = {p \in creating[e].dropped : p[1] \in tx.old /\ delivery[p] = "pending"}
         /\ \A x \in creating[e].old : \A f \in Events : Holds(f) => x \notin creating[f].old
  BY <1>0, SupersedeEffect
<1>2. \A f \in Events \ {e} : Holds(f) => tx.old \cap creating[f].old = {}
  BY <1>1
<1>3. \A s \in EventSessions : login[s].step = "fanned" =>
         <<e, s>> \in crossed' /\ \A x \in tx.old : <<x, s>> \in crossed'
  BY <1>0, <1>1 DEF LoginsCross
<1>4. \A x \in tx.old, s \in EventSessions :
         <<x, s>> \notin crossed' /\ delivery[<<x, s>>] = "pending" => <<x, s>> \in tx.dropped
  <2> SUFFICES ASSUME NEW x \in tx.old, NEW s \in EventSessions, <<x, s>> \notin crossed',
                      delivery[<<x, s>>] = "pending"
               PROVE  <<x, s>> \in tx.dropped
    OBVIOUS
  <2>1. x \in creating[e].old /\ x \in Events
    BY <1>0, <1>1 DEF Tx
  <2>2. <<x, s>> \in creating[e].dropped
    BY <1>0, <1>1, <2>1 DEF WithdrawalsFind
  <2> QED
    BY <1>1, <2>2
<1>5. /\ events[e].state = "none" /\ tx.row.state = "active" /\ e \notin tx.old
      /\ \A x \in tx.old : events[x].state # "none"
      /\ \A s \in tx.targets : sessionRows[s].state # "none"
  BY <1>0, <1>1 DEF RowsExist
<1>6. TxFits(e, tx, crossed')
  BY <1>1, <1>2, <1>3, <1>4, <1>5 DEF TxFits
<1> QED
  BY <1>0, <1>1, <1>6, CreationKeeps

LEMMA FanOutStep ==
    ASSUME EventInductive, NEW e \in Events, CreateFanOut(e)
    PROVE  EventInductive'
<1>0. /\ EventsTyped /\ RowsExist /\ EventLocksHeld /\ LoginsCross /\ WithdrawalsFind
      /\ crossed \subseteq Pairs /\ creating[e] \in Tx
  BY DEF EventInductive, EventsTyped
<1>1. PICK tx \in Tx :
         /\ CreationMoves(e, tx) /\ UNCHANGED crossed
         /\ creating[e].step = "superseded" /\ tx.step = "fanned"
         /\ tx.row = creating[e].row /\ tx.targets = FanOutTargets(tx.row.audience)
         /\ tx.old = creating[e].old /\ tx.dropped = creating[e].dropped
  BY <1>0, FanOutEffect
<1>2. /\ \A f \in Events \ {e} : Holds(f) => tx.old \cap creating[f].old = {}
      /\ \A p \in tx.dropped : p[1] \in tx.old /\ delivery[p] = "pending"
  BY <1>0, <1>1 DEF EventLocksHeld, Holds
<1>3. \A s \in EventSessions : login[s].step = "fanned" =>
         <<e, s>> \in crossed' /\ \A x \in tx.old : <<x, s>> \in crossed'
  BY <1>0, <1>1 DEF LoginsCross
<1>4. \A x \in tx.old, s \in EventSessions :
         <<x, s>> \notin crossed' /\ delivery[<<x, s>>] = "pending" => <<x, s>> \in tx.dropped
  <2>1. tx.old \in SUBSET Events
    BY DEF Tx
  <2> QED
    BY <1>0, <1>1, <2>1 DEF WithdrawalsFind
<1>5. /\ events[e].state = "none" /\ tx.row.state = "active" /\ e \notin tx.old
      /\ \A x \in tx.old : events[x].state # "none"
  BY <1>0, <1>1 DEF RowsExist
<1>6. tx.targets = {s \in EventSessions : sessionRows[s].state = "open"
                                            /\ sessionRows[s].user \in tx.row.audience}
  BY <1>1 DEF FanOutTargets
<1>7. TxFits(e, tx, crossed')
  BY <1>1, <1>2, <1>3, <1>4, <1>5, <1>6 DEF TxFits
<1> QED
  BY <1>0, <1>1, <1>7, CreationKeeps

LEMMA CreateAbortStep ==
    ASSUME EventInductive, NEW e \in Events, CreateAbort(e)
    PROVE  EventInductive'
<1>1. CreationMoves(e, NoTx) /\ UNCHANGED crossed /\ crossed \subseteq Pairs
  BY NoTxFields DEF CreateAbort, CreationMoves, EventInductive, EventsTyped
<1>2. TxFits(e, NoTx, crossed')
  BY NoTxFields DEF TxFits
<1> QED
  BY <1>1, <1>2, CreationKeeps

\* What the commit of e leaves in the tables.
LEMMA CommitEffect ==
    ASSUME EventsTyped, NEW e \in Events, CreateCommit(e)
    PROVE  /\ events' \in [Events -> EventRow] /\ events'[e] = creating[e].row
           /\ \A x \in Events \ {e} :
                 /\ events'[x].audience = events[x].audience
                 /\ events'[x].expired = events[x].expired
                 /\ events'[x].state = IF x \in creating[e].old THEN "superseded"
                                       ELSE events[x].state
           /\ delivery' \in [Pairs -> DeliveryStates]
           /\ \A p \in Pairs : delivery'[p] = FannedOut(e, p)
<1>0. /\ events \in [Events -> EventRow] /\ delivery \in [Pairs -> DeliveryStates]
      /\ creating[e] \in Tx
  BY DEF EventsTyped
<1>1. creating[e].row \in EventRow
  BY <1>0 DEF Tx
<1> DEFINE Row(x) == IF x = e THEN creating[e].row
                     ELSE IF x \in creating[e].old THEN [events[x] EXCEPT !.state = "superseded"]
                     ELSE events[x]
<1>2. events' = [x \in Events |-> Row(x)] /\ delivery' = [p \in Pairs |-> FannedOut(e, p)]
  BY DEF CreateCommit
<1>3. ASSUME NEW x \in Events, x # e
      PROVE  /\ Row(x) \in EventRow
             /\ Row(x).audience = events[x].audience
             /\ Row(x).expired = events[x].expired
             /\ Row(x).state = IF x \in creating[e].old THEN "superseded" ELSE events[x].state
  <2> DEFINE r == events[x]
             n == [r EXCEPT !.state = "superseded"]
  <2>1. r \in EventRow
    BY <1>0
  <2> HIDE DEF r
  <2>2. n \in EventRow /\ n.audience = r.audience /\ n.expired = r.expired /\ n.state = "superseded"
    BY <2>1 DEF EventRow, EventStates
  <2> HIDE DEF n
  <2>3. Row(x) = IF x \in creating[e].old THEN n ELSE r
    BY <1>3 DEF n, r
  <2>4. CASE x \in creating[e].old
    BY <2>2, <2>3, <2>4 DEF r
  <2>5. CASE x \notin creating[e].old
    BY <2>1, <2>3, <2>5 DEF r
  <2> QED
    BY <2>4, <2>5
<1>4. Row(e) = creating[e].row
  OBVIOUS
<1>5. \A p \in Pairs : FannedOut(e, p) \in DeliveryStates
  BY <1>0 DEF FannedOut, DeliveryStates
<1> HIDE DEF Row
<1>6. \A x \in Events : Row(x) \in EventRow
  BY <1>1, <1>3, <1>4
<1> QED
  BY <1>2, <1>3, <1>4, <1>5, <1>6

LEMMA CommitStep ==
    ASSUME EventInductive, NEW e \in Events, CreateCommit(e)
    PROVE  EventInductive'
<1>0. /\ EventsTyped /\ RowsExist /\ EventLocksHeld /\ LoginsCross /\ FanOutsFind /\ WithdrawalsFind
      /\ FanOutMeets /\ WithdrawnNotPending
      /\ creating[e] \in Tx /\ creating[e].old \in SUBSET Events
      /\ creating[e].dropped \in SUBSET Pairs
  BY DEF EventInductive, EventsTyped, Tx
<1>1. /\ events' \in [Events -> EventRow] /\ events'[e] = creating[e].row
      /\ \A x \in Events \ {e} :
            /\ events'[x].audience = events[x].audience
            /\ events'[x].expired = events[x].expired
            /\ events'[x].state = IF x \in creating[e].old THEN "superseded" ELSE events[x].state
      /\ delivery' \in [Pairs -> DeliveryStates]
      /\ \A p \in Pairs : delivery'[p] = FannedOut(e, p)
  BY <1>0, CommitEffect
<1>2. UNCHANGED <<sessionRows, login, cancelling, crossed>> /\ creating[e].step = "fanned"
  BY DEF CreateCommit
<1>3. /\ creating' \in [Events -> Tx] /\ creating'[e] = NoTx
      /\ \A f \in Events : f # e => creating'[f] = creating[f]
  BY <1>0, NoTxFields DEF CreateCommit, EventsTyped
\* The event is new, the events it supersedes are not.
<1>4. /\ events[e].state = "none" /\ events'[e].state = "active"
      /\ e \notin creating[e].old /\ \A x \in creating[e].old : events[x].state # "none"
      /\ \A s \in EventSessions : delivery[<<e, s>>] = "none"
  BY <1>0, <1>1, <1>2 DEF RowsExist
<1>5. \A x \in Events : events[x].state # "none" => events'[x].state # "none" /\ x # e
  BY <1>1, <1>4
\* Deliveries: what was dropped was pending, what is added was not there.
<1>6. ASSUME NEW x \in Events, NEW s \in EventSessions
      PROVE  /\ <<x, s>> \in creating[e].dropped =>
                   /\ x \in creating[e].old /\ delivery[<<x, s>>] = "pending"
                   /\ delivery'[<<x, s>>] = "superseded"
             /\ <<x, s>> \notin creating[e].dropped =>
                   \/ delivery'[<<x, s>>] = delivery[<<x, s>>]
                   \/ x = e /\ s \in creating[e].targets /\ delivery'[<<x, s>>] = "pending"
             /\ x = e => delivery'[<<x, s>>] = IF s \in creating[e].targets THEN "pending" ELSE "none"
  <2>1. <<x, s>> \in Pairs /\ <<x, s>>[1] = x /\ <<x, s>>[2] = s
    BY PairOf
  <2>2. \A p \in creating[e].dropped : p[1] \in creating[e].old /\ delivery[p] = "pending"
    BY <1>0, <1>2 DEF EventLocksHeld, Holds
  <2>3. <<x, s>> \in creating[e].dropped => x \in creating[e].old /\ delivery[<<x, s>>] = "pending"
    BY <2>1, <2>2
  <2>4. delivery'[<<x, s>>] = IF <<x, s>> \in creating[e].dropped THEN "superseded"
           ELSE IF x = e /\ s \in creating[e].targets /\ delivery[<<x, s>>] = "none" THEN "pending"
           ELSE delivery[<<x, s>>]
    BY <1>1, <2>1 DEF FannedOut
  <2> QED
    BY <1>4, <2>3, <2>4
<1>7. EventsTyped'
  BY <1>0, <1>1, <1>2, <1>3 DEF EventsTyped
<1>8. RowsExist'
  <2>1. ASSUME NEW x \in Events, NEW s \in EventSessions, delivery'[<<x, s>>] # "none"
        PROVE  events'[x].state # "none" /\ sessionRows'[s].state # "none"
    <3>1. CASE x = e
      <4>1. s \in creating[e].targets
        BY <1>6, <2>1, <3>1
      <4> QED
        BY <1>0, <1>2, <1>4, <3>1, <4>1 DEF RowsExist
    <3>2. CASE x # e
      <4>1. delivery[<<x, s>>] # "none"
        BY <1>6, <2>1, <3>2
      <4> QED
        BY <1>0, <1>2, <1>5, <4>1 DEF RowsExist
    <3> QED
      BY <3>1, <3>2
  <2>2. ASSUME NEW f \in Events
        PROVE  /\ creating'[f].step # "none" =>
                     events'[f].state = "none" /\ creating'[f].row.state = "active"
               /\ f \notin creating'[f].old
               /\ \A x \in creating'[f].old : events'[x].state # "none"
               /\ \A s \in creating'[f].targets : sessionRows'[s].state # "none"
    <3>1. CASE f = e
      BY <1>3, <3>1, NoTxFields
    <3>2. CASE f # e
      <4>1. creating'[f] = creating[f] /\ creating[f].old \subseteq Events
        BY <1>0, <1>3, <3>2 DEF EventsTyped, Tx
      <4>2. events[f].state = "none" => events'[f].state = "none"
        BY <1>1, <1>4, <3>2
      <4> QED
        BY <1>0, <1>2, <1>5, <4>1, <4>2 DEF RowsExist
    <3> QED
      BY <3>1, <3>2
  <2>3. \A s \in EventSessions :
           /\ login'[s].step # "none" => sessionRows'[s].state = "none"
           /\ \A x \in login'[s].chosen : events'[x].state # "none"
    <3>1. \A s \in EventSessions : login[s].chosen \subseteq Events
      BY <1>0 DEF EventsTyped, LoginTx
    <3> QED
      BY <1>0, <1>2, <1>5, <3>1 DEF RowsExist
  <2> QED
    BY <2>1, <2>2, <2>3 DEF RowsExist
<1>9. \A f \in Events : Holds(f)' => f # e /\ Holds(f) /\ creating'[f] = creating[f]
  BY <1>3, NoTxFields DEF Holds
<1>10. EventLocksHeld'
  <2>1. \A f, g \in Events : f # g /\ Holds(f)' /\ Holds(g)' =>
           creating'[f].old \cap creating'[g].old = {}
    BY <1>0, <1>9 DEF EventLocksHeld
  <2>2. ASSUME NEW f \in Events, Holds(f)', NEW p \in creating'[f].dropped
        PROVE  p[1] \in creating'[f].old /\ delivery'[p] = "pending"
    <3>1. f # e /\ Holds(f) /\ creating'[f] = creating[f]
      BY <1>9, <2>2
    <3>2. p \in Pairs /\ p[1] \in creating[f].old /\ delivery[p] = "pending"
      BY <1>0, <2>2, <3>1 DEF EventLocksHeld, EventsTyped, Tx
    <3>3. Holds(e)
      BY <1>2 DEF Holds
    <3>4. p[1] \notin creating[e].old
      BY <1>0, <3>1, <3>2, <3>3 DEF EventLocksHeld
    <3>5. p \notin creating[e].dropped
      BY <1>0, <3>3, <3>4 DEF EventLocksHeld
    <3>6. delivery'[p] = "pending"
      BY <1>6, <3>2, <3>5, PairOf
    <3> QED
      BY <3>1, <3>2, <3>6
  <2> QED
    BY <2>1, <2>2 DEF EventLocksHeld
<1>11. LoginsCross'
  BY <1>0, <1>2, <1>3, NoTxFields DEF LoginsCross
<1>12. \A s \in EventSessions : login[s].step = "fanned" => <<e, s>> \in crossed
  BY <1>0, <1>2 DEF LoginsCross
<1>13. FanOutsFind'
  <2> SUFFICES ASSUME NEW x \in Events, NEW s \in EventSessions, <<x, s>> \notin crossed
               PROVE  /\ (creating'[x].step = "fanned" /\ sessionRows[s].state = "open"
                            /\ sessionRows[s].user \in creating'[x].row.audience)
                         => s \in creating'[x].targets
                      /\ (login[s].step = "fanned" /\ Active(x)'
                            /\ login[s].user \in events'[x].audience)
                         => x \in login[s].chosen
    BY <1>2 DEF FanOutsFind
  <2>1. CASE x = e
    BY <1>3, <1>12, <2>1, NoTxFields
  <2>2. CASE x # e
    <3>1. Active(x)' => Active(x)
      BY <1>1, <2>2 DEF Active
    <3> QED
      BY <1>0, <1>1, <1>3, <2>2, <3>1 DEF FanOutsFind
  <2> QED
    BY <2>1, <2>2
<1>14. WithdrawalsFind'
  <2>1. ASSUME NEW x \in Events, NEW s \in EventSessions, <<x, s>> \notin crossed',
               NEW f \in Events, x \in creating'[f].old, delivery'[<<x, s>>] = "pending"
        PROVE  <<x, s>> \in creating'[f].dropped
    <3>1. f # e /\ creating'[f] = creating[f]
      BY <1>3, <2>1, NoTxFields
    <3>2. x # e
      BY <1>0, <1>4, <2>1, <3>1 DEF RowsExist
    <3>3. delivery[<<x, s>>] = "pending"
      BY <1>6, <2>1, <3>2
    <3> QED
      BY <1>0, <1>2, <2>1, <3>1, <3>3 DEF WithdrawalsFind
  <2>2. ASSUME NEW x \in Events, NEW s \in EventSessions, <<x, s>> \notin crossed',
               login'[s].step = "fanned", x \in login'[s].chosen
        PROVE  events'[x].state = "active"
    <3>1. events[x].state = "active"
      BY <1>0, <1>2, <2>2 DEF WithdrawalsFind
    <3>2. x \notin creating[e].old
      BY <1>0, <1>2, <2>2 DEF LoginsCross
    <3> QED
      BY <1>1, <1>4, <3>1, <3>2
  <2> QED
    BY <2>1, <2>2 DEF WithdrawalsFind
<1>15. FanOutMeets'
  <2> SUFFICES ASSUME NEW p \in Pairs, p \notin crossed', Missing(p)'
               PROVE  FALSE
    BY DEF FanOutMeets
  <2> DEFINE x == p[1]
             s == p[2]
  <2>0. x \in Events /\ s \in EventSessions /\ p = <<x, s>>
    BY PairOf
  <2>1. /\ Active(x)' /\ sessionRows[s].state = "open"
        /\ sessionRows[s].user \in events'[x].audience /\ delivery'[<<x, s>>] = "none"
        /\ <<x, s>> \notin crossed
    BY <1>2, <2>0 DEF Missing
  <2> HIDE DEF x, s
  <2>2. CASE x = e
    <3>1. s \notin creating[e].targets
      BY <1>6, <2>0, <2>1, <2>2
    <3> QED
      BY <1>0, <1>1, <1>2, <2>0, <2>1, <2>2, <3>1 DEF FanOutsFind
  <2>3. CASE x # e
    <3>1. delivery[<<x, s>>] = "none"
      BY <1>6, <2>0, <2>1, <2>3
    <3>2. Active(x) /\ events'[x].audience = events[x].audience
      BY <1>1, <2>0, <2>1, <2>3 DEF Active
    <3>3. <<x, s>> \in Pairs /\ <<x, s>>[1] = x /\ <<x, s>>[2] = s
      BY <2>0, PairOf
    <3>4. Missing(<<x, s>>)
      BY <2>1, <3>1, <3>2, <3>3 DEF Missing
    <3> QED
      BY <1>0, <2>1, <3>3, <3>4 DEF FanOutMeets
  <2> QED
    BY <2>2, <2>3
<1>16. WithdrawnNotPending'
  <2> SUFFICES ASSUME NEW p \in Pairs, p \notin crossed', p[1] \notin cancelling',
                      events'[p[1]].state \in {"superseded", "cancelled"},
                      delivery'[p] = "pending"
               PROVE  FALSE
    BY DEF WithdrawnNotPending
  <2> DEFINE x == p[1]
             s == p[2]
  <2>0. x \in Events /\ s \in EventSessions /\ p = <<x, s>>
    BY PairOf
  <2>1. /\ x \notin cancelling /\ <<x, s>> \notin crossed /\ delivery'[<<x, s>>] = "pending"
        /\ events'[x].state \in {"superseded", "cancelled"}
    BY <1>2, <2>0
  <2> HIDE DEF x, s
  <2>2. x # e
    BY <1>4, <2>1
  <2>3. delivery[<<x, s>>] = "pending" /\ <<x, s>> \notin creating[e].dropped
    BY <1>6, <2>0, <2>1, <2>2
  <2>4. x \notin creating[e].old
    BY <1>0, <2>0, <2>1, <2>3 DEF WithdrawalsFind
  <2>5. events[x].state \in {"superseded", "cancelled"}
    BY <1>1, <2>0, <2>1, <2>2, <2>4
  <2>6. <<x, s>> \in Pairs /\ <<x, s>>[1] = x
    BY <2>0, PairOf
  <2> QED
    BY <1>0, <2>1, <2>3, <2>5, <2>6 DEF WithdrawnNotPending
<1> QED
  BY <1>7, <1>8, <1>10, <1>11, <1>13, <1>14, <1>15, <1>16 DEF EventInductive

------------------------------------------------------------------------------
(* Deliveries of a session, and withdrawal                                 *)

\* The two properties of pairs, by event and session.
LEMMA ByPair ==
    /\ FanOutMeets <=>
          \A e \in Events, s \in EventSessions : <<e, s>> \notin crossed =>
              ~(/\ Active(e) /\ sessionRows[s].state = "open"
                /\ sessionRows[s].user \in events[e].audience /\ delivery[<<e, s>>] = "none")
    /\ WithdrawnNotPending <=>
          \A e \in Events, s \in EventSessions :
              <<e, s>> \notin crossed /\ events[e].state \in {"superseded", "cancelled"}
                /\ e \notin cancelling => delivery[<<e, s>>] # "pending"
<1>1. \A e \in Events, s \in EventSessions : <<e, s>>[1] = e /\ <<e, s>>[2] = s
  OBVIOUS
<1>2. \A p \in Pairs : \E e \in Events, s \in EventSessions : p = <<e, s>>
  BY PairOf
<1> QED
  BY <1>1, <1>2, PairOf DEF FanOutMeets, WithdrawnNotPending, Missing

\* A delivery that is there goes on, and only an unlocked one; deliveries of an
\* event that leaves cancelling are not pending.
DeliveriesGoOn ==
    /\ delivery' \in [Pairs -> DeliveryStates]
    /\ \A p \in Pairs :
          \/ delivery'[p] = delivery[p]
          \/ /\ delivery[p] # "none" /\ delivery'[p] \notin {"none", "pending"}
             /\ ~LockedDelivery(p)
    /\ cancelling' \subseteq cancelling
    /\ \A e \in cancelling \ cancelling' : \A s \in EventSessions : delivery'[<<e, s>>] # "pending"
    /\ crossed \subseteq crossed' /\ crossed' \subseteq Pairs
    /\ UNCHANGED <<events, sessionRows, creating, login>>

LEMMA DeliveriesStep ==
    ASSUME EventInductive, DeliveriesGoOn
    PROVE  EventInductive'
<1>0. /\ EventsTyped /\ RowsExist /\ EventLocksHeld /\ LoginsCross /\ FanOutsFind /\ WithdrawalsFind
      /\ FanOutMeets /\ WithdrawnNotPending
  BY DEF EventInductive
<1>1. UNCHANGED <<events, sessionRows, creating, login>> /\ crossed \subseteq crossed'
  BY DEF DeliveriesGoOn
<1>2. ASSUME NEW e \in Events, NEW s \in EventSessions
      PROVE  /\ (delivery'[<<e, s>>] = "none") <=> (delivery[<<e, s>>] = "none")
             /\ delivery'[<<e, s>>] = "pending" => delivery[<<e, s>>] = "pending"
  BY PairOf DEF DeliveriesGoOn
<1>3. EventsTyped'
  BY <1>0, <1>1 DEF EventsTyped, DeliveriesGoOn
<1>4. RowsExist'
  BY <1>0, <1>1, <1>2 DEF RowsExist
<1>5. EventLocksHeld'
  <2>1. ASSUME NEW e \in Events, Holds(e), NEW p \in creating[e].dropped
        PROVE  p[1] \in creating[e].old /\ delivery'[p] = "pending"
    <3>1. p \in Pairs /\ p[1] \in creating[e].old /\ delivery[p] = "pending"
      BY <1>0, <2>1 DEF EventLocksHeld, EventsTyped, Tx
    <3>2. LockedDelivery(p)
      BY <2>1 DEF LockedDelivery, Holds
    <3> QED
      BY <3>1, <3>2 DEF DeliveriesGoOn
  <2>2. \A e, f \in Events : e # f /\ Holds(e) /\ Holds(f) =>
           creating[e].old \cap creating[f].old = {}
    BY <1>0 DEF EventLocksHeld
  <2>3. \A e \in Events : Holds(e)' <=> Holds(e)
    BY <1>1 DEF Holds
  <2> QED
    BY <1>1, <2>1, <2>2, <2>3 DEF EventLocksHeld
<1>6. LoginsCross' /\ FanOutsFind'
  BY <1>0, <1>1 DEF LoginsCross, FanOutsFind, Active
<1>7. WithdrawalsFind'
  BY <1>0, <1>1, <1>2 DEF WithdrawalsFind
<1>8. FanOutMeets'
  <2>1. \A e \in Events, s \in EventSessions : <<e, s>> \notin crossed' =>
              ~(/\ Active(e)' /\ sessionRows'[s].state = "open"
                /\ sessionRows'[s].user \in events'[e].audience /\ delivery'[<<e, s>>] = "none")
    BY <1>0, <1>1, <1>2, ByPair DEF Active
  <2>2. \A p \in Pairs : \E e \in Events, s \in EventSessions :
           p = <<e, s>> /\ p[1] = e /\ p[2] = s
    BY PairOf
  <2> QED
    BY <2>1, <2>2 DEF FanOutMeets, Missing
<1>9. WithdrawnNotPending'
  <2>1. \A e \in Events, s \in EventSessions :
              <<e, s>> \notin crossed' /\ events'[e].state \in {"superseded", "cancelled"}
                /\ e \notin cancelling' => delivery'[<<e, s>>] # "pending"
    BY <1>0, <1>1, <1>2, ByPair DEF DeliveriesGoOn
  <2>2. \A p \in Pairs : \E e \in Events, s \in EventSessions : p = <<e, s>> /\ p[1] = e
    BY PairOf
  <2> QED
    BY <2>1, <2>2 DEF WithdrawnNotPending
<1> QED
  BY <1>3, <1>4, <1>5, <1>6, <1>7, <1>8, <1>9 DEF EventInductive

LEMMA CancelDeliveriesGoOn ==
    ASSUME EventsTyped, NEW e \in Events, CancelDeliveries(e)
    PROVE  DeliveriesGoOn
<1>0. delivery \in [Pairs -> DeliveryStates] /\ crossed \subseteq Pairs /\ cancelling \subseteq Events
  BY DEF EventsTyped
<1> DEFINE New(p) == IF p[1] = e /\ delivery[p] = "pending" THEN "superseded" ELSE delivery[p]
<1>1. /\ \A s \in EventSessions : ~LockedDelivery(<<e, s>>)
      /\ delivery' = [p \in Pairs |-> New(p)] /\ cancelling' = cancelling \ {e}
      /\ crossed' = crossed \cup ({e} \X Entering)
      /\ UNCHANGED <<events, sessionRows, creating, login>>
  BY DEF CancelDeliveries
<1>2. ASSUME NEW p \in Pairs
      PROVE  /\ New(p) \in DeliveryStates
             /\ \/ New(p) = delivery[p]
                \/ /\ delivery[p] # "none" /\ New(p) \notin {"none", "pending"}
                   /\ ~LockedDelivery(p)
             /\ p[1] = e => New(p) # "pending"
  <2>1. p[1] = e => ~LockedDelivery(p)
    BY <1>1, PairOf
  <2> QED
    BY <1>0, <2>1 DEF DeliveryStates
<1>3. \A s \in EventSessions : <<e, s>> \in Pairs /\ <<e, s>>[1] = e
  BY PairOf
<1>4. Entering \subseteq EventSessions
  BY DEF Entering
<1>5. crossed \subseteq crossed' /\ crossed' \subseteq Pairs
  BY <1>0, <1>1, <1>4 DEF Pairs
<1> HIDE DEF New
<1>6. \A f \in cancelling \ cancelling' : f = e
  BY <1>1
<1> QED
  BY <1>1, <1>2, <1>3, <1>5, <1>6 DEF DeliveriesGoOn

LEMMA UpdateGoesOn ==
    ASSUME EventsTyped, NEW p \in Pairs, NEW states, NEW state \in DeliveryStates,
           "none" \notin states, state \notin {"none", "pending"}, Update(p, states, state)
    PROVE  DeliveriesGoOn
  BY DEF EventsTyped, Update, DeliveriesGoOn

\* The sweep over a set of pairs none of which is locked.
LEMMA SweepGoesOn ==
    ASSUME EventsTyped, NEW D, \A p \in D \cap Pairs : ~LockedDelivery(p),
           delivery' = [p \in Pairs |-> IF p \in D THEN SweptDelivery(p) ELSE delivery[p]],
           UNCHANGED <<events, sessionRows, creating, login, cancelling, crossed>>
    PROVE  DeliveriesGoOn
  BY DEF EventsTyped, DeliveriesGoOn, SweptDelivery, DeliveryStates

LEMMA SessionsDeliveriesGoOn ==
    ASSUME EventsTyped,
           \/ \E p \in Pairs : Acknowledge(p)
           \/ \E p \in Pairs : \E r \in {"running", "succeeded", "failed"} : Report(p, r)
           \/ \E s \in EventSessions : ExpireDeliveries(s)
           \/ \E e \in Events : ExpireEventDeliveries(e) \/ CancelDeliveries(e)
    PROVE  DeliveriesGoOn
<1>1. ASSUME NEW p \in Pairs, Acknowledge(p) PROVE DeliveriesGoOn
  BY <1>1, UpdateGoesOn DEF Acknowledge, DeliveryStates
<1>2. ASSUME NEW p \in Pairs, NEW r \in {"running", "succeeded", "failed"}, Report(p, r)
      PROVE  DeliveriesGoOn
  <2>1. r \in DeliveryStates /\ r \notin {"none", "pending"}
    BY DEF DeliveryStates
  <2>2. Update(p, {"received", "running", "failed"}, r)
    BY <1>2 DEF Report
  <2> QED
    BY <2>1, <2>2, UpdateGoesOn
<1>3. ASSUME NEW s \in EventSessions, ExpireDeliveries(s) PROVE DeliveriesGoOn
  <2> DEFINE D == {p \in Pairs : p[2] = s}
  <2>1. \A p \in D \cap Pairs : ~LockedDelivery(p)
    BY <1>3, PairOf DEF ExpireDeliveries
  <2>2. delivery' = [p \in Pairs |-> IF p \in D THEN SweptDelivery(p) ELSE delivery[p]]
        /\ UNCHANGED <<events, sessionRows, creating, login, cancelling, crossed>>
    BY <1>3 DEF ExpireDeliveries
  <2> HIDE DEF D
  <2> QED
    BY <2>1, <2>2, SweepGoesOn
<1>4. ASSUME NEW e \in Events, ExpireEventDeliveries(e) PROVE DeliveriesGoOn
  <2> DEFINE D == {p \in Pairs : p[1] = e}
  <2>1. \A p \in D \cap Pairs : ~LockedDelivery(p)
    BY <1>4, PairOf DEF ExpireEventDeliveries
  <2>2. delivery' = [p \in Pairs |-> IF p \in D THEN SweptDelivery(p) ELSE delivery[p]]
        /\ UNCHANGED <<events, sessionRows, creating, login, cancelling, crossed>>
    BY <1>4 DEF ExpireEventDeliveries
  <2> HIDE DEF D
  <2> QED
    BY <2>1, <2>2, SweepGoesOn
<1> QED
  BY <1>1, <1>2, <1>3, <1>4, CancelDeliveriesGoOn, Zenon

\* An event expires or is cancelled.
LEMMA EventRowStep ==
    ASSUME EventInductive, NEW e \in Events, Expire(e) \/ CancelEvent(e)
    PROVE  EventInductive'
<1>0. /\ EventsTyped /\ RowsExist /\ EventLocksHeld /\ LoginsCross /\ FanOutsFind /\ WithdrawalsFind
      /\ FanOutMeets /\ WithdrawnNotPending
      /\ events[e] \in EventRow /\ events \in [Events -> EventRow]
  BY DEF EventInductive, EventsTyped
<1>1. UNCHANGED <<sessionRows, delivery, creating, login>> /\ events[e].state # "none"
  BY DEF Expire, CancelEvent
<1>2. PICK row \in EventRow :
         /\ events' = [events EXCEPT ![e] = row] /\ row.audience = events[e].audience
         /\ row.state # "none"
         /\ \/ row.state = events[e].state /\ UNCHANGED <<cancelling, crossed>>
            \/ /\ row.state = "cancelled" /\ cancelling' = cancelling \cup {e}
               /\ crossed' = crossed \cup ({e} \X Entering)
         /\ row.state = "active" /\ ~row.expired => Active(e)
  <2> DEFINE old == events[e]
             x == [old EXCEPT !.expired = TRUE]
             c == [old EXCEPT !.state = "cancelled"]
  <2>1. CASE Expire(e)
    <3>1. events' = [events EXCEPT ![e] = x] /\ UNCHANGED <<cancelling, crossed>>
      BY <2>1 DEF Expire
    <3>2. x \in EventRow /\ x.audience = old.audience /\ x.state = old.state /\ x.expired
      BY <1>0 DEF EventRow
    <3> HIDE DEF x
    <3> QED
      BY <1>1, <3>1, <3>2
  <2>2. CASE CancelEvent(e)
    <3>1. /\ events' = [events EXCEPT ![e] = c] /\ cancelling' = cancelling \cup {e}
          /\ crossed' = crossed \cup ({e} \X Entering)
      BY <2>2 DEF CancelEvent
    <3>2. c \in EventRow /\ c.audience = old.audience /\ c.state = "cancelled"
      BY <1>0 DEF EventRow, EventStates
    <3> HIDE DEF c
    <3> QED
      BY <3>1, <3>2
  <2> QED
    BY <2>1, <2>2
<1>3. /\ events' \in [Events -> EventRow] /\ events'[e] = row
      /\ \A x \in Events : x # e => events'[x] = events[x]
  BY <1>0, <1>2
<1>4. /\ crossed \subseteq crossed' /\ crossed' \subseteq Pairs
      /\ cancelling \subseteq cancelling' /\ cancelling' \subseteq Events
  <2>1. Entering \subseteq EventSessions
    BY DEF Entering
  <2> QED
    BY <1>0, <1>2, <2>1 DEF EventsTyped, Pairs
<1>5. \A x \in Events : /\ events'[x].audience = events[x].audience
                        /\ Active(x)' => Active(x)
                        /\ (events'[x].state = "none") <=> (events[x].state = "none")
  BY <1>1, <1>2, <1>3 DEF Active
\* What is withdrawn now is marked as cancelling and as crossed by open logins.
<1>6. \A x \in Events : \/ events'[x].state = events[x].state
                        \/ /\ x = e /\ e \in cancelling'
                           /\ \A s \in EventSessions : login[s].step = "fanned" => <<e, s>> \in crossed'
  BY <1>2, <1>3 DEF Entering
<1>7. EventsTyped'
  BY <1>0, <1>1, <1>3, <1>4 DEF EventsTyped
<1>8. RowsExist'
  <2>1. /\ \A f \in Events : creating[f] \in Tx /\ creating[f].old \subseteq Events
        /\ \A s \in EventSessions : login[s].chosen \subseteq Events
    BY <1>0 DEF EventsTyped, Tx, LoginTx
  <2> QED
    BY <1>0, <1>1, <1>5, <2>1 DEF RowsExist
<1>9. EventLocksHeld'
  BY <1>0, <1>1 DEF EventLocksHeld, Holds
<1>10. LoginsCross'
  BY <1>0, <1>1, <1>4 DEF LoginsCross
<1>11. FanOutsFind'
  BY <1>0, <1>1, <1>4, <1>5 DEF FanOutsFind
<1>12. WithdrawalsFind'
  BY <1>0, <1>1, <1>4, <1>6 DEF WithdrawalsFind
<1>13. \A p \in Pairs : \E x \in Events, s \in EventSessions :
          p = <<x, s>> /\ p[1] = x /\ p[2] = s
  BY PairOf
<1>14. FanOutMeets'
  <2>1. \A x \in Events, s \in EventSessions : <<x, s>> \notin crossed' =>
              ~(/\ Active(x)' /\ sessionRows'[s].state = "open"
                /\ sessionRows'[s].user \in events'[x].audience /\ delivery'[<<x, s>>] = "none")
    BY <1>0, <1>1, <1>4, <1>5, ByPair
  <2> QED
    BY <1>13, <2>1 DEF FanOutMeets, Missing
<1>15. WithdrawnNotPending'
  <2>1. \A x \in Events, s \in EventSessions :
              <<x, s>> \notin crossed' /\ events'[x].state \in {"superseded", "cancelled"}
                /\ x \notin cancelling' => delivery'[<<x, s>>] # "pending"
    BY <1>0, <1>1, <1>4, <1>6, ByPair
  <2> QED
    BY <1>13, <2>1 DEF WithdrawnNotPending
<1> QED
  BY <1>7, <1>8, <1>9, <1>10, <1>11, <1>12, <1>14, <1>15 DEF EventInductive

------------------------------------------------------------------------------
(* Sessions                                                                *)

\* A login reads the waiting events, or is given up.
LEMMA LoginMoveStep ==
    ASSUME EventInductive, NEW s \in EventSessions,
           (\E u \in Recipients : LoginFanOut(s, u)) \/ LoginAbort(s)
    PROVE  EventInductive'
<1>0. /\ EventsTyped /\ RowsExist /\ EventLocksHeld /\ LoginsCross /\ FanOutsFind /\ WithdrawalsFind
      /\ FanOutMeets /\ WithdrawnNotPending
  BY DEF EventInductive
<1>1. UNCHANGED <<events, sessionRows, delivery, creating, cancelling>>
  BY DEF LoginFanOut, LoginAbort
<1>2. PICK l \in LoginTx :
         /\ login' = [login EXCEPT ![s] = l]
         /\ crossed \subseteq crossed' /\ crossed' \subseteq Pairs
         /\ l.step = "fanned" => /\ sessionRows[s].state = "none"
                                 /\ l.chosen = Waiting(l.user)
                                 /\ \A e \in Events :
                                       /\ creating[e].step # "none" => <<e, s>> \in crossed'
                                       /\ \A x \in creating[e].old : <<x, s>> \in crossed'
         /\ l.step = "none" => l.chosen = {}
  <2>1. CASE LoginAbort(s)
    <3>1. login' = [login EXCEPT ![s] = NoLogin] /\ UNCHANGED crossed
      BY <2>1 DEF LoginAbort
    <3> QED
      BY <1>0, <3>1, NoLoginFields DEF EventsTyped
  <2>2. ASSUME NEW u \in Recipients, LoginFanOut(s, u)
        PROVE  \E l \in LoginTx :
         /\ login' = [login EXCEPT ![s] = l]
         /\ crossed \subseteq crossed' /\ crossed' \subseteq Pairs
         /\ l.step = "fanned" => /\ sessionRows[s].state = "none"
                                 /\ l.chosen = Waiting(l.user)
                                 /\ \A e \in Events :
                                       /\ creating[e].step # "none" => <<e, s>> \in crossed'
                                       /\ \A x \in creating[e].old : <<x, s>> \in crossed'
         /\ l.step = "none" => l.chosen = {}
    <3> DEFINE W == Waiting(u)
               l == [step |-> "fanned", user |-> u, chosen |-> W]
               C == {e \in Events : creating[e] # NoTx \/ e \in cancelling
                             \/ \E x \in Events : e \in creating[x].old}
    <3>1. /\ login' = [login EXCEPT ![s] = l] /\ crossed' = crossed \cup (C \X {s})
          /\ sessionRows[s] = NoSessionRow
      BY <2>2 DEF LoginFanOut
    <3>2. W \subseteq Events
      BY DEF Waiting
    <3> HIDE DEF W
    <3>3. l \in LoginTx /\ l.step = "fanned" /\ l.user = u /\ l.chosen = W
      BY <3>2 DEF LoginTx
    <3> HIDE DEF l
    <3>4. \A e \in Events : creating[e].step # "none" => e \in C
      BY NoTxFields
    <3>5. \A e \in Events : \A x \in creating[e].old : x \in C
      BY <1>0 DEF EventsTyped, Tx
    <3>6. C \subseteq Events
      OBVIOUS
    <3> HIDE DEF C
    <3>7. \A x \in C : <<x, s>> \in crossed'
      BY <3>1
    <3>8. crossed \subseteq crossed' /\ crossed' \subseteq Pairs
      BY <1>0, <3>1, <3>6 DEF EventsTyped, Pairs
    <3>9. sessionRows[s].state = "none"
      BY <3>1 DEF NoSessionRow
    <3> QED
      BY <3>1, <3>3, <3>4, <3>5, <3>7, <3>8, <3>9 DEF W
  <2> QED
    BY <2>1, <2>2
<1>3. /\ login' \in [EventSessions -> LoginTx] /\ login'[s] = l
      /\ \A t \in EventSessions : t # s => login'[t] = login[t]
  BY <1>0, <1>2 DEF EventsTyped
<1>4. l.step \in {"none", "fanned"}
  BY DEF LoginTx
<1>5. l.step = "fanned" => l.chosen = {e \in Events : Active(e) /\ l.user \in events[e].audience}
  BY <1>2 DEF Waiting
<1>6. EventsTyped'
  BY <1>0, <1>1, <1>2, <1>3 DEF EventsTyped
<1>7. RowsExist'
  <2>1. \A e \in l.chosen : events[e].state # "none"
    BY <1>2, <1>4, <1>5 DEF Active
  <2>2. l.step # "none" => sessionRows[s].state = "none"
    BY <1>2, <1>4
  <2> QED
    BY <1>0, <1>1, <1>3, <2>1, <2>2 DEF RowsExist
<1>8. EventLocksHeld'
  BY <1>0, <1>1 DEF EventLocksHeld, Holds
<1>9. LoginsCross'
  <2>1. ASSUME NEW t \in EventSessions, NEW e \in Events, login'[t].step = "fanned"
        PROVE  /\ creating[e].step # "none" => <<e, t>> \in crossed'
               /\ \A x \in creating[e].old : <<x, t>> \in crossed'
    <3>1. CASE t = s
      BY <1>2, <1>3, <2>1, <3>1
    <3>2. CASE t # s
      BY <1>0, <1>2, <1>3, <2>1, <3>2 DEF LoginsCross
    <3> QED
      BY <3>1, <3>2
  <2> QED
    BY <1>1, <2>1 DEF LoginsCross
<1>10. FanOutsFind'
  <2>1. \A e \in Events : Active(e)' <=> Active(e)
    BY <1>1 DEF Active
  <2>2. ASSUME NEW e \in Events, NEW t \in EventSessions, <<e, t>> \notin crossed',
               login'[t].step = "fanned", Active(e), login'[t].user \in events[e].audience
        PROVE  e \in login'[t].chosen
    <3>1. CASE t = s
      BY <1>3, <1>5, <2>2, <3>1
    <3>2. CASE t # s
      BY <1>0, <1>2, <1>3, <2>2, <3>2 DEF FanOutsFind
    <3> QED
      BY <3>1, <3>2
  <2> QED
    BY <1>0, <1>1, <1>2, <2>1, <2>2 DEF FanOutsFind
<1>11. WithdrawalsFind'
  <2>1. ASSUME NEW x \in Events, NEW t \in EventSessions, <<x, t>> \notin crossed',
               login'[t].step = "fanned", x \in login'[t].chosen
        PROVE  events[x].state = "active"
    <3>1. CASE t = s
      BY <1>3, <1>5, <2>1, <3>1 DEF Active
    <3>2. CASE t # s
      BY <1>0, <1>2, <1>3, <2>1, <3>2 DEF WithdrawalsFind
    <3> QED
      BY <3>1, <3>2
  <2> QED
    BY <1>0, <1>1, <1>2, <2>1 DEF WithdrawalsFind
<1>12. FanOutMeets' /\ WithdrawnNotPending'
  BY <1>0, <1>1, <1>2 DEF FanOutMeets, WithdrawnNotPending, Missing, Active
<1> QED
  BY <1>6, <1>7, <1>8, <1>9, <1>10, <1>11, <1>12 DEF EventInductive

LEMMA LoginCommitStep ==
    ASSUME EventInductive, NEW s \in EventSessions, LoginCommit(s)
    PROVE  EventInductive'
<1>0. /\ EventsTyped /\ RowsExist /\ EventLocksHeld /\ LoginsCross /\ FanOutsFind /\ WithdrawalsFind
      /\ FanOutMeets /\ WithdrawnNotPending
      /\ login[s] \in LoginTx
  BY DEF EventInductive, EventsTyped
<1>1. UNCHANGED <<events, creating, cancelling, crossed>> /\ login[s].step = "fanned"
  BY DEF LoginCommit
<1>2. /\ sessionRows' \in [EventSessions -> SessionRow]
      /\ sessionRows'[s].state = "open" /\ sessionRows'[s].user = login[s].user
      /\ \A t \in EventSessions : t # s => sessionRows'[t] = sessionRows[t]
  <2> DEFINE row == [state |-> "open", user |-> login[s].user]
  <2>1. row \in SessionRow /\ row.state = "open" /\ row.user = login[s].user
    BY <1>0 DEF LoginTx, SessionRow
  <2>2. sessionRows' = [sessionRows EXCEPT ![s] = row]
    BY DEF LoginCommit
  <2> HIDE DEF row
  <2> QED
    BY <1>0, <2>1, <2>2 DEF EventsTyped
<1>3. /\ login' \in [EventSessions -> LoginTx]
      /\ login'[s].step = "none" /\ login'[s].chosen = {}
      /\ \A t \in EventSessions : t # s => login'[t] = login[t]
  BY <1>0, NoLoginFields DEF LoginCommit, EventsTyped
\* The session is new: it had no delivery.
<1>4. sessionRows[s].state = "none" /\ \A e \in Events : delivery[<<e, s>>] = "none"
  BY <1>0, <1>1 DEF RowsExist
<1>5. /\ delivery' \in [Pairs -> DeliveryStates]
      /\ \A e \in Events : delivery'[<<e, s>>] = IF e \in login[s].chosen THEN "pending" ELSE "none"
      /\ \A e \in Events, t \in EventSessions : t # s => delivery'[<<e, t>>] = delivery[<<e, t>>]
  <2>1. delivery' = [p \in Pairs |->
                       IF p[2] = s /\ p[1] \in login[s].chosen THEN "pending" ELSE delivery[p]]
    BY DEF LoginCommit
  <2>2. \A e \in Events, t \in EventSessions :
           <<e, t>> \in Pairs /\ <<e, t>>[1] = e /\ <<e, t>>[2] = t
    BY PairOf
  <2> QED
    BY <1>0, <1>4, <2>1, <2>2 DEF EventsTyped, DeliveryStates
<1>6. EventsTyped'
  BY <1>0, <1>1, <1>2, <1>3, <1>5 DEF EventsTyped
<1>7. RowsExist'
  <2>1. \A e \in login[s].chosen : events[e].state # "none"
    BY <1>0 DEF RowsExist
  <2>2. ASSUME NEW e \in Events, NEW t \in EventSessions, delivery'[<<e, t>>] # "none"
        PROVE  events'[e].state # "none" /\ sessionRows'[t].state # "none"
    <3>1. CASE t = s
      BY <1>1, <1>2, <1>5, <2>1, <2>2, <3>1
    <3>2. CASE t # s
      BY <1>0, <1>1, <1>2, <1>5, <2>2, <3>2 DEF RowsExist
    <3> QED
      BY <3>1, <3>2
  <2>3. \A t \in EventSessions : sessionRows[t].state # "none" => sessionRows'[t].state # "none"
    BY <1>2
  <2>4. \A e \in Events : creating[e].targets \subseteq EventSessions
    BY <1>0 DEF EventsTyped, Tx
  <2>5. \A t \in EventSessions :
          /\ login'[t].step # "none" => sessionRows'[t].state = "none"
          /\ \A e \in login'[t].chosen : events'[e].state # "none"
    BY <1>0, <1>1, <1>2, <1>3 DEF RowsExist
  <2> QED
    BY <1>0, <1>1, <2>2, <2>3, <2>4, <2>5 DEF RowsExist
<1>8. EventLocksHeld'
  <2>1. ASSUME NEW e \in Events, Holds(e), NEW p \in creating[e].dropped
        PROVE  p[1] \in creating[e].old /\ delivery'[p] = "pending"
    <3>1. p \in Pairs /\ p[1] \in creating[e].old /\ delivery[p] = "pending"
      BY <1>0, <2>1 DEF EventLocksHeld, EventsTyped, Tx
    <3>2. p[2] # s
      BY <1>4, <3>1, PairOf
    <3> QED
      BY <1>5, <3>1, <3>2, PairOf
  <2>2. \A e \in Events : Holds(e)' <=> Holds(e)
    BY <1>1 DEF Holds
  <2> QED
    BY <1>0, <1>1, <2>1, <2>2 DEF EventLocksHeld
<1>9. LoginsCross'
  BY <1>0, <1>1, <1>3 DEF LoginsCross
<1>10. FanOutsFind'
  <2>1. ASSUME NEW e \in Events, NEW t \in EventSessions, <<e, t>> \notin crossed,
               creating[e].step = "fanned", sessionRows'[t].state = "open",
               sessionRows'[t].user \in creating[e].row.audience
        PROVE  t \in creating[e].targets
    <3>1. t # s
      BY <1>0, <1>1, <2>1 DEF LoginsCross
    <3> QED
      BY <1>0, <1>2, <2>1, <3>1 DEF FanOutsFind
  <2>2. \A e \in Events, t \in EventSessions : <<e, t>> \notin crossed =>
           (login'[t].step = "fanned" /\ Active(e) /\ login'[t].user \in events[e].audience
              => e \in login'[t].chosen)
    BY <1>0, <1>3 DEF FanOutsFind
  <2>3. \A e \in Events : Active(e)' <=> Active(e)
    BY <1>1 DEF Active
  <2> QED
    BY <1>1, <2>1, <2>2, <2>3 DEF FanOutsFind
<1>11. WithdrawalsFind'
  <2>1. ASSUME NEW x \in Events, NEW t \in EventSessions, <<x, t>> \notin crossed,
               NEW e \in Events, x \in creating[e].old, delivery'[<<x, t>>] = "pending"
        PROVE  <<x, t>> \in creating[e].dropped
    <3>1. t # s
      BY <1>0, <1>1, <2>1 DEF LoginsCross
    <3> QED
      BY <1>0, <1>5, <2>1, <3>1 DEF WithdrawalsFind
  <2>2. \A x \in Events, t \in EventSessions :
           <<x, t>> \notin crossed /\ login'[t].step = "fanned" /\ x \in login'[t].chosen
              => events[x].state = "active"
    BY <1>0, <1>3 DEF WithdrawalsFind
  <2> QED
    BY <1>1, <2>1, <2>2 DEF WithdrawalsFind
<1>12. \A p \in Pairs : \E e \in Events, t \in EventSessions :
          p = <<e, t>> /\ p[1] = e /\ p[2] = t
  BY PairOf
<1>13. FanOutMeets'
  <2>1. ASSUME NEW e \in Events, NEW t \in EventSessions, <<e, t>> \notin crossed', Active(e)',
               sessionRows'[t].state = "open", sessionRows'[t].user \in events'[e].audience,
               delivery'[<<e, t>>] = "none"
        PROVE  FALSE
    <3>0. Active(e)
      BY <1>1, <2>1 DEF Active
    <3>1. CASE t = s
      BY <1>0, <1>1, <1>2, <1>5, <2>1, <3>0, <3>1 DEF FanOutsFind
    <3>2. CASE t # s
      BY <1>0, <1>1, <1>2, <1>5, <2>1, <3>0, <3>2, ByPair
    <3> QED
      BY <3>1, <3>2
  <2> QED
    BY <1>12, <2>1 DEF FanOutMeets, Missing
<1>14. WithdrawnNotPending'
  <2>1. ASSUME NEW e \in Events, NEW t \in EventSessions, <<e, t>> \notin crossed',
               events'[e].state \in {"superseded", "cancelled"}, e \notin cancelling',
               delivery'[<<e, t>>] = "pending"
        PROVE  FALSE
    <3>1. CASE t = s
      <4>1. e \in login[s].chosen
        BY <1>5, <2>1, <3>1
      <4> QED
        BY <1>0, <1>1, <2>1, <3>1, <4>1 DEF WithdrawalsFind
    <3>2. CASE t # s
      BY <1>0, <1>1, <1>5, <2>1, <3>2, ByPair
    <3> QED
      BY <3>1, <3>2
  <2> QED
    BY <1>12, <2>1 DEF WithdrawnNotPending
<1> QED
  BY <1>6, <1>7, <1>8, <1>9, <1>10, <1>11, <1>13, <1>14 DEF EventInductive

LEMMA RevokeStep ==
    ASSUME EventInductive, NEW s \in EventSessions, RevokeSession(s)
    PROVE  EventInductive'
<1>0. /\ EventsTyped /\ RowsExist /\ EventLocksHeld /\ LoginsCross /\ FanOutsFind /\ WithdrawalsFind
      /\ FanOutMeets /\ WithdrawnNotPending
      /\ sessionRows \in [EventSessions -> SessionRow]
  BY DEF EventInductive, EventsTyped
<1>1. /\ UNCHANGED <<events, delivery, creating, login, cancelling, crossed>>
      /\ sessionRows[s].state = "open"
  BY DEF RevokeSession
<1>2. /\ sessionRows' \in [EventSessions -> SessionRow] /\ sessionRows'[s].state = "revoked"
      /\ \A t \in EventSessions : t # s => sessionRows'[t] = sessionRows[t]
  BY <1>0 DEF RevokeSession, SessionRow
<1>3. \A t \in EventSessions :
         /\ (sessionRows'[t].state = "none") <=> (sessionRows[t].state = "none")
         /\ sessionRows'[t].state = "open" => sessionRows'[t] = sessionRows[t]
  BY <1>1, <1>2
<1>4. EventsTyped'
  BY <1>0, <1>1, <1>2 DEF EventsTyped
<1>5. RowsExist'
  <2>1. \A e \in Events : creating[e].targets \subseteq EventSessions
    BY <1>0 DEF EventsTyped, Tx
  <2> QED
    BY <1>0, <1>1, <1>3, <2>1 DEF RowsExist
<1>6. EventLocksHeld' /\ LoginsCross' /\ WithdrawalsFind' /\ WithdrawnNotPending'
  BY <1>0, <1>1 DEF EventLocksHeld, Holds, LoginsCross, WithdrawalsFind, WithdrawnNotPending
<1>7. FanOutsFind'
  BY <1>0, <1>1, <1>3 DEF FanOutsFind, Active
<1>8. FanOutMeets'
  <2>1. \A p \in Pairs : p[2] \in EventSessions
    BY PairOf
  <2> QED
    BY <1>0, <1>1, <1>3, <2>1 DEF FanOutMeets, Missing, Active
<1> QED
  BY <1>4, <1>5, <1>6, <1>7, <1>8 DEF EventInductive

------------------------------------------------------------------------------
(* The theorems                                                            *)

LEMMA EventStart ==
    ASSUME EventInit
    PROVE  EventInductive
<1>1. /\ \A e \in Events : events[e] = NoEvent /\ creating[e] = NoTx
      /\ \A s \in EventSessions : sessionRows[s] = NoSessionRow /\ login[s] = NoLogin
      /\ \A p \in Pairs : delivery[p] = "none"
      /\ cancelling = {} /\ crossed = {}
  BY DEF EventInit
<1>2. NoEvent \in EventRow /\ NoEvent.state = "none"
  BY DEF NoEvent, EventRow, EventStates
<1>3. NoSessionRow \in SessionRow /\ NoSessionRow.state = "none"
  BY DEF NoSessionRow, SessionRow
<1>4. EventsTyped
  BY <1>2, <1>3, NoTxFields, NoLoginFields DEF EventInit, EventsTyped, DeliveryStates
<1>5. RowsExist
  BY <1>1, <1>2, <1>3, NoTxFields, NoLoginFields, PairOf DEF RowsExist
<1>6. EventLocksHeld /\ LoginsCross
  BY <1>1, NoTxFields, NoLoginFields DEF EventLocksHeld, LoginsCross, Holds
<1>7. FanOutsFind /\ WithdrawalsFind
  BY <1>1, <1>2, <1>3, NoTxFields, NoLoginFields DEF FanOutsFind, WithdrawalsFind
<1>8. FanOutMeets /\ WithdrawnNotPending
  BY <1>1, <1>2, <1>3, PairOf DEF FanOutMeets, WithdrawnNotPending, Missing, Active
<1> QED
  BY <1>4, <1>5, <1>6, <1>7, <1>8 DEF EventInductive

\* EventInductive holds in every reachable state: what the open transactions of
\* creations and logins have read stays tied to the rows others commit meanwhile.
THEOREM EventSafe == EventSpec => []EventInductive
<1>1. EventInit => EventInductive
  BY EventStart
<1>2. EventInductive /\ [EventNext]_eventVars => EventInductive'
  <2> SUFFICES ASSUME EventInductive, [EventNext]_eventVars PROVE EventInductive'
    OBVIOUS
  <2>0. EventsTyped
    BY DEF EventInductive
  <2>1. CASE UNCHANGED eventVars
    BY <2>1 DEF eventVars, EventInductive, EventsTyped, RowsExist, EventLocksHeld, Holds, LoginsCross,
                FanOutsFind, WithdrawalsFind, FanOutMeets, WithdrawnNotPending, Missing, Active
  <2>2. CASE EventNext
    <3>1. ASSUME \/ \E p \in Pairs : Acknowledge(p)
                 \/ \E p \in Pairs : \E r \in {"running", "succeeded", "failed"} : Report(p, r)
                 \/ \E s \in EventSessions : ExpireDeliveries(s)
                 \/ \E e \in Events : ExpireEventDeliveries(e) \/ CancelDeliveries(e)
          PROVE  EventInductive'
      BY <2>0, <3>1, SessionsDeliveriesGoOn, DeliveriesStep
    <3> QED
      BY <2>2, <3>1, InsertStep, SupersedeStep, FanOutStep, CommitStep, CreateAbortStep,
         EventRowStep, LoginMoveStep, LoginCommitStep, RevokeStep, Zenon DEF EventNext
  <2> QED
    BY <2>1, <2>2
<1> QED
  BY <1>1, <1>2, PTL DEF EventSpec

\* Types; an open session has every active event for its user, and no withdrawn
\* event stays pending, unless its login overlapped the creation or withdrawal.
THEOREM EventCorrect == EventSpec => []EventInvariant
<1>1. ASSUME EventInductive PROVE EventInvariant
  <2>0. EventsTyped /\ RowsExist /\ FanOutMeets /\ WithdrawnNotPending
    BY <1>1 DEF EventInductive
  <2>1. ASSUME NEW e \in Events
        PROVE  /\ events[e].state \in EventStates
               /\ events[e].audience \subseteq Recipients
               /\ creating[e].step \in {"none", "waiting", "superseded", "fanned"}
               /\ creating[e].old \subseteq Events \ {e}
               /\ creating[e].targets \subseteq EventSessions
    <3>1. events[e] \in EventRow /\ creating[e] \in Tx /\ e \notin creating[e].old
      BY <2>0 DEF EventsTyped, RowsExist
    <3> QED
      BY <3>1 DEF EventRow, Tx
  <2>2. ASSUME NEW s \in EventSessions
        PROVE  /\ sessionRows[s].state \in {"none", "open", "revoked"}
               /\ login[s].chosen \subseteq Events
    BY <2>0 DEF EventsTyped, SessionRow, LoginTx
  <2>3. \A p \in Pairs : delivery[p] # "none" =>
           events[p[1]].state # "none" /\ sessionRows[p[2]].state # "none"
    BY <2>0, PairOf DEF RowsExist
  <2>4. delivery \in [Pairs -> DeliveryStates]
    BY <2>0 DEF EventsTyped
  <2>5. EventTypeOK
    BY <2>1, <2>2, <2>3, <2>4 DEF EventTypeOK
  <2> QED
    BY <2>0, <2>5 DEF EventInvariant
<1> QED
  BY <1>1, EventSafe, PTL

\* A delivery that a session has received changes only by that session's own
\* reports, though events are superseded, cancelled and expire around it.
THEOREM WorkIsKept == EventSpec => ReceivedWorkStays
<1> DEFINE StaysKept(p) ==
              /\ delivery[p] \in {"received", "running", "failed"}
                   => delivery'[p] \in {"received", "running", "failed", "succeeded"}
              /\ delivery[p] = "succeeded" => delivery'[p] = "succeeded"
<1>1. ASSUME EventInductive, [EventNext]_eventVars
      PROVE  [\A p \in Pairs : StaysKept(p)]_eventVars
  <2> SUFFICES ASSUME EventNext, NEW p \in Pairs PROVE StaysKept(p)
    BY <1>1
  <2>0. /\ EventsTyped /\ RowsExist /\ EventLocksHeld /\ p[1] \in Events /\ p[2] \in EventSessions
        /\ p = <<p[1], p[2]>>
    BY <1>1, PairOf DEF EventInductive
  <2>1. ASSUME UNCHANGED delivery PROVE StaysKept(p)
    BY <2>1
  <2>2. ASSUME NEW e \in Events, CreateCommit(e) PROVE StaysKept(p)
    <3>1. delivery'[p] = FannedOut(e, p)
      BY <2>2 DEF CreateCommit
    <3>2. p \in creating[e].dropped => delivery[p] = "pending"
      BY <2>0, <2>2 DEF CreateCommit, EventLocksHeld, Holds
    <3> QED
      BY <3>1, <3>2 DEF FannedOut
  <2>3. ASSUME NEW s \in EventSessions, LoginCommit(s) PROVE StaysKept(p)
    <3>1. p[2] = s => delivery[p] = "none"
      BY <2>0, <2>3 DEF LoginCommit, RowsExist
    <3> QED
      BY <2>3, <3>1 DEF LoginCommit
  <2>4. ASSUME NEW q \in Pairs,
               \/ Acknowledge(q)
               \/ \E r \in {"running", "succeeded", "failed"} : Report(q, r)
        PROVE  StaysKept(p)
    BY <2>0, <2>4 DEF Acknowledge, Report, Update, EventsTyped
  <2>5. ASSUME \/ \E s \in EventSessions : ExpireDeliveries(s)
               \/ \E e \in Events : ExpireEventDeliveries(e) \/ CancelDeliveries(e)
        PROVE  StaysKept(p)
    BY <2>5 DEF ExpireDeliveries, ExpireEventDeliveries, CancelDeliveries, SweptDelivery
  <2>6. \/ UNCHANGED delivery
        \/ \E e \in Events : CreateCommit(e)
        \/ \E s \in EventSessions : LoginCommit(s)
        \/ \E q \in Pairs : \/ Acknowledge(q)
                            \/ \E r \in {"running", "succeeded", "failed"} : Report(q, r)
        \/ \E s \in EventSessions : ExpireDeliveries(s)
        \/ \E e \in Events : ExpireEventDeliveries(e) \/ CancelDeliveries(e)
    BY Zenon DEF EventNext, CreateInsert, CreateSupersede, CreateFanOut, CreateAbort, CancelEvent,
                 Expire, LoginFanOut, LoginAbort, RevokeSession
  <2> HIDE DEF StaysKept
  <2> QED
    BY <2>1, <2>2, <2>3, <2>4, <2>5, <2>6, Zenon
<1>2. EventSpec => [][\A p \in Pairs : StaysKept(p)]_eventVars
  BY <1>1, EventSafe, PTL DEF EventSpec
<1> QED
  BY <1>2 DEF ReceivedWorkStays


------------------------------------------------------------------------------
(* Numbers: what no number can be the least to violate holds of all.       *)

LEMMA LeastExists ==
    ASSUME NEW S \in SUBSET Nat, S # {}
    PROVE  \E x \in S : \A y \in S : x <= y
<1> DEFINE R == OpToRel(<, Nat)
<1>1. \E x \in S : \A y \in S : ~(<<y, x>> \in R)
  <2>1. IsWellFoundedOn(R, Nat)
    BY NatLessThanWellFounded
  <2> HIDE DEF R
  <2> QED BY <2>1, WFMin
<1>2. \A x, y \in Nat : <<y, x>> \in R <=> y < x
  BY DEF OpToRel
<1> HIDE DEF R
<1>3. PICK x \in S : \A y \in S : <<y, x>> \notin R
  BY <1>1
<1>4. ASSUME NEW y \in S PROVE x <= y
  <2>1. ~(y < x)
    BY <1>2, <1>3, Zenon
  <2> QED BY <2>1
<1> QED BY <1>4

------------------------------------------------------------------------------
(* The calculations of the login policy.                                   *)

LEMMA HalfFacts == Half \in Nat /\ Half > 0
BY PolicyAssumption DEF Half

LEMMA WrapIsIdentity ==
    ASSUME NEW n \in Nat, n < Half
    PROVE  Wrap(n) = n
<1>1. Half \in Nat /\ Half > 0
  BY HalfFacts
<1>2. PICK h \in Nat : h = Half
  BY <1>1
<1>3. (n + h) % (2 * h) = n + h
  BY <1>1, <1>2
<1> QED BY <1>2, <1>3 DEF Wrap

\* What a function that holds the delays of the doublings is.
HoldsDelays(f, doublings, base, maximum) ==
    f = [n \in 0 .. doublings |-> IF n = 0 THEN base ELSE Doubled(f[n - 1], maximum)]

LEMMA DoubledIsDelay ==
    ASSUME NEW maximum \in Nat, maximum < Half, NEW d \in 1 .. maximum
    PROVE  /\ Doubled(d, maximum) \in 1 .. maximum
           /\ Doubled(d, maximum) = IF 2 * d > maximum THEN maximum ELSE 2 * d
<1>1. CASE d > maximum \div 2
  BY <1>1 DEF Doubled
<1>2. CASE ~(d > maximum \div 2)
  <2>1. 2 * d <= maximum /\ 2 * d \in Nat
    BY <1>2
  <2>2. Wrap(2 * d) = 2 * d
    BY <2>1, WrapIsIdentity, HalfFacts
  <2> QED BY <1>2, <2>1, <2>2 DEF Doubled
<1> QED BY <1>1, <1>2

LEMMA DelaysExist ==
    ASSUME NEW doublings \in Nat, NEW maximum \in Nat, maximum < Half, NEW base \in 1 .. maximum
    PROVE  HoldsDelays(Delays(doublings, base, maximum), doublings, base, maximum)
<1> DEFINE Good(f, n) == \A i \in 0 .. n : f[i] = IF i = 0 THEN base ELSE Doubled(f[i - 1], maximum)
           T == {n \in Nat : ~\E f \in [0 .. n -> 1 .. maximum] : Good(f, n)}
<1>1. T = {}
  <2> SUFFICES ASSUME T # {} PROVE FALSE
      OBVIOUS
  <2>1. PICK x \in T : \A y \in T : x <= y
    BY LeastExists
  <2>2. x \in Nat /\ ~\E f \in [0 .. x -> 1 .. maximum] : Good(f, x)
    OBVIOUS
  <2>3. CASE x = 0
    <3> DEFINE f == [i \in 0 .. 0 |-> base]
    <3>1. f \in [0 .. x -> 1 .. maximum] /\ Good(f, x)
      BY <2>3
    <3> QED BY <2>2, <3>1
  <2>4. CASE x > 0
    <3>1. x - 1 \in Nat /\ x - 1 \notin T
      <4> HIDE DEF T
      <4>1. x - 1 \in Nat /\ ~(x <= x - 1)
        BY <2>2, <2>4
      <4> QED BY <2>1, <4>1
    <3>2. PICK f \in [0 .. x - 1 -> 1 .. maximum] : Good(f, x - 1)
      BY <3>1
    <3> DEFINE last == Doubled(f[x - 1], maximum)
               g == [i \in 0 .. x |-> IF i = x THEN last ELSE f[i]]
    <3>3. last \in 1 .. maximum
      BY <3>1, DoubledIsDelay
    <3> HIDE DEF last
    <3>4. g \in [0 .. x -> 1 .. maximum]
      BY <3>1, <3>2, <3>3
    <3>5. \A i \in 0 .. x - 1 : g[i] = f[i]
      BY <3>1, <3>2
    <3>6. g[x] = last /\ 0 .. x = (0 .. x - 1) \cup {x}
      BY <3>1, <2>2
    <3> HIDE DEF g
    <3>7. Good(g, x)
      <4> SUFFICES ASSUME NEW i \in 0 .. x
                   PROVE  g[i] = IF i = 0 THEN base ELSE Doubled(g[i - 1], maximum)
          OBVIOUS
      <4>1. CASE i = x
        <5>1. g[x - 1] = f[x - 1] /\ x # 0
          BY <2>4, <3>1, <3>5
        <5> QED BY <3>6, <4>1, <5>1 DEF last
      <4>2. CASE i # x
        <5>1. i \in 0 .. x - 1 /\ (i # 0 => i - 1 \in 0 .. x - 1)
          BY <2>2, <3>1, <4>2
        <5> QED BY <3>2, <3>5, <5>1
      <4> QED BY <4>1, <4>2
    <3> QED BY <2>2, <3>4, <3>7
  <2> QED BY <2>2, <2>3, <2>4
<1>2. PICK f \in [0 .. doublings -> 1 .. maximum] : Good(f, doublings)
  BY <1>1
<1>3. HoldsDelays(f, doublings, base, maximum)
  BY <1>2 DEF HoldsDelays
<1>4. Delays(doublings, base, maximum) = CHOOSE g : HoldsDelays(g, doublings, base, maximum)
  BY DEF Delays, HoldsDelays
<1> QED BY <1>3, <1>4

\* No delay below the limit, and one up to the maximum from there on.
LEMMA BackoffValue ==
    ASSUME NEW strikes \in Nat, NEW limit \in Nat, NEW maximum \in Nat, maximum < Half, NEW base \in 1 .. maximum
    PROVE  IF strikes < limit THEN LoginBackoff(strikes, limit, base, maximum) = 0
           ELSE LoginBackoff(strikes, limit, base, maximum) \in 1 .. maximum
<1> SUFFICES ASSUME ~(strikes < limit) PROVE LoginBackoff(strikes, limit, base, maximum) \in 1 .. maximum
    BY DEF LoginBackoff
<1>1. PICK n \in Nat : n = strikes - limit
  OBVIOUS
<1>2. PICK f : f = Delays(n, base, maximum)
  OBVIOUS
<1>3. HoldsDelays(f, n, base, maximum)
  BY <1>2, DelaysExist
<1>4. \A i \in 0 .. n : f[i] = IF i = 0 THEN base ELSE Doubled(f[i - 1], maximum)
  BY <1>3 DEF HoldsDelays
<1> DEFINE T == {i \in 0 .. n : f[i] \notin 1 .. maximum}
<1>5. T = {}
  <2> SUFFICES ASSUME T # {} PROVE FALSE
      OBVIOUS
  <2>0. T \in SUBSET Nat
    OBVIOUS
  <2>1. PICK x \in T : \A y \in T : x <= y
    BY <2>0, LeastExists
  <2>2. x \in 0 .. n /\ f[x] \notin 1 .. maximum
    OBVIOUS
  <2>3. x # 0
    BY <1>4, <2>2
  <2>4. x - 1 \in 0 .. n /\ ~(x <= x - 1)
    BY <1>1, <2>2, <2>3
  <2>5. f[x - 1] \in 1 .. maximum
    BY <2>1, <2>4
  <2>6. f[x] = Doubled(f[x - 1], maximum)
    BY <1>4, <2>2, <2>3
  <2> QED BY <2>2, <2>5, <2>6, DoubledIsDelay
<1>6. f[n] \in 1 .. maximum
  BY <1>1, <1>5
<1>7. LoginBackoff(strikes, limit, base, maximum) = IF f[n] > maximum THEN maximum ELSE f[n]
  BY <1>1, <1>2 DEF LoginBackoff
<1> QED BY <1>6, <1>7

------------------------------------------------------------------------------
(* The login throttle: the inductive invariant                             *)

ThrottleSteps == {"idle", "check", "verify", "success", "principal row", "source row", "prune"}
AttemptRow  == [step : ThrottleSteps, principal : Principals \cup {"any"}, source : Sources \cup {"none"}, now : 0 .. MaxTime]
ThrottleRow == [count : Nat, blocked : Nat, updated : 0 .. MaxTime]

\* An attempt under way has keys and was begun by now; a row counts every plain
\* refusal since its count began, and blocks for at most the maximum.
AttemptOK(x) ==
    /\ x \in AttemptRow /\ x.now <= clock
    /\ x.step # "idle" => x.principal \in Principals /\ x.source \in Sources

RowOK(k) ==
    /\ rows[k].blocked <= rows[k].updated + BackoffMax
    /\ refused[k] <= rows[k].count /\ refused[k] < Limit(k)

ThrottleInductive ==
    /\ clock \in 0 .. MaxTime
    /\ rows \in [ThrottleKeys -> ThrottleRow] /\ refused \in [ThrottleKeys -> Nat]
    /\ att \in [Attempts -> AttemptRow]
    /\ \A a \in Attempts : AttemptOK(att[a])
    /\ \A k \in ThrottleKeys : RowOK(k)

LEMMA ThrottleConstants ==
    /\ FailureLimit \in Nat /\ FailureLimit > 0 /\ SourceLimit \in Nat /\ SourceLimit > 0
    /\ Window \in Nat /\ Window > 0 /\ BackoffMax \in Nat /\ BackoffBase \in 1 .. BackoffMax /\ BackoffMax < Half
    /\ MaxTime \in Nat
BY ThrottleAssumption

LEMMA LimitFacts == \A k \in ThrottleKeys : Limit(k) \in Nat /\ Limit(k) > 0
BY ThrottleConstants DEF Limit

LEMMA ThrottleInductiveIsEnough == ThrottleInductive => ThrottleInvariant
BY DEF ThrottleInductive, ThrottleInvariant, ThrottleTypeOK, RefusalsBounded, RowOK, AttemptRow, ThrottleRow, ThrottleSteps

LEMMA NoRowFacts == NoRow \in ThrottleRow /\ NoRow.count = 0 /\ NoRow.blocked = 0 /\ NoRow.updated = 0
BY ThrottleConstants DEF NoRow, ThrottleRow

LEMMA NoAttFacts == NoAtt \in AttemptRow /\ NoAtt.step = "idle" /\ NoAtt.now = 0
BY ThrottleConstants DEF NoAtt, AttemptRow, ThrottleSteps

LEMMA ThrottleStarts == ThrottleInit => ThrottleInductive
<1> SUFFICES ASSUME ThrottleInit PROVE ThrottleInductive
    OBVIOUS
<1>1. \A a \in Attempts : AttemptOK(att[a])
  BY NoAttFacts DEF ThrottleInit, AttemptOK
<1>2. \A k \in ThrottleKeys : RowOK(k)
  BY NoRowFacts, LimitFacts, ThrottleConstants DEF ThrottleInit, RowOK
<1> QED BY <1>1, <1>2, NoRowFacts, NoAttFacts, ThrottleConstants DEF ThrottleInit, ThrottleInductive

\* An attempt moves on, or has been answered, and no row changes.
LEMMA AttemptMoves ==
    ASSUME ThrottleInductive, UNCHANGED <<clock, rows, refused>>, NEW a \in Attempts, NEW x,
           att' = [att EXCEPT ![a] = x], AttemptOK(x)
    PROVE  ThrottleInductive'
<1>1. att' \in [Attempts -> AttemptRow] /\ \A b \in Attempts : AttemptOK(att'[b])
  BY DEF ThrottleInductive, AttemptOK
<1>2. \A b \in Attempts : AttemptOK(att[b])'
  BY <1>1 DEF AttemptOK
<1>3. \A k \in ThrottleKeys : RowOK(k)'
  BY DEF ThrottleInductive, RowOK
<1> QED BY <1>1, <1>2, <1>3 DEF ThrottleInductive

LEMMA AnsweredOK == ThrottleInductive => AttemptOK(NoAtt)
BY NoAttFacts DEF ThrottleInductive, AttemptOK

LEMMA SteppedOK ==
    ASSUME ThrottleInductive, NEW a \in Attempts, att[a].step # "idle", NEW step \in ThrottleSteps
    PROVE  /\ AttemptOK([att[a] EXCEPT !.step = step])
           /\ StepTo(a, step) => att' = [att EXCEPT ![a] = [att[a] EXCEPT !.step = step]]
<1>1. att[a] \in AttemptRow /\ AttemptOK(att[a])
  BY DEF ThrottleInductive
<1>2. PICK x : x = [att[a] EXCEPT !.step = step]
  OBVIOUS
<1>3. x \in AttemptRow /\ x.principal = att[a].principal /\ x.source = att[a].source /\ x.now = att[a].now
  BY <1>1, <1>2 DEF AttemptRow
<1>4. AttemptOK(x)
  BY <1>1, <1>3 DEF AttemptOK
<1> QED BY <1>2, <1>4 DEF StepTo, ThrottleInductive

\* The attempt is at the step its operation asks for.
LEMMA StepKeeps ==
    ASSUME ThrottleInductive, UNCHANGED <<clock, rows, refused>>, NEW a \in Attempts, att[a].step # "idle",
           NEW step \in ThrottleSteps, StepTo(a, step) \/ Answered(a)
    PROVE  ThrottleInductive'
<1>1. CASE Answered(a)
  <2>1. att' = [att EXCEPT ![a] = NoAtt]
    BY <1>1 DEF Answered
  <2> QED BY <2>1, AnsweredOK, AttemptMoves
<1>2. CASE StepTo(a, step)
  <2>1. PICK x : x = [att[a] EXCEPT !.step = step]
    OBVIOUS
  <2>2. AttemptOK(x) /\ att' = [att EXCEPT ![a] = x]
    BY <1>2, <2>1, SteppedOK
  <2> QED BY <2>2, AttemptMoves
<1> QED BY <1>1, <1>2

LEMMA BeginKeeps ==
    ASSUME ThrottleInductive, NEW a \in Attempts, NEW p \in Principals, NEW src \in Sources, Begin(a, p, src)
    PROVE  ThrottleInductive'
<1>1. UNCHANGED <<clock, rows, refused>>
  BY DEF Begin
<1>2. PICK x : x = [step |-> "check", principal |-> p, source |-> src, now |-> clock]
  OBVIOUS
<1>3. AttemptOK(x)
  <2>1. clock \in 0 .. MaxTime /\ MaxTime \in Nat
    BY ThrottleConstants DEF ThrottleInductive
  <2>2. x \in AttemptRow /\ x.now = clock /\ x.principal = p /\ x.source = src
    BY <1>2, <2>1 DEF AttemptRow, ThrottleSteps
  <2> QED BY <2>1, <2>2 DEF AttemptOK
<1>4. att' = [att EXCEPT ![a] = NoAtt] \/ att' = [att EXCEPT ![a] = x]
  BY <1>2 DEF Begin, Answered
<1> QED BY <1>1, <1>3, <1>4, AnsweredOK, AttemptMoves

LEMMA SmallStepKeeps ==
    ASSUME ThrottleInductive, NEW a \in Attempts,
           \/ CheckSource(a) \/ RecordSuccessFails(a) \/ LockPrincipalRow(a) \/ LockSourceRow(a) \/ Rollback(a)
           \/ \E ok \in BOOLEAN : VerifyPassword(a, ok)
    PROVE  ThrottleInductive'
<1>1. /\ UNCHANGED <<clock, rows, refused>> /\ att[a].step # "idle"
      /\ \E step \in ThrottleSteps : StepTo(a, step) \/ Answered(a)
  BY DEF CheckSource, RecordSuccessFails, LockPrincipalRow, LockSourceRow, Rollback, InFailure, VerifyPassword, ThrottleSteps
<1> QED BY <1>1, StepKeeps

\* The keys of an attempt under way are keys of rows.
LEMMA KeyFacts ==
    ASSUME ThrottleInductive, NEW a \in Attempts, att[a].step # "idle"
    PROVE  /\ PrincipalKey(a) \in ThrottleKeys /\ SourceKey(a) \in ThrottleKeys /\ KeysOf(a) \subseteq ThrottleKeys
           /\ att[a].now \in 0 .. MaxTime /\ att[a].now <= clock
BY DEF ThrottleInductive, AttemptOK, AttemptRow, PrincipalKey, SourceKey, KeysOf, ThrottleKeys

\* A step that answers an attempt and sets rows.
LEMMA RowsMove ==
    ASSUME ThrottleInductive, clock' = clock,
           \/ att' = att
           \/ \E a \in Attempts : att' = [att EXCEPT ![a] = NoAtt],
           rows' \in [ThrottleKeys -> ThrottleRow], refused' \in [ThrottleKeys -> Nat],
           \A k \in ThrottleKeys : RowOK(k)'
    PROVE  ThrottleInductive'
<1>1. att' \in [Attempts -> AttemptRow] /\ \A b \in Attempts : AttemptOK(att'[b])
  BY NoAttFacts, AnsweredOK DEF ThrottleInductive
<1>2. \A b \in Attempts : AttemptOK(att[b])'
  BY <1>1 DEF AttemptOK
<1> QED BY <1>1, <1>2 DEF ThrottleInductive

\* A row that has gone, with its refusals.
LEMMA GoneOK ==
    ASSUME NEW k \in ThrottleKeys, rows'[k] = NoRow, refused'[k] = 0
    PROVE  RowOK(k)'
BY NoRowFacts, LimitFacts, ThrottleConstants DEF RowOK, Limit

LEMMA RecordSuccessKeeps ==
    ASSUME ThrottleInductive, NEW a \in Attempts, RecordSuccess(a)
    PROVE  ThrottleInductive'
<1>1. PICK key \in ThrottleKeys : key = PrincipalKey(a)
  BY KeyFacts DEF RecordSuccess
<1>2. /\ rows' = [rows EXCEPT ![key] = NoRow] /\ refused' = [refused EXCEPT ![key] = 0]
      /\ clock' = clock /\ att' = [att EXCEPT ![a] = NoAtt]
  BY <1>1 DEF RecordSuccess, Answered
<1>3. rows' \in [ThrottleKeys -> ThrottleRow] /\ refused' \in [ThrottleKeys -> Nat]
  BY <1>2, NoRowFacts DEF ThrottleInductive
<1>4. \A k \in ThrottleKeys : RowOK(k)'
  <2> SUFFICES ASSUME NEW k \in ThrottleKeys PROVE RowOK(k)'
      OBVIOUS
  <2>1. CASE k = key
    BY <1>2, <2>1, GoneOK DEF ThrottleInductive
  <2>2. CASE k # key
    <3>1. rows'[k] = rows[k] /\ refused'[k] = refused[k]
      BY <1>2, <2>2 DEF ThrottleInductive
    <3> QED BY <3>1 DEF RowOK, ThrottleInductive, Limit
  <2> QED BY <2>1, <2>2
<1> QED BY <1>2, <1>3, <1>4, RowsMove

LEMMA CleanUpKeeps ==
    ASSUME ThrottleInductive, CleanUp
    PROVE  ThrottleInductive'
<1>1. /\ rows' = [k \in ThrottleKeys |-> IF k \in Outdated THEN NoRow ELSE rows[k]]
      /\ refused' = [k \in ThrottleKeys |-> IF k \in Outdated THEN 0 ELSE refused[k]]
      /\ clock' = clock /\ att' = att
  BY DEF CleanUp
<1>2. rows' \in [ThrottleKeys -> ThrottleRow] /\ refused' \in [ThrottleKeys -> Nat]
  BY <1>1, NoRowFacts DEF ThrottleInductive
<1>3. \A k \in ThrottleKeys : RowOK(k)'
  <2> SUFFICES ASSUME NEW k \in ThrottleKeys PROVE RowOK(k)'
      OBVIOUS
  <2>1. CASE k \in Outdated
    BY <1>1, <2>1, GoneOK
  <2>2. CASE k \notin Outdated
    <3>1. rows'[k] = rows[k] /\ refused'[k] = refused[k]
      BY <1>1, <2>2
    <3> QED BY <3>1 DEF RowOK, ThrottleInductive, Limit
  <2> QED BY <2>1, <2>2
<1> QED BY <1>1, <1>2, <1>3, RowsMove

\* The row that a failure leaves, and the refusals its key has given by then.
LEMMA FailureRowFacts ==
    ASSUME ThrottleInductive, NEW k \in ThrottleKeys, NEW now \in 0 .. MaxTime
    PROVE  /\ FailureRow(k, now) \in ThrottleRow
           /\ FailureRow(k, now).count = Counted(k, now)
           /\ FailureRow(k, now).blocked <= FailureRow(k, now).updated + BackoffMax
           /\ Counted(k, now) \in Nat /\ Counted(k, now) = (IF Restarts(k, now) THEN 1 ELSE rows[k].count + 1)
           /\ Backoff(k, now) = 0 <=> Counted(k, now) < Limit(k)
<1>1. rows[k] \in ThrottleRow
  BY DEF ThrottleInductive
<1>2. Counted(k, now) \in Nat /\ Counted(k, now) = (IF Restarts(k, now) THEN 1 ELSE rows[k].count + 1)
  BY <1>1 DEF Counted, ThrottleRow
<1>3. PICK n \in Nat : n = Counted(k, now)
  BY <1>2
<1>4. PICK b : b = Backoff(k, now)
  OBVIOUS
<1>5. b \in 0 .. BackoffMax /\ (b = 0 <=> n < Limit(k))
  <2>1. PICK limit \in Nat : limit = Limit(k)
    BY LimitFacts
  <2>2. b = LoginBackoff(n, limit, BackoffBase, BackoffMax)
    BY <1>3, <1>4, <2>1 DEF Backoff
  <2>3. IF n < limit THEN b = 0 ELSE b \in 1 .. BackoffMax
    BY <2>2, BackoffValue, ThrottleConstants
  <2> QED BY <2>1, <2>3, ThrottleConstants
<1>6. PICK blocked \in Nat : blocked = (IF b > 0 THEN now + b ELSE 0) /\ blocked <= now + BackoffMax
  BY <1>5, ThrottleConstants
<1>7. PICK row : row = [count |-> n, updated |-> now, blocked |-> blocked]
  OBVIOUS
<1>8. row \in ThrottleRow /\ row.count = n /\ row.blocked <= row.updated + BackoffMax
  BY <1>6, <1>7 DEF ThrottleRow
<1>9. FailureRow(k, now) = row
  BY <1>3, <1>4, <1>6, <1>7 DEF FailureRow
<1> QED BY <1>2, <1>3, <1>4, <1>5, <1>8, <1>9

LEMMA CommitFailureKeeps ==
    ASSUME ThrottleInductive, NEW a \in Attempts, CommitFailure(a)
    PROVE  ThrottleInductive'
<1>1. PICK now \in 0 .. MaxTime : now = att[a].now
  BY KeyFacts DEF CommitFailure
<1>2. PICK answer \in {0, 1} : answer = (IF Refuses(a) THEN 1 ELSE 0)
  OBVIOUS
<1> DEFINE Refusals(k) == (IF Restarts(k, now) THEN 0 ELSE refused[k]) + answer
<1>3. /\ clock' = clock /\ att' = [att EXCEPT ![a] = NoAtt]
      /\ \A k \in ThrottleKeys :
            /\ k \in KeysOf(a) => rows'[k] = FailureRow(k, now) /\ refused'[k] = Refusals(k)
            /\ k \notin KeysOf(a) =>
                  \/ rows'[k] = NoRow /\ refused'[k] = 0
                  \/ rows'[k] = rows[k] /\ refused'[k] = refused[k]
      /\ DOMAIN rows' = ThrottleKeys /\ DOMAIN refused' = ThrottleKeys
  BY <1>1, <1>2 DEF CommitFailure, Answered
<1>4. rows' = [k \in ThrottleKeys |-> rows'[k]] /\ refused' = [k \in ThrottleKeys |-> refused'[k]]
  BY DEF CommitFailure
<1>5. ASSUME NEW k \in ThrottleKeys
      PROVE  rows'[k] \in ThrottleRow /\ refused'[k] \in Nat /\ RowOK(k)'
  <2>0. rows[k] \in ThrottleRow /\ refused[k] \in Nat /\ RowOK(k) /\ rows[k].count \in Nat
    BY DEF ThrottleInductive, ThrottleRow
  <2>1. CASE k \in KeysOf(a)
    <3>1. PICK row \in ThrottleRow : row = FailureRow(k, now)
      BY FailureRowFacts
    <3>2. PICK r \in Nat : r = Refusals(k)
      BY <2>0
    <3>3. PICK n \in Nat : n = Counted(k, now)
      BY FailureRowFacts
    <3>4. row.count = n /\ row.blocked <= row.updated + BackoffMax
      BY <3>1, <3>3, FailureRowFacts
    <3>5. answer = 1 => n < Limit(k)
      BY <1>1, <1>2, <2>1, <3>3, FailureRowFacts DEF Refuses
    <3>6. n = IF Restarts(k, now) THEN 1 ELSE rows[k].count + 1
      BY <3>3, FailureRowFacts
    <3>7. r <= n /\ r < Limit(k)
      BY <1>2, <2>0, <3>2, <3>5, <3>6, LimitFacts DEF RowOK
    <3>8. rows'[k] = row /\ refused'[k] = r
      BY <1>3, <2>1, <3>1, <3>2
    <3> QED BY <3>4, <3>7, <3>8 DEF RowOK, Limit
  <2>2. CASE k \notin KeysOf(a) /\ rows'[k] = NoRow /\ refused'[k] = 0
    BY <2>2, GoneOK, NoRowFacts
  <2>3. CASE k \notin KeysOf(a) /\ rows'[k] = rows[k] /\ refused'[k] = refused[k]
    BY <2>0, <2>3 DEF RowOK, Limit
  <2> QED BY <1>3, <2>1, <2>2, <2>3
<1>6. rows' \in [ThrottleKeys -> ThrottleRow] /\ refused' \in [ThrottleKeys -> Nat]
  BY <1>4, <1>5
<1> QED BY <1>3, <1>5, <1>6, RowsMove

LEMMA TickKeeps ==
    ASSUME ThrottleInductive, Tick
    PROVE  ThrottleInductive'
<1>1. clock' = clock + 1 /\ clock' \in 0 .. MaxTime /\ clock \in Nat /\ rows' = rows /\ att' = att /\ refused' = refused
  BY ThrottleConstants DEF Tick, ThrottleInductive
<1>2. \A b \in Attempts : AttemptOK(att[b])'
  BY <1>1, ThrottleConstants DEF ThrottleInductive, AttemptOK, AttemptRow
<1>3. \A k \in ThrottleKeys : RowOK(k)'
  BY <1>1 DEF ThrottleInductive, RowOK, Limit
<1> QED BY <1>1, <1>2, <1>3 DEF ThrottleInductive

LEMMA ThrottleStep == ThrottleInductive /\ [ThrottleNext]_throttleVars => ThrottleInductive'
<1> SUFFICES ASSUME ThrottleInductive, [ThrottleNext]_throttleVars
             PROVE  ThrottleInductive'
    OBVIOUS
<1>1. CASE \E a \in Attempts :
              \/ \E p \in Principals, src \in Sources : Begin(a, p, src)
              \/ Progress(a) \/ RecordSuccessFails(a) \/ Rollback(a)
  BY <1>1, BeginKeeps, SmallStepKeeps, RecordSuccessKeeps, CommitFailureKeeps DEF Progress, DeadlockDetected
<1>2. CASE CleanUp
  BY <1>2, CleanUpKeeps
<1>3. CASE Tick
  BY <1>3, TickKeeps
<1>4. CASE UNCHANGED throttleVars
  BY <1>4 DEF throttleVars, ThrottleInductive, AttemptOK, RowOK, Limit
<1> QED BY <1>1, <1>2, <1>3, <1>4 DEF ThrottleNext

LEMMA ThrottleSafe == ThrottleSpec => []ThrottleInductive
BY ThrottleStarts, ThrottleStep, PTL DEF ThrottleSpec

\* recordLoginFailure: however attempts overlap, a key gives fewer plain refusals
\* than its limit before its count starts again.
THEOREM RefusalsStayBounded == ThrottleSpec => []ThrottleInvariant
BY ThrottleSafe, ThrottleInductiveIsEnough, PTL

\* What lifts a block: nothing, or the answer to an attempt with the same key. A
\* failure prunes rows that are two windows old, so a block must not last longer.
LEMMA BlockLasts ==
    ASSUME ThrottleInductive, BackoffMax <= 2 * Window, [ThrottleNext]_throttleVars,
           NEW k \in ThrottleKeys, Delayed(k, clock), rows'[k] # rows[k]
    PROVE  \E a \in Attempts : k \in KeysOf(a) /\ att[a] # NoAtt /\ att'[a] = NoAtt
<1>0. /\ rows[k].blocked \in Nat /\ rows[k].updated \in Nat /\ clock \in Nat
      /\ rows[k].blocked > clock /\ rows[k].blocked <= rows[k].updated + BackoffMax
  BY ThrottleConstants DEF ThrottleInductive, ThrottleRow, RowOK, Delayed
<1>1. k \notin Outdated
  <2>1. Retention \in Nat /\ Retention >= BackoffMax
    <3> DEFINE S == {Window, BackoffMax}
    <3>1. \E x \in S : \A y \in S : x >= y
      BY ThrottleConstants
    <3>2. Max(S) \in S /\ \A y \in S : Max(S) >= y
      BY <3>1 DEF Max
    <3> QED BY <3>2, ThrottleConstants DEF Retention
  <2> QED BY <1>0, <2>1, ThrottleConstants DEF Outdated
<1>2. \A a \in Attempts : att[a].step = "prune" => k \notin Prunable(a)
  <2> SUFFICES ASSUME NEW a \in Attempts, att[a].step = "prune" PROVE k \notin Prunable(a)
      OBVIOUS
  <2>1. att[a].now \in Nat /\ att[a].now <= clock
    BY KeyFacts, ThrottleConstants
  <2> QED BY <1>0, <2>1, ThrottleConstants DEF Prunable
<1>3. rows' # rows
  OBVIOUS
<1>4. ~CleanUp
  BY <1>1 DEF CleanUp
<1>5. PICK a \in Attempts : RecordSuccess(a) \/ CommitFailure(a)
  BY <1>3, <1>4 DEF ThrottleNext, throttleVars, Begin, Progress, CheckSource, VerifyPassword, LockPrincipalRow, LockSourceRow,
                    DeadlockDetected, Rollback, RecordSuccessFails, Tick
<1>6. att[a] # NoAtt /\ att'[a] = NoAtt
  BY <1>5, NoAttFacts DEF RecordSuccess, CommitFailure, Answered, ThrottleInductive
<1>7. k \in KeysOf(a)
  <2>1. CASE RecordSuccess(a)
    BY <2>1 DEF RecordSuccess, KeysOf, ThrottleInductive
  <2>2. CASE CommitFailure(a)
    BY <1>2, <2>2 DEF CommitFailure
  <2> QED BY <1>5, <2>1, <2>2
<1> QED BY <1>6, <1>7

\* recordLoginFailure, CleanupRetention: neither pruning nor the retention job lifts
\* the running block of somebody else, where no block lasts longer than two windows.
THEOREM BlocksOutlastPruning == BackoffMax <= 2 * Window => (ThrottleSpec => BlocksLast)
<1> SUFFICES ASSUME BackoffMax <= 2 * Window PROVE ThrottleSpec => BlocksLast
    OBVIOUS
<1>1. ThrottleInductive /\ [ThrottleNext]_throttleVars =>
          [\A k \in ThrottleKeys :
              Delayed(k, clock) /\ rows'[k] # rows[k] =>
                  \E a \in Attempts : k \in KeysOf(a) /\ att[a] # NoAtt /\ att'[a] = NoAtt]_throttleVars
  BY BlockLasts
<1> QED BY <1>1, ThrottleSafe, PTL DEF ThrottleSpec, BlocksLast

\* What holds the powers of two.
HoldsPowers(f, n) == f = [i \in 0 .. n |-> IF i = 0 THEN 1 ELSE 2 * f[i - 1]]

LEMMA PowersExist ==
    ASSUME NEW n \in Nat
    PROVE  \E f : HoldsPowers(f, n) /\ PowerOfTwo(n) = f[n] /\ \A i \in 0 .. n : f[i] \in Nat \ {0}
<1> DEFINE Good(f, m) == \A i \in 0 .. m : f[i] = IF i = 0 THEN 1 ELSE 2 * f[i - 1]
           T == {m \in Nat : ~\E f \in [0 .. m -> Nat \ {0}] : Good(f, m)}
<1>1. T = {}
  <2> SUFFICES ASSUME T # {} PROVE FALSE
      OBVIOUS
  <2>1. PICK x \in T : \A y \in T : x <= y
    BY LeastExists
  <2>2. x \in Nat /\ ~\E f \in [0 .. x -> Nat \ {0}] : Good(f, x)
    OBVIOUS
  <2>3. CASE x = 0
    <3> DEFINE f == [i \in 0 .. 0 |-> 1]
    <3>1. f \in [0 .. x -> Nat \ {0}] /\ Good(f, x)
      BY <2>3
    <3> QED BY <2>2, <3>1
  <2>4. CASE x > 0
    <3>1. x - 1 \in Nat /\ x - 1 \notin T
      <4> HIDE DEF T
      <4>1. x - 1 \in Nat /\ ~(x <= x - 1)
        BY <2>2, <2>4
      <4> QED BY <2>1, <4>1
    <3>2. PICK f \in [0 .. x - 1 -> Nat \ {0}] : Good(f, x - 1)
      BY <3>1
    <3>3. PICK last \in Nat \ {0} : last = 2 * f[x - 1]
      <4>1. f[x - 1] \in Nat \ {0}
        BY <3>1, <3>2
      <4> QED BY <4>1
    <3> DEFINE g == [i \in 0 .. x |-> IF i = x THEN last ELSE f[i]]
    <3>4. g \in [0 .. x -> Nat \ {0}]
      BY <3>1, <3>2, <3>3
    <3>5. \A i \in 0 .. x - 1 : g[i] = f[i]
      BY <3>1, <3>2
    <3>6. g[x] = last
      BY <2>2
    <3> HIDE DEF g
    <3>7. Good(g, x)
      <4> SUFFICES ASSUME NEW i \in 0 .. x
                   PROVE  g[i] = IF i = 0 THEN 1 ELSE 2 * g[i - 1]
          OBVIOUS
      <4>1. CASE i = x
        <5>1. g[x - 1] = f[x - 1] /\ x # 0
          BY <2>4, <3>1, <3>5
        <5> QED BY <3>3, <3>6, <4>1, <5>1
      <4>2. CASE i # x
        <5>1. i \in 0 .. x - 1 /\ (i # 0 => i - 1 \in 0 .. x - 1)
          BY <2>2, <3>1, <4>2
        <5> QED BY <3>2, <3>5, <5>1
      <4> QED BY <4>1, <4>2
    <3> QED BY <2>2, <3>4, <3>7
  <2> QED BY <2>2, <2>3, <2>4
<1>2. PICK f \in [0 .. n -> Nat \ {0}] : Good(f, n)
  BY <1>1
<1>3. HoldsPowers(f, n)
  BY <1>2 DEF HoldsPowers
<1>4. PICK p : p = CHOOSE g : HoldsPowers(g, n)
  OBVIOUS
<1>5. HoldsPowers(p, n) /\ PowerOfTwo(n) = p[n]
  BY <1>3, <1>4 DEF PowerOfTwo, HoldsPowers
<1>6. \A i \in 0 .. n : p[i] = IF i = 0 THEN 1 ELSE 2 * p[i - 1]
  BY <1>5 DEF HoldsPowers
<1> DEFINE U == {i \in 0 .. n : p[i] \notin Nat \ {0}}
<1>7. U = {}
  <2> SUFFICES ASSUME U # {} PROVE FALSE
      OBVIOUS
  <2>0. U \in SUBSET Nat
    OBVIOUS
  <2>1. PICK x \in U : \A y \in U : x <= y
    BY <2>0, LeastExists
  <2>2. x \in 0 .. n /\ p[x] \notin Nat \ {0}
    OBVIOUS
  <2>3. x # 0
    BY <1>6, <2>2
  <2>4. x - 1 \in 0 .. n /\ ~(x <= x - 1)
    BY <2>2, <2>3
  <2>5. p[x - 1] \in Nat \ {0}
    BY <2>1, <2>4
  <2>6. p[x] = 2 * p[x - 1]
    BY <1>6, <2>2, <2>3
  <2> HIDE DEF U
  <2> QED BY <2>2, <2>5, <2>6
<1> QED BY <1>5, <1>7

\* loginBackoff cuts the doubled base at the maximum.
LEMMA BackoffIsExact ==
    ASSUME NEW strikes \in Nat, NEW limit \in Nat, ~(strikes < limit), NEW maximum \in Nat, maximum < Half, NEW base \in 1 .. maximum
    PROVE  /\ PowerOfTwo(strikes - limit) \in Nat
           /\ LoginBackoff(strikes, limit, base, maximum) =
                  IF base * PowerOfTwo(strikes - limit) > maximum THEN maximum ELSE base * PowerOfTwo(strikes - limit)
<1>1. PICK n \in Nat : n = strikes - limit
  OBVIOUS
<1>2. PICK p : HoldsPowers(p, n) /\ PowerOfTwo(n) = p[n] /\ \A i \in 0 .. n : p[i] \in Nat \ {0}
  BY PowersExist
<1>3. PICK f : f = Delays(n, base, maximum)
  OBVIOUS
<1>4. HoldsDelays(f, n, base, maximum)
  BY <1>3, DelaysExist
<1>5. \A i \in 0 .. n : f[i] = IF i = 0 THEN base ELSE Doubled(f[i - 1], maximum)
  BY <1>4 DEF HoldsDelays
<1>6. \A i \in 0 .. n : p[i] = IF i = 0 THEN 1 ELSE 2 * p[i - 1]
  BY <1>2 DEF HoldsPowers
<1> DEFINE Cut(v) == IF v > maximum THEN maximum ELSE v
           U == {i \in 0 .. n : f[i] # Cut(base * p[i])}
<1>7. U = {}
  <2> SUFFICES ASSUME U # {} PROVE FALSE
      OBVIOUS
  <2>0. U \in SUBSET Nat
    OBVIOUS
  <2>1. PICK x \in U : \A y \in U : x <= y
    BY <2>0, LeastExists
  <2>2. x \in 0 .. n /\ f[x] # Cut(base * p[x])
    OBVIOUS
  <2>3. x # 0
    <3>1. f[0] = base /\ p[0] = 1
      BY <1>1, <1>5, <1>6
    <3> QED BY <2>2, <3>1
  <2>4. x - 1 \in 0 .. n /\ ~(x <= x - 1)
    BY <2>2, <2>3
  <2>5. f[x - 1] = Cut(base * p[x - 1])
    BY <2>1, <2>4
  <2>6. PICK q \in Nat \ {0} : q = p[x - 1] /\ p[x] = 2 * q
    BY <1>2, <1>6, <2>2, <2>3, <2>4
  <2>7. PICK v \in Nat \ {0} : v = base * q
    OBVIOUS
  <2>8. base * p[x] = 2 * v
    BY <2>6, <2>7
  <2>9. PICK d \in 1 .. maximum : d = f[x - 1] /\ d = Cut(v)
    BY <2>5, <2>6, <2>7
  <2>10. f[x] = IF 2 * d > maximum THEN maximum ELSE 2 * d
    BY <1>5, <2>2, <2>3, <2>9, DoubledIsDelay
  <2> QED BY <2>2, <2>8, <2>9, <2>10
<1>8. f[n] = Cut(base * p[n]) /\ p[n] \in Nat \ {0}
  BY <1>1, <1>2, <1>7
<1>9. LoginBackoff(strikes, limit, base, maximum) = IF f[n] > maximum THEN maximum ELSE f[n]
  BY <1>1, <1>3 DEF LoginBackoff
<1> QED BY <1>1, <1>2, <1>8, <1>9

\* The walk over the forwarded chain, entry by entry.
HoldsWalk(f, peer, chain) ==
    f = [i \in 0 .. Len(chain) |->
            IF i = 0 THEN chain[1]
            ELSE IF chain[i] = Garbage THEN peer
            ELSE IF chain[i] \notin Trusted THEN chain[i]
            ELSE f[i - 1]]

LEMMA WalkExists ==
    ASSUME NEW peer, NEW E, NEW chain \in Seq(E), chain # <<>>
    PROVE  \E f : HoldsWalk(f, peer, chain) /\ Walk(peer, chain) = f[Len(chain)]
<1>0. Len(chain) \in Nat /\ \A i \in 1 .. Len(chain) : chain[i] \in E
  OBVIOUS
<1>e. chain[1] \in E
  BY <1>0
<1> DEFINE V == E \cup {peer}
           Entry(f, i) == IF i = 0 THEN chain[1]
                          ELSE IF chain[i] = Garbage THEN peer
                          ELSE IF chain[i] \notin Trusted THEN chain[i]
                          ELSE f[i - 1]
           Good(f, m) == \A i \in 0 .. m : f[i] = Entry(f, i)
           T == {m \in 0 .. Len(chain) : ~\E f \in [0 .. m -> V] : Good(f, m)}
<1>1. T = {}
  <2> SUFFICES ASSUME T # {} PROVE FALSE
      OBVIOUS
  <2>0. T \in SUBSET Nat
    BY <1>0
  <2>1. PICK x \in T : \A y \in T : x <= y
    BY <2>0, LeastExists
  <2>2. x \in 0 .. Len(chain) /\ ~\E f \in [0 .. x -> V] : Good(f, x)
    OBVIOUS
  <2>3. CASE x = 0
    <3> DEFINE f == [i \in 0 .. 0 |-> chain[1]]
    <3>1. f \in [0 .. x -> V] /\ Good(f, x)
      BY <1>e, <2>3
    <3> QED BY <2>2, <3>1
  <2>4. CASE x > 0
    <3>1. x - 1 \in 0 .. Len(chain) /\ x - 1 \notin T
      <4> HIDE DEF T
      <4>1. x - 1 \in 0 .. Len(chain) /\ ~(x <= x - 1)
        BY <1>0, <2>2, <2>4
      <4> QED BY <2>1, <4>1
    <3>2. PICK f \in [0 .. x - 1 -> V] : Good(f, x - 1)
      BY <3>1
    <3>3. PICK last \in V : last = Entry(f, x)
      <4>1. f[x - 1] \in V /\ chain[x] \in E
        BY <1>0, <2>2, <2>4, <3>1, <3>2
      <4> QED BY <2>4, <4>1
    <3> DEFINE g == [i \in 0 .. x |-> IF i = x THEN last ELSE f[i]]
    <3>4. g \in [0 .. x -> V]
      BY <3>1, <3>2, <3>3
    <3>5. \A i \in 0 .. x - 1 : g[i] = f[i]
      BY <3>1, <3>2
    <3>6. g[x] = last
      BY <2>2
    <3> HIDE DEF g
    <3>7. Good(g, x)
      <4> SUFFICES ASSUME NEW i \in 0 .. x PROVE g[i] = Entry(g, i)
          OBVIOUS
      <4>1. CASE i = x
        <5>1. g[x - 1] = f[x - 1] /\ x # 0
          BY <2>4, <3>1, <3>5
        <5> QED BY <3>3, <3>6, <4>1, <5>1
      <4>2. CASE i # x
        <5>1. i \in 0 .. x - 1 /\ (i # 0 => i - 1 \in 0 .. x - 1)
          BY <2>2, <3>1, <4>2
        <5> QED BY <3>2, <3>5, <5>1
      <4> QED BY <4>1, <4>2
    <3> QED BY <2>2, <3>4, <3>7
  <2> QED BY <1>0, <2>2, <2>3, <2>4
<1>2. PICK f \in [0 .. Len(chain) -> V] : Good(f, Len(chain))
  BY <1>0, <1>1
<1>3. HoldsWalk(f, peer, chain)
  BY <1>2 DEF HoldsWalk
<1>4. Walk(peer, chain) = (CHOOSE g : HoldsWalk(g, peer, chain))[Len(chain)]
  BY DEF Walk, HoldsWalk
<1> QED BY <1>3, <1>4

\* loginSource stops at the nearest hop that is no trusted proxy.
LEMMA WalkStopsOutside ==
    ASSUME NEW peer, NEW E, NEW chain \in Seq(E), chain # <<>>
    PROVE  /\ \A h \in 1 .. Len(chain) :
                  chain[h] \notin Trusted /\ (\A j \in h + 1 .. Len(chain) : chain[j] \in Trusted) =>
                      Walk(peer, chain) = IF chain[h] = Garbage THEN peer ELSE chain[h]
           /\ (\A j \in 1 .. Len(chain) : chain[j] \in Trusted) => Walk(peer, chain) = chain[1]
<1>0. Garbage \notin Trusted /\ Len(chain) \in Nat
  BY PolicyAssumption
<1>1. PICK f : HoldsWalk(f, peer, chain) /\ Walk(peer, chain) = f[Len(chain)]
  BY WalkExists
<1>2. \A i \in 0 .. Len(chain) :
          f[i] = IF i = 0 THEN chain[1]
                 ELSE IF chain[i] = Garbage THEN peer
                 ELSE IF chain[i] \notin Trusted THEN chain[i]
                 ELSE f[i - 1]
  BY <1>1 DEF HoldsWalk
<1>3. ASSUME NEW h \in 1 .. Len(chain), chain[h] \notin Trusted, \A j \in h + 1 .. Len(chain) : chain[j] \in Trusted
      PROVE  f[Len(chain)] = IF chain[h] = Garbage THEN peer ELSE chain[h]
  <2> DEFINE U == {i \in h .. Len(chain) : f[i] # f[h]}
  <2>1. U = {}
    <3> SUFFICES ASSUME U # {} PROVE FALSE
        OBVIOUS
    <3>0. U \in SUBSET Nat
      BY <1>0
    <3>1. PICK x \in U : \A y \in U : x <= y
      BY <3>0, LeastExists
    <3>2. x \in h .. Len(chain) /\ f[x] # f[h] /\ x # h
      OBVIOUS
    <3>3. x - 1 \in h .. Len(chain) /\ ~(x <= x - 1) /\ x \in h + 1 .. Len(chain) /\ x \in 0 .. Len(chain) /\ x # 0
      BY <1>0, <3>2
    <3>4. f[x - 1] = f[h]
      BY <3>1, <3>3
    <3>5. chain[x] \in Trusted
      BY <1>3, <3>3
    <3> QED BY <1>0, <1>2, <3>2, <3>3, <3>4, <3>5
  <2>2. f[Len(chain)] = f[h]
    BY <1>0, <2>1
  <2>3. f[h] = IF chain[h] = Garbage THEN peer ELSE chain[h]
    BY <1>0, <1>2, <1>3
  <2> QED BY <2>2, <2>3
<1>4. ASSUME \A j \in 1 .. Len(chain) : chain[j] \in Trusted
      PROVE  f[Len(chain)] = chain[1]
  <2> DEFINE U == {i \in 0 .. Len(chain) : f[i] # chain[1]}
  <2>1. U = {}
    <3> SUFFICES ASSUME U # {} PROVE FALSE
        OBVIOUS
    <3>0. U \in SUBSET Nat
      BY <1>0
    <3>1. PICK x \in U : \A y \in U : x <= y
      BY <3>0, LeastExists
    <3>2. x \in 0 .. Len(chain) /\ f[x] # chain[1] /\ x # 0
      BY <1>0, <1>2
    <3>3. x - 1 \in 0 .. Len(chain) /\ ~(x <= x - 1) /\ x \in 1 .. Len(chain)
      BY <1>0, <3>2
    <3>4. f[x - 1] = chain[1]
      BY <3>1, <3>3
    <3>5. chain[x] \in Trusted
      BY <1>4, <3>3
    <3> QED BY <1>0, <1>2, <3>2, <3>3, <3>4, <3>5
  <2> QED BY <1>0, <2>1
<1> QED BY <1>1, <1>3, <1>4

LEMMA GreatestExists ==
    ASSUME NEW n \in Nat, NEW S \in SUBSET (1 .. n), S # {}
    PROVE  \E x \in S : \A y \in S : x >= y
<1> DEFINE T == {n - x : x \in S}
<1>0. \A x \in S : n - x \in Nat
  OBVIOUS
<1>1. T \in SUBSET Nat /\ T # {}
  BY <1>0
<1>2. PICK t \in T : \A u \in T : t <= u
  BY <1>1, LeastExists
<1>3. PICK x \in S : t = n - x
  BY <1>2
<1>4. ASSUME NEW y \in S PROVE x >= y
  <2>1. n - x <= n - y
    BY <1>2, <1>3
  <2> QED BY <2>1
<1> QED BY <1>4

\* retryAfterSeconds rounds up.
LEMMA RetryIsRoundedUp ==
    ASSUME NEW d \in Nat, d > 0, d + Second - 1 < Half
    PROVE  \E q \in Nat : /\ q > 0 /\ RetryAfterSeconds(d) = q /\ q * Second >= d /\ q <= d
                          /\ \A n \in Nat : n * Second >= d => n >= q
<1>0. PICK s \in Nat : s = Second /\ s > 0
  BY PolicyAssumption
<1>1. PICK x \in Nat : x = d + s - 1
  BY <1>0
<1>2. Wrap(x) = x
  BY <1>0, <1>1, WrapIsIdentity
<1>3. PICK q \in Int, r \in Int : q = x \div s /\ x = s * q + r /\ 0 <= r /\ r < s
  BY <1>0, <1>1
<1>4. s * q >= d /\ s * q <= d + s - 1
  BY <1>0, <1>1, <1>3
<1>5. q > 0
  BY <1>0, <1>4
<1>6. q <= d
  BY <1>0, <1>4, <1>5
<1>7. ASSUME NEW n \in Nat, n * s >= d PROVE n >= q
  <2> SUFFICES ASSUME n <= q - 1 PROVE FALSE
      OBVIOUS
  <2>1. n * s <= (q - 1) * s
    BY <1>0
  <2>2. (q - 1) * s = s * q - s
    BY <1>0
  <2> QED BY <1>0, <1>4, <1>7, <2>1, <2>2
<1>8. RetryAfterSeconds(d) = Max({q, 1})
  BY <1>0, <1>1, <1>2, <1>3 DEF RetryAfterSeconds
<1>9. Max({q, 1}) = q
  <2>1. \E y \in {q, 1} : \A z \in {q, 1} : y >= z
    BY <1>5
  <2>2. Max({q, 1}) \in {q, 1} /\ \A z \in {q, 1} : Max({q, 1}) >= z
    BY <2>1 DEF Max
  <2> QED BY <1>5, <2>2
<1> QED BY <1>0, <1>4, <1>5, <1>6, <1>7, <1>8, <1>9

LEMMA BackoffInputs == input \in {i \in Inputs : AcceptedInput(i)} => BackoffDoubles
<1> SUFFICES ASSUME input \in Inputs, AcceptedInput(input), input.kind = "backoff" PROVE BackoffDoubles
    BY DEF BackoffDoubles
<1>1. input \in [kind : {"backoff"}, count : 1 .. MaxFailures, limit : 1 .. MaxFailures, base : 1 .. MaxDelay, maximum : 1 .. MaxDelay]
  BY DEF Inputs
<1>2. PICK c \in Nat, l \in Nat, m \in Nat, b \in Nat :
          /\ c = input.count /\ l = input.limit /\ m = input.maximum /\ b = input.base
          /\ m < Half /\ b \in 1 .. m
  <2>1. input.maximum >= input.base
    BY DEF AcceptedInput
  <2> QED BY <1>1, <2>1, InputsAssumption, HalfFacts
<1>3. CASE c < l
  BY <1>2, <1>3 DEF BackoffDoubles, LoginBackoff
<1>4. CASE ~(c < l)
  <2>0. PICK w \in Nat :
            /\ w = PowerOfTwo(c - l)
            /\ LoginBackoff(c, l, b, m) = IF b * w > m THEN m ELSE b * w
    <3>1. m < Half /\ b \in 1 .. m
      BY <1>2
    <3>2. /\ PowerOfTwo(c - l) \in Nat
          /\ LoginBackoff(c, l, b, m) = IF b * PowerOfTwo(c - l) > m THEN m ELSE b * PowerOfTwo(c - l)
      BY <1>4, <3>1, BackoffIsExact
    <3> QED BY <3>2
  <2>1. PICK v \in Nat : v = b * w
    OBVIOUS
  <2>2. LoginBackoff(c, l, b, m) = IF v > m THEN m ELSE v
    BY <2>0, <2>1
  <2>3. Min({v, m}) = IF v > m THEN m ELSE v
    <3>1. \E y \in {v, m} : \A z \in {v, m} : y <= z
      OBVIOUS
    <3>2. Min({v, m}) \in {v, m} /\ \A z \in {v, m} : Min({v, m}) <= z
      BY <3>1 DEF Min
    <3> QED BY <3>2
  <2> QED BY <1>2, <1>4, <2>0, <2>1, <2>2, <2>3 DEF BackoffDoubles
<1> QED BY <1>3, <1>4

LEMMA SourceInputs == input \in {i \in Inputs : AcceptedInput(i)} => SourceIsNearestOutsider
<1> SUFFICES ASSUME input \in Inputs, input.kind = "source", input.peer \in Trusted, input.chain # <<>>
             PROVE  SourceIsNearestOutsider
    BY DEF SourceIsNearestOutsider
<1>0. Garbage \notin Trusted /\ input.peer # Garbage
  BY PolicyAssumption
<1>1. PICK n \in 0 .. MaxHops : input.chain \in [1 .. n -> Entries]
  BY DEF Inputs
<1>2. PICK chain \in Seq(Entries) : chain = input.chain /\ Len(chain) = n /\ chain # <<>> /\ n \in Nat /\ DOMAIN chain = 1 .. n
  BY <1>1, InputsAssumption
<1>3. LoginSource(input.peer, chain) = Walk(input.peer, chain)
  BY <1>0, <1>2 DEF LoginSource
<1> DEFINE outside == {i \in DOMAIN chain : chain[i] \notin Trusted}
           hop == IF outside = {} THEN 1 ELSE Max(outside)
           answer == IF chain[hop] = Garbage THEN input.peer ELSE chain[hop]
<1>4. Walk(input.peer, chain) = answer
  <2>1. CASE outside = {}
    <3>1. \A j \in 1 .. Len(chain) : chain[j] \in Trusted
      BY <1>2, <2>1
    <3>2. Walk(input.peer, chain) = chain[1]
      BY <1>2, <3>1, WalkStopsOutside
    <3>3. chain[1] # Garbage
      BY <1>0, <1>2, <3>1
    <3> QED BY <2>1, <3>2, <3>3
  <2>2. CASE outside # {}
    <3>1. \E x \in outside : \A y \in outside : x >= y
      <4>1. outside \in SUBSET (1 .. n)
        BY <1>2
      <4> HIDE DEF outside
      <4> QED BY <1>2, <2>2, <4>1, GreatestExists
    <3>2. hop \in outside /\ \A y \in outside : hop >= y
      BY <2>2, <3>1 DEF Max
    <3>3. hop \in 1 .. Len(chain) /\ chain[hop] \notin Trusted
      BY <1>2, <3>2
    <3>4. \A j \in hop + 1 .. Len(chain) : chain[j] \in Trusted
      <4> SUFFICES ASSUME NEW j \in hop + 1 .. Len(chain), chain[j] \notin Trusted PROVE FALSE
          OBVIOUS
      <4>0. j \in 1 .. n /\ ~(hop >= j)
        BY <1>2, <3>3
      <4>1. j \in outside
        BY <1>2, <4>0
      <4> QED BY <3>2, <4>0, <4>1
    <3> HIDE DEF hop, outside
    <3>5. Walk(input.peer, chain) = IF chain[hop] = Garbage THEN input.peer ELSE chain[hop]
      BY <1>2, <3>3, <3>4, WalkStopsOutside
    <3> QED BY <3>5
  <2> QED BY <2>1, <2>2
<1> QED BY <1>2, <1>3, <1>4 DEF SourceIsNearestOutsider

LEMMA RetryInputs == input \in {i \in Inputs : AcceptedInput(i)} => RetryAfterCoversDelay
<1> SUFFICES ASSUME input \in Inputs, input.kind = "retry" PROVE RetryAfterCoversDelay
    BY DEF RetryAfterCoversDelay
<1>0. Second \in Nat /\ Second > 0 /\ MaxDelay \in Nat /\ MaxDelay < Half /\ Half \in Nat
  BY PolicyAssumption, InputsAssumption, HalfFacts
<1>1. PICK d \in 1 .. MaxDelay - Second : d = input.duration
  BY DEF Inputs
<1>2. PICK q \in Nat : /\ q > 0 /\ RetryAfterSeconds(d) = q /\ q * Second >= d /\ q <= d
                       /\ \A n \in Nat : n * Second >= d => n >= q
  <2>1. d \in Nat /\ d > 0 /\ d + Second - 1 < Half
    BY <1>0, <1>1
  <2> QED BY <2>1, RetryIsRoundedUp
<1> DEFINE S == {n \in 1 .. MaxDelay : n * Second >= d}
<1>3. q \in S /\ \A n \in S : q <= n
  BY <1>0, <1>1, <1>2
<1>4. S \subseteq Nat
  OBVIOUS
<1>5. Min(S) = q
  <2> HIDE DEF S
  <2>1. \E x \in S : \A y \in S : x <= y
    BY <1>3
  <2>2. Min(S) \in S /\ \A y \in S : Min(S) <= y
    BY <2>1 DEF Min
  <2>3. PICK x \in Nat : x = Min(S)
    BY <1>4, <2>2
  <2>4. x <= q /\ q <= x
    BY <1>3, <2>2, <2>3
  <2> QED BY <2>3, <2>4
<1> QED BY <1>1, <1>2, <1>5 DEF RetryAfterCoversDelay

\* loginBackoff, loginSource and retryAfterSeconds compute what their references say
\* on every input: the delay doubles and is cut without overflowing, the source is
\* the nearest hop outside, the seconds cover the delay.
THEOREM PolicyIsRight == input \in {i \in Inputs : AcceptedInput(i)} => PolicyMeetsReference
BY BackoffInputs, SourceInputs, RetryInputs DEF PolicyMeetsReference

-----------------------------------------------------------------------------
(* The audit trail: the inductive invariant. *)

AuditPhases == {"new", "done", "audit", "failed", "suppressed", "record", "lost"}
AuditRow ==
    [phase : AuditPhases, kind : {"own", "plain"}, attempt : {{}} \cup {{a} : a \in FailedAttempts},
     now : 0 .. MaxAuditTime, full : BOOLEAN, late : BOOLEAN]

\* The limiter let a failed attempt pass; what it was known by.
Admitted(q) == q.phase \in {"record", "done", "lost"} /\ q.attempt # {}
KeyOf(q)    == Fingerprint(CHOOSE a \in q.attempt : TRUE)

RequestOK(w) ==
    /\ requests[w].now <= auditClock
    /\ requests[w].phase \in {"failed", "record", "suppressed", "lost"} => requests[w].attempt # {}
    /\ requests[w].phase \in {"new", "audit"} => requests[w].attempt = {} /\ successes[w] = 0

\* An entry of the limiter is of an attempt that it let pass.
EntryOK(e) == e.at \in Nat /\ \E v \in Writes : Admitted(requests[v]) /\ KeyOf(requests[v]) = e.key /\ requests[v].now = e.at

SeenOK ==
    /\ IsFiniteSet(seen) /\ Cardinality(seen) <= MaxKeys
    /\ \A d, e \in seen : d.key = e.key => d = e
    /\ \A e \in seen : EntryOK(e)

\* Where there was room, an attempt that passed is remembered, or so is a later one
\* of its key, for as long as the window lasts.
Remembered(q) ==
    Admitted(q) /\ ~q.full =>
        \/ \E e \in seen : e.key = KeyOf(q) /\ e.at >= q.now
        \/ q.now + RepeatWindow <= auditClock

Throttled(q, p) ==
    Admitted(q) /\ Admitted(p) /\ KeyOf(q) = KeyOf(p) /\ Near(q.now, p.now) => q.full \/ p.full \/ q.late \/ p.late

SuppressedOK(w) ==
    requests[w].phase = "suppressed" =>
        \E v \in Writes : Admitted(requests[v]) /\ requests[v].now + RepeatWindow > requests[w].now
                          /\ KeyOf(requests[v]) = KeyOf(requests[w])

FailureOK(r) ==
    /\ r.write \in Writes
    /\ requests[r.write].phase = "done" /\ requests[r.write].attempt = {r.attempt}
    /\ requests[r.write].now = r.at /\ requests[r.write].full = r.full /\ requests[r.write].late = r.late

AuditInductive ==
    /\ requests \in [Writes -> AuditRow] /\ successes \in [Writes -> 0 .. 1]
    /\ lost \in 0 .. MaxLostRows /\ auditClock \in 0 .. MaxAuditTime
    /\ \A w \in Writes : RequestOK(w)
    /\ SeenOK
    /\ \A w \in Writes : Remembered(requests[w])
    /\ \A w \in Writes : \A v \in Writes \ {w} : Throttled(requests[w], requests[v])
    /\ \A w \in Writes : SuppressedOK(w)
    /\ \A r \in failures : FailureOK(r)

LEMMA AuditConstants == MaxKeys \in Nat /\ RepeatWindow \in Nat /\ MaxAuditTime \in Nat /\ MaxLostRows \in Nat
BY AuditAssumption

\* SameAttempt and the fingerprint tell the same attempts apart.
LEMMA FingerprintTells == \A a, b : SameAttempt(a, b) <=> Fingerprint(a) = Fingerprint(b)
BY DEF SameAttempt, Fingerprint

LEMMA KeyOfSingle == ASSUME NEW q, NEW a, q.attempt = {a} PROVE KeyOf(q) = Fingerprint(a)
BY DEF KeyOf

LEMMA AuditInductiveIsEnough == AuditInductive => AuditInvariant
<1> SUFFICES ASSUME AuditInductive PROVE AuditInvariant
    OBVIOUS
<1>1. AuditTypeOK
  BY DEF AuditInductive, SeenOK, AuditTypeOK
<1>2. OneRowPerSuccess
  BY DEF AuditInductive, OneRowPerSuccess
<1>3. SuppressedIsOnRecord
  <2> SUFFICES ASSUME NEW w \in Writes, requests[w].phase = "suppressed"
               PROVE  \E v \in Writes \ {w} :
                          /\ requests[v].phase \in {"record", "done", "lost"} /\ requests[v].attempt # {}
                          /\ requests[v].now + RepeatWindow > requests[w].now
                          /\ SameAttempt(TheAttempt(v), TheAttempt(w))
      BY DEF SuppressedIsOnRecord
  <2>1. PICK v \in Writes : Admitted(requests[v]) /\ requests[v].now + RepeatWindow > requests[w].now
                            /\ KeyOf(requests[v]) = KeyOf(requests[w])
    BY DEF AuditInductive, SuppressedOK
  <2>2. SameAttempt(TheAttempt(v), TheAttempt(w))
    BY <2>1, FingerprintTells DEF KeyOf, TheAttempt
  <2> QED BY <2>1, <2>2 DEF Admitted
<1>4. RepeatsThrottled
  <2> SUFFICES ASSUME NEW r \in failures, NEW s \in failures, r.write # s.write, SameAttempt(r.attempt, s.attempt), Near(r.at, s.at)
               PROVE  r.full \/ s.full \/ r.late \/ s.late
      BY DEF RepeatsThrottled
  <2>1. FailureOK(r) /\ FailureOK(s)
    BY DEF AuditInductive
  <2>2. PICK q, p : q = requests[r.write] /\ p = requests[s.write] /\ Throttled(q, p)
    BY <2>1 DEF AuditInductive, FailureOK
  <2>3. /\ q.phase = "done" /\ q.attempt = {r.attempt} /\ q.now = r.at /\ q.full = r.full /\ q.late = r.late
        /\ p.phase = "done" /\ p.attempt = {s.attempt} /\ p.now = s.at /\ p.full = s.full /\ p.late = s.late
    BY <2>1, <2>2 DEF FailureOK
  <2>4. KeyOf(q) = KeyOf(p)
    BY <2>3, KeyOfSingle, FingerprintTells
  <2>5. Admitted(q) /\ Admitted(p) /\ Near(q.now, p.now)
    BY <2>3 DEF Admitted
  <2> QED BY <2>2, <2>3, <2>4, <2>5 DEF Throttled
<1> QED BY <1>1, <1>2, <1>3, <1>4 DEF AuditInvariant

LEMMA AuditStarts == AuditInit => AuditInductive
<1> SUFFICES ASSUME AuditInit PROVE AuditInductive
    OBVIOUS
<1>1. NewWrite \in AuditRow /\ NewWrite.phase = "new" /\ NewWrite.attempt = {} /\ NewWrite.now = 0
  BY AuditConstants DEF NewWrite, AuditRow, AuditPhases
<1>2. /\ requests = [w \in Writes |-> NewWrite] /\ seen = {} /\ failures = {} /\ lost = 0 /\ auditClock = 0
      /\ successes = [w \in Writes |-> 0]
  BY DEF AuditInit
<1>3. SeenOK
  BY <1>2, FS_EmptySet, AuditConstants DEF SeenOK
<1>4. \A w \in Writes : RequestOK(w) /\ Remembered(requests[w]) /\ SuppressedOK(w) /\ ~Admitted(requests[w])
  BY <1>1, <1>2 DEF RequestOK, Remembered, SuppressedOK, Admitted
<1> QED BY <1>1, <1>2, <1>3, <1>4, AuditConstants DEF AuditInductive, Throttled

\* A request takes a step that does not change what the limiter has let pass.
LEMMA AdmissionsStay ==
    ASSUME AuditInductive, seen' = seen, auditClock' = auditClock, NEW w \in Writes, NEW row \in AuditRow,
           requests' = [requests EXCEPT ![w] = row],
           Admitted(row) <=> Admitted(requests[w]),
           Admitted(row) => row.attempt = requests[w].attempt /\ row.now = requests[w].now
                            /\ row.full = requests[w].full /\ row.late = requests[w].late
    PROVE  /\ requests' \in [Writes -> AuditRow] /\ requests'[w] = row
           /\ \A v \in Writes \ {w} : requests'[v] = requests[v]
           /\ SeenOK' /\ \A v \in Writes : Remembered(requests[v])'
           /\ \A x \in Writes : \A v \in Writes \ {x} : Throttled(requests[x], requests[v])'
           /\ \A v \in Writes \ {w} : SuppressedOK(v)'
<1>1. requests' \in [Writes -> AuditRow] /\ requests'[w] = row /\ \A v \in Writes \ {w} : requests'[v] = requests[v]
  BY DEF AuditInductive
<1>2. \A v \in Writes :
          /\ Admitted(requests'[v]) <=> Admitted(requests[v])
          /\ Admitted(requests[v]) => /\ KeyOf(requests'[v]) = KeyOf(requests[v]) /\ requests'[v].now = requests[v].now
                                      /\ requests'[v].full = requests[v].full /\ requests'[v].late = requests[v].late
  <2> SUFFICES ASSUME NEW v \in Writes
               PROVE  /\ Admitted(requests'[v]) <=> Admitted(requests[v])
                      /\ Admitted(requests[v]) =>
                             /\ KeyOf(requests'[v]) = KeyOf(requests[v]) /\ requests'[v].now = requests[v].now
                             /\ requests'[v].full = requests[v].full /\ requests'[v].late = requests[v].late
      OBVIOUS
  <2>1. CASE v = w
    BY <1>1, <2>1 DEF KeyOf
  <2>2. CASE v # w
    BY <1>1, <2>2
  <2> QED BY <2>1, <2>2
<1>3. SeenOK'
  <2>1. ASSUME NEW e \in seen PROVE EntryOK(e)'
    <3>1. EntryOK(e)
      BY DEF AuditInductive, SeenOK
    <3>2. PICK v \in Writes : Admitted(requests[v]) /\ KeyOf(requests[v]) = e.key /\ requests[v].now = e.at
      BY <3>1 DEF EntryOK
    <3>3. Admitted(requests'[v]) /\ KeyOf(requests'[v]) = e.key /\ requests'[v].now = e.at
      BY <1>2, <3>2
    <3> QED BY <3>1, <3>3 DEF EntryOK
  <2> QED BY <2>1 DEF AuditInductive, SeenOK
<1>4. \A v \in Writes : Remembered(requests[v])'
  BY <1>2 DEF AuditInductive, Remembered, Admitted, KeyOf
<1>5. \A x \in Writes : \A v \in Writes \ {x} : Throttled(requests[x], requests[v])'
  BY <1>2 DEF AuditInductive, Throttled, Admitted, KeyOf, Near
<1>6. \A v \in Writes \ {w} : SuppressedOK(v)'
  <2> SUFFICES ASSUME NEW v \in Writes \ {w}, requests[v].phase = "suppressed" PROVE SuppressedOK(v)'
      BY <1>1 DEF SuppressedOK
  <2>1. PICK u \in Writes : Admitted(requests[u]) /\ requests[u].now + RepeatWindow > requests[v].now
                            /\ KeyOf(requests[u]) = KeyOf(requests[v])
    BY DEF AuditInductive, SuppressedOK
  <2>2. /\ Admitted(requests'[u]) /\ requests'[u].now + RepeatWindow > requests'[v].now
        /\ KeyOf(requests'[u]) = KeyOf(requests'[v])
    BY <1>1, <1>2, <2>1
  <2> QED BY <2>2 DEF SuppressedOK
<1> QED BY <1>1, <1>3, <1>4, <1>5, <1>6

LEMMA TicksKeep ==
    ASSUME AuditInductive, AuditTick
    PROVE  AuditInductive'
<1>1. /\ auditClock' = auditClock + 1 /\ auditClock' \in 0 .. MaxAuditTime /\ auditClock \in Nat
      /\ UNCHANGED <<requests, seen, successes, failures, lost>>
  BY AuditConstants DEF AuditTick, AuditInductive
<1>2. \A w \in Writes : requests[w].now \in Nat /\ requests[w].now <= auditClock
  BY AuditConstants DEF AuditInductive, AuditRow, RequestOK
<1>3. \A w \in Writes : RequestOK(w)'
  BY <1>1, <1>2 DEF AuditInductive, RequestOK
<1>4. SeenOK'
  BY <1>1 DEF AuditInductive, SeenOK, EntryOK
<1>5. \A w \in Writes : Remembered(requests[w])'
  BY <1>1, <1>2, AuditConstants DEF AuditInductive, Remembered
<1>6. \A w \in Writes : \A v \in Writes \ {w} : Throttled(requests[w], requests[v])'
  BY <1>1 DEF AuditInductive, Throttled
<1>7. \A w \in Writes : SuppressedOK(w)'
  BY <1>1 DEF AuditInductive, SuppressedOK
<1>8. \A r \in failures' : FailureOK(r)'
  BY <1>1 DEF AuditInductive, FailureOK
<1> QED BY <1>1, <1>3, <1>4, <1>5, <1>6, <1>7, <1>8 DEF AuditInductive

\* A step of a request that stays outside the limiter.
LEMMA RequestMoves ==
    ASSUME AuditInductive, seen' = seen, auditClock' = auditClock, NEW w \in Writes, NEW row \in AuditRow,
           requests' = [requests EXCEPT ![w] = row],
           ~Admitted(row), ~Admitted(requests[w]), row.phase # "suppressed", row.now <= auditClock,
           row.phase \in {"failed", "record", "lost"} => row.attempt # {},
           successes' \in [Writes -> 0 .. 1], \A v \in Writes \ {w} : successes'[v] = successes[v],
           row.phase \in {"new", "audit"} => row.attempt = {} /\ successes'[w] = 0,
           failures' = failures, lost' \in 0 .. MaxLostRows
    PROVE  AuditInductive'
<1>1. /\ requests' \in [Writes -> AuditRow] /\ requests'[w] = row
      /\ \A v \in Writes \ {w} : requests'[v] = requests[v]
      /\ SeenOK' /\ \A v \in Writes : Remembered(requests[v])'
      /\ \A x \in Writes : \A v \in Writes \ {x} : Throttled(requests[x], requests[v])'
      /\ \A v \in Writes \ {w} : SuppressedOK(v)'
  BY AdmissionsStay
<1>2. \A v \in Writes : RequestOK(v)'
  BY <1>1 DEF AuditInductive, RequestOK
<1>3. SuppressedOK(w)'
  BY <1>1 DEF SuppressedOK
<1>4. \A r \in failures' : FailureOK(r)'
  <2> SUFFICES ASSUME NEW r \in failures PROVE FailureOK(r)'
      OBVIOUS
  <2>1. FailureOK(r)
    BY DEF AuditInductive
  <2>2. r.write # w
    BY <2>1 DEF FailureOK, Admitted
  <2> QED BY <1>1, <2>1, <2>2 DEF FailureOK
<1> QED BY <1>1, <1>2, <1>3, <1>4 DEF AuditInductive

LEMMA RequestFacts ==
    ASSUME AuditInductive, NEW w \in Writes
    PROVE  requests[w] \in AuditRow /\ RequestOK(w) /\ successes[w] \in 0 .. 1 /\ DOMAIN requests = Writes /\ DOMAIN successes = Writes
BY DEF AuditInductive

LEMMA SucceedKeeps ==
    ASSUME AuditInductive, NEW w \in Writes, NEW kind \in {"own", "plain"}, Succeed(w, kind)
    PROVE  AuditInductive'
<1>1. PICK next \in {"done", "audit"} : /\ requests' = [requests EXCEPT ![w].phase = next, ![w].kind = kind]
                                        /\ next = (IF kind = "own" THEN "done" ELSE "audit")
  BY DEF Succeed, AfterSuccess
<1>2. PICK half : half = [requests[w] EXCEPT !.phase = next]
  OBVIOUS
<1>3. PICK row : row = [half EXCEPT !.kind = kind]
  OBVIOUS
<1>4. requests' = [requests EXCEPT ![w] = row]
  BY <1>1, <1>2, <1>3, RequestFacts DEF AuditRow
<1>5. requests[w].phase = "new" /\ requests[w].attempt = {} /\ requests[w].now <= auditClock
  BY RequestFacts DEF Succeed, RequestOK
<1>6. half \in AuditRow /\ half.phase = next /\ half.attempt = {} /\ half.now <= auditClock
  BY <1>2, <1>5, RequestFacts DEF AuditRow, AuditPhases
<1>7. row \in AuditRow /\ row.phase = next /\ row.attempt = {} /\ row.now <= auditClock
  BY <1>3, <1>6 DEF AuditRow
<1>8. PICK n \in 0 .. 1 : n = (IF kind = "plain" THEN 0 ELSE 1)
  OBVIOUS
<1>9. /\ successes' = [successes EXCEPT ![w] = n]
      /\ UNCHANGED <<seen, failures, lost, auditClock>>
  BY <1>8 DEF Succeed
<1>10. /\ successes' \in [Writes -> 0 .. 1] /\ successes'[w] = n /\ \A v \in Writes \ {w} : successes'[v] = successes[v]
       /\ lost' \in 0 .. MaxLostRows
  BY <1>9 DEF AuditInductive
<1> QED BY <1>1, <1>4, <1>5, <1>7, <1>8, <1>9, <1>10, RequestMoves DEF Admitted

LEMMA FailKeeps ==
    ASSUME AuditInductive, NEW w \in Writes, NEW a \in FailedAttempts, Fail(w, a)
    PROVE  AuditInductive'
<1>1. PICK one : one = [requests[w] EXCEPT !.phase = "failed"]
  OBVIOUS
<1>2. PICK two : two = [one EXCEPT !.attempt = {a}]
  OBVIOUS
<1>3. PICK row : row = [two EXCEPT !.now = auditClock]
  OBVIOUS
<1>4. /\ requests' = [requests EXCEPT ![w] = row] /\ UNCHANGED <<seen, successes, failures, lost, auditClock>>
      /\ requests[w].phase = "new"
  BY <1>1, <1>2, <1>3, RequestFacts DEF Fail, AuditRow
<1>5. one \in AuditRow /\ one.phase = "failed"
  BY <1>1, RequestFacts DEF AuditRow, AuditPhases
<1>6. two \in AuditRow /\ two.phase = "failed" /\ two.attempt = {a}
  BY <1>2, <1>5 DEF AuditRow
<1>7. auditClock \in 0 .. MaxAuditTime /\ auditClock <= auditClock
  BY AuditConstants DEF AuditInductive
<1>8. row \in AuditRow /\ row.phase = "failed" /\ row.attempt = {a} /\ row.now <= auditClock
  BY <1>3, <1>6, <1>7 DEF AuditRow
<1> QED BY <1>4, <1>8, RequestMoves, RequestFacts DEF Admitted, AuditInductive

LEMMA AuditSuccessKeeps ==
    ASSUME AuditInductive, NEW w \in Writes, NEW ok \in BOOLEAN, AuditSuccess(w, ok)
    PROVE  AuditInductive'
<1>1. PICK row : row = [requests[w] EXCEPT !.phase = "done"]
  OBVIOUS
<1>2. PICK n \in 0 .. 1 : n = (IF ok THEN successes[w] + 1 ELSE successes[w])
  BY RequestFacts DEF AuditSuccess, RequestOK
<1>3. /\ requests' = [requests EXCEPT ![w] = row] /\ UNCHANGED <<seen, failures, auditClock>>
      /\ requests[w].phase = "audit" /\ successes' = [successes EXCEPT ![w] = n]
  BY <1>1, <1>2, RequestFacts DEF AuditSuccess
<1>4. lost' \in 0 .. MaxLostRows
  BY AuditConstants DEF AuditInductive, AuditSuccess
<1>5. requests[w].attempt = {} /\ requests[w].now <= auditClock
  BY <1>3, RequestFacts DEF RequestOK
<1>6. row \in AuditRow /\ row.phase = "done" /\ row.attempt = {} /\ row.now <= auditClock
  BY <1>1, <1>5, RequestFacts DEF AuditRow, AuditPhases
<1>7. successes' \in [Writes -> 0 .. 1] /\ \A v \in Writes \ {w} : successes'[v] = successes[v]
  BY <1>3 DEF AuditInductive
<1> QED BY <1>3, <1>4, <1>5, <1>6, <1>7, RequestMoves DEF Admitted

\* The limiter suppresses a repeat.
LEMMA SuppressKeeps ==
    ASSUME AuditInductive, NEW w \in Writes, requests[w].phase = "failed",
           \E e \in seen : e.key = Fingerprint(TheAttempt(w)) /\ requests[w].now - e.at < RepeatWindow,
           requests' = [requests EXCEPT ![w].phase = "suppressed"],
           UNCHANGED <<seen, successes, failures, lost, auditClock>>
    PROVE  AuditInductive'
<1>1. PICK row : row = [requests[w] EXCEPT !.phase = "suppressed"]
  OBVIOUS
<1>2. requests' = [requests EXCEPT ![w] = row]
  BY <1>1, RequestFacts
<1>3. /\ row \in AuditRow /\ row.phase = "suppressed" /\ row.attempt = requests[w].attempt /\ row.now = requests[w].now
      /\ row.attempt # {} /\ row.now <= auditClock
  BY <1>1, RequestFacts DEF AuditRow, AuditPhases, RequestOK
<1>4. ~Admitted(row) /\ ~Admitted(requests[w])
  BY <1>3 DEF Admitted
<1>5. /\ requests' \in [Writes -> AuditRow] /\ requests'[w] = row
      /\ \A v \in Writes \ {w} : requests'[v] = requests[v]
      /\ SeenOK' /\ \A v \in Writes : Remembered(requests[v])'
      /\ \A x \in Writes : \A v \in Writes \ {x} : Throttled(requests[x], requests[v])'
      /\ \A v \in Writes \ {w} : SuppressedOK(v)'
  BY <1>2, <1>3, <1>4, AdmissionsStay
<1>6. SuppressedOK(w)'
  <2>1. PICK e \in seen : e.key = Fingerprint(TheAttempt(w)) /\ requests[w].now - e.at < RepeatWindow
    OBVIOUS
  <2>2. PICK v \in Writes : Admitted(requests[v]) /\ KeyOf(requests[v]) = e.key /\ requests[v].now = e.at /\ e.at \in Nat
    BY DEF AuditInductive, SeenOK, EntryOK
  <2>3. KeyOf(row) = e.key
    BY <1>3, <2>1 DEF KeyOf, TheAttempt
  <2>4. requests'[v] = requests[v]
    BY <1>4, <1>5, <2>2
  <2>5. requests[w].now \in Nat
    BY RequestFacts, AuditConstants DEF AuditRow
  <2>6. requests'[v].now + RepeatWindow > requests'[w].now
    BY <1>3, <1>5, <2>1, <2>2, <2>4, <2>5, AuditConstants
  <2>7. Admitted(requests'[v]) /\ KeyOf(requests'[v]) = KeyOf(requests'[w])
    BY <1>5, <2>2, <2>3, <2>4
  <2> QED BY <2>6, <2>7 DEF SuppressedOK
<1>7. \A v \in Writes : RequestOK(v)'
  BY <1>3, <1>5 DEF AuditInductive, RequestOK
<1>8. \A r \in failures' : FailureOK(r)'
  BY <1>5 DEF AuditInductive, FailureOK
<1> QED BY <1>5, <1>6, <1>7, <1>8 DEF AuditInductive

\* What the limiter holds after it let an attempt pass.
LEMMA CachedFacts ==
    ASSUME IsFiniteSet(seen), Cardinality(seen) <= MaxKeys, \A d, e \in seen : d.key = e.key => d = e,
           NEW kept \in SUBSET seen, NEW key, NEW now \in Nat
    PROVE  /\ IsFiniteSet(Cached(kept, key, now)) /\ Cardinality(Cached(kept, key, now)) <= MaxKeys
           /\ \A d, e \in Cached(kept, key, now) : d.key = e.key => d = e
           /\ Cardinality(kept) >= MaxKeys => Cached(kept, key, now) = kept
           /\ ~(Cardinality(kept) >= MaxKeys) =>
                  Cached(kept, key, now) = {e \in kept : e.key # key} \cup {[key |-> key, at |-> now]}
<1>1. IsFiniteSet(kept) /\ Cardinality(kept) \in Nat /\ Cardinality(kept) <= Cardinality(seen) /\ Cardinality(seen) \in Nat
  BY FS_Subset, FS_CardinalityType
<1>2. CASE Cardinality(kept) >= MaxKeys
  BY <1>1, <1>2, AuditConstants DEF Cached
<1>3. CASE ~(Cardinality(kept) >= MaxKeys)
  <2> DEFINE others == {e \in kept : e.key # key}
  <2>1. PICK new : new = [key |-> key, at |-> now]
    OBVIOUS
  <2>2. new.key = key
    BY <2>1
  <2>3. Cached(kept, key, now) = others \cup {new}
    BY <1>3, <2>1 DEF Cached
  <2>4. IsFiniteSet(others) /\ Cardinality(others) \in Nat /\ Cardinality(others) <= Cardinality(kept)
    BY <1>1, FS_Subset, FS_CardinalityType
  <2>5. \A d, e \in others \cup {new} : d.key = e.key => d = e
    BY <2>2
  <2> HIDE DEF others
  <2>6. IsFiniteSet(others \cup {new}) /\ Cardinality(others \cup {new}) <= Cardinality(others) + 1
    <3>1. /\ IsFiniteSet(others \cup {new})
          /\ Cardinality(others \cup {new}) = IF new \in others THEN Cardinality(others) ELSE Cardinality(others) + 1
      BY <2>4, FS_AddElement
    <3> QED BY <2>4, <3>1
  <2>7. Cardinality(others \cup {new}) \in Nat
    BY <2>6, FS_CardinalityType
  <2> QED BY <1>1, <1>3, <2>1, <2>3, <2>4, <2>5, <2>6, <2>7, AuditConstants DEF others
<1> QED BY <1>2, <1>3

\* The limiter lets an attempt pass that no live entry repeats.
LEMMA AdmitKeeps ==
    ASSUME AuditInductive, NEW w \in Writes, requests[w].phase = "failed",
           NEW key, key = Fingerprint(TheAttempt(w)), NEW now \in Nat, now = requests[w].now,
           \A e \in seen : e.key = key => now - e.at >= RepeatWindow,
           NEW kept \in SUBSET seen, \A e \in seen \ kept : now - e.at >= RepeatWindow,
           seen' = Cached(kept, key, now),
           NEW row \in AuditRow, requests' = [requests EXCEPT ![w] = row],
           row.phase = "record", row.attempt = requests[w].attempt, row.now = now,
           row.full <=> Cardinality(kept) >= MaxKeys, row.late <=> now < auditClock,
           UNCHANGED <<successes, failures, lost, auditClock>>
    PROVE  AuditInductive'
<1>0. requests[w] \in AuditRow /\ RequestOK(w) /\ DOMAIN requests = Writes /\ auditClock \in Nat /\ now <= auditClock
  BY RequestFacts, AuditConstants DEF AuditInductive, RequestOK
<1>9. row.attempt # {}
  BY <1>0 DEF RequestOK
<1>10. Admitted(row) /\ KeyOf(row) = key /\ ~Admitted(requests[w])
  BY <1>9 DEF Admitted, KeyOf, TheAttempt
<1>11. /\ requests' \in [Writes -> AuditRow] /\ requests'[w] = row
       /\ \A v \in Writes \ {w} : requests'[v] = requests[v]
  BY DEF AuditInductive
<1>12. /\ IsFiniteSet(seen') /\ Cardinality(seen') <= MaxKeys
       /\ \A d, e \in seen' : d.key = e.key => d = e
       /\ row.full => seen' = kept
       /\ ~row.full => seen' = {e \in kept : e.key # key} \cup {[key |-> key, at |-> now]}
  <2>1. IsFiniteSet(seen) /\ Cardinality(seen) <= MaxKeys /\ \A d, e \in seen : d.key = e.key => d = e
    BY DEF AuditInductive, SeenOK
  <2>2. /\ IsFiniteSet(Cached(kept, key, now)) /\ Cardinality(Cached(kept, key, now)) <= MaxKeys
        /\ \A d, e \in Cached(kept, key, now) : d.key = e.key => d = e
        /\ Cardinality(kept) >= MaxKeys => Cached(kept, key, now) = kept
        /\ ~(Cardinality(kept) >= MaxKeys) =>
               Cached(kept, key, now) = {e \in kept : e.key # key} \cup {[key |-> key, at |-> now]}
    BY <2>1, CachedFacts
  <2> QED BY <2>2
<1>e. PICK new : new = [key |-> key, at |-> now]
  OBVIOUS
<1>13. new = [key |-> key, at |-> now] /\ new.key = key /\ new.at = now
  BY <1>e
<1>14. \A v \in Writes : Admitted(requests[v]) => v # w /\ requests'[v] = requests[v]
  BY <1>10, <1>11
<1>15. SeenOK'
  <2>1. ASSUME NEW e \in seen' PROVE EntryOK(e)'
    <3>1. CASE e \in seen
      <4>1. e.at \in Nat /\ \E v \in Writes : Admitted(requests[v]) /\ KeyOf(requests[v]) = e.key /\ requests[v].now = e.at
        BY <3>1 DEF AuditInductive, SeenOK, EntryOK
      <4>2. \E v \in Writes : Admitted(requests'[v]) /\ KeyOf(requests'[v]) = e.key /\ requests'[v].now = e.at
        BY <1>14, <4>1
      <4> QED BY <4>1, <4>2 DEF EntryOK
    <3>2. CASE e = new
      <4>1. Admitted(requests'[w]) /\ KeyOf(requests'[w]) = e.key /\ requests'[w].now = e.at
        BY <1>9, <1>10, <1>11, <1>13, <3>2
      <4> QED BY <1>13, <3>2, <4>1 DEF EntryOK
    <3> QED BY <1>12, <1>13, <3>1, <3>2
  <2> QED BY <1>12, <2>1 DEF SeenOK
<1>16. ASSUME NEW v \in Writes PROVE Remembered(requests[v])'
  <2>1. CASE v = w
    <3>1. ~row.full => new \in seen' /\ new.key = KeyOf(row) /\ new.at >= row.now
      BY <1>9, <1>10, <1>12, <1>13
    <3>2. Remembered(row)'
      BY <1>9, <3>1 DEF Remembered
    <3> QED BY <1>11, <2>1, <3>2 DEF Remembered
  <2>2. CASE v # w
    <3>0. PICK q : q = requests[v]
      OBVIOUS
    <3>1. requests'[v] = q /\ Remembered(q)
      BY <1>11, <2>2, <3>0 DEF AuditInductive
    <3>2. q.now \in Nat
      BY <3>0, RequestFacts, AuditConstants DEF AuditRow
    <3> SUFFICES ASSUME Admitted(q), ~q.full, ~(q.now + RepeatWindow <= auditClock)
                 PROVE  \E e \in seen' : e.key = KeyOf(q) /\ e.at >= q.now
      <4>1. Remembered(q)' => Remembered(requests[v])'
        BY <3>1 DEF Remembered
      <4> QED BY <4>1 DEF Remembered
    <3>3. PICK e \in seen : e.key = KeyOf(q) /\ e.at >= q.now
      BY <3>1 DEF Remembered
    <3>4. e.at \in Nat
      BY DEF AuditInductive, SeenOK, EntryOK
    <3>5. ~(now - e.at >= RepeatWindow)
      BY <1>0, <3>2, <3>3, <3>4, AuditConstants
    <3>6. e \in kept /\ e.key # key
      BY <3>5
    <3> QED BY <1>12, <3>3, <3>6
  <2> QED BY <2>1, <2>2
<1>17. ASSUME NEW v \in Writes \ {w} PROVE Throttled(row, requests[v]) /\ Throttled(requests[v], row)
  <2>0. PICK q : q = requests[v] /\ Remembered(q) /\ q.now \in Nat
    <3>1. requests[v].now \in Nat
      BY RequestFacts, AuditConstants DEF AuditRow
    <3> QED BY <3>1 DEF AuditInductive
  <2> SUFFICES ASSUME Admitted(q), KeyOf(q) = key, now - q.now < RepeatWindow, ~q.full, ~row.full, ~row.late PROVE FALSE
      BY <1>9, <1>10, <2>0 DEF Throttled, Near
  <2>1. now = auditClock
    BY <1>0
  <2>2. CASE q.now + RepeatWindow <= auditClock
    BY <2>0, <2>1, <2>2, AuditConstants
  <2>3. CASE \E e \in seen : e.key = KeyOf(q) /\ e.at >= q.now
    <3>1. PICK e \in seen : e.key = key /\ e.at >= q.now
      BY <2>3
    <3>2. e.at \in Nat
      BY DEF AuditInductive, SeenOK, EntryOK
    <3> QED BY <2>0, <3>1, <3>2, AuditConstants
  <2> QED BY <2>0, <2>2, <2>3 DEF Remembered
<1>18. \A x \in Writes : \A v \in Writes \ {x} : Throttled(requests'[x], requests'[v])
  BY <1>11, <1>17 DEF AuditInductive
<1>19. \A v \in Writes : SuppressedOK(v)'
  <2> SUFFICES ASSUME NEW v \in Writes, requests'[v].phase = "suppressed" PROVE SuppressedOK(v)'
      BY DEF SuppressedOK
  <2>1. v # w /\ requests'[v] = requests[v]
    BY <1>9, <1>11
  <2>2. PICK u \in Writes : Admitted(requests[u]) /\ requests[u].now + RepeatWindow > requests[v].now
                            /\ KeyOf(requests[u]) = KeyOf(requests[v])
    BY <2>1 DEF AuditInductive, SuppressedOK
  <2>3. /\ Admitted(requests'[u]) /\ requests'[u].now + RepeatWindow > requests'[v].now
        /\ KeyOf(requests'[u]) = KeyOf(requests'[v])
    BY <1>14, <2>1, <2>2
  <2> QED BY <2>3 DEF SuppressedOK
<1>20. \A v \in Writes : RequestOK(v)'
  BY <1>0, <1>9, <1>11 DEF AuditInductive, RequestOK
<1>21. \A r \in failures' : FailureOK(r)'
  BY <1>11 DEF AuditInductive, FailureOK
<1>22. /\ \A v \in Writes : Remembered(requests[v])'
       /\ \A x \in Writes : \A v \in Writes \ {x} : Throttled(requests[x], requests[v])'
  BY <1>16, <1>18
<1> QED BY <1>11, <1>15, <1>19, <1>20, <1>21, <1>22 DEF AuditInductive

LEMMA AllowKeeps ==
    ASSUME AuditInductive, NEW w \in Writes, Allow(w)
    PROVE  AuditInductive'
<1>1. PICK now \in Nat : now = requests[w].now
  BY RequestFacts, AuditConstants DEF AuditRow
<1>2. PICK key : key = Fingerprint(TheAttempt(w))
  OBVIOUS
<1>3. PICK kept : kept = IF Cardinality(seen) >= MaxKeys THEN Live(now) ELSE seen
  OBVIOUS
<1>4. kept \in SUBSET seen /\ \A e \in seen \ kept : now - e.at >= RepeatWindow
  BY <1>3, AuditConstants DEF Live, AuditInductive, SeenOK, EntryOK
<1>5. /\ requests[w].phase = "failed" /\ UNCHANGED <<successes, failures, lost, auditClock>>
      /\ \/ /\ \E e \in seen : e.key = key /\ now - e.at < RepeatWindow
            /\ requests' = [requests EXCEPT ![w].phase = "suppressed"]
            /\ seen' = seen
         \/ /\ \A e \in seen : e.key = key => now - e.at >= RepeatWindow
            /\ seen' = Cached(kept, key, now)
            /\ requests' = [requests EXCEPT ![w].phase = "record", ![w].full = Cardinality(kept) >= MaxKeys,
                                            ![w].late = now < auditClock]
  BY <1>1, <1>2, <1>3 DEF Allow
<1>6. CASE \E e \in seen : e.key = key /\ now - e.at < RepeatWindow /\ requests' = [requests EXCEPT ![w].phase = "suppressed"]
                           /\ seen' = seen
  BY <1>1, <1>2, <1>5, <1>6, SuppressKeeps
<1>7. CASE /\ \A e \in seen : e.key = key => now - e.at >= RepeatWindow
           /\ seen' = Cached(kept, key, now)
           /\ requests' = [requests EXCEPT ![w].phase = "record", ![w].full = Cardinality(kept) >= MaxKeys,
                                           ![w].late = now < auditClock]
  <2> DEFINE full == Cardinality(kept) >= MaxKeys
             late == now < auditClock
             one  == [requests[w] EXCEPT !.phase = "record"]
             two  == [one EXCEPT !.full = full]
             new  == [two EXCEPT !.late = late]
  <2>1. requests' = [requests EXCEPT ![w] = new]
    BY <1>7, RequestFacts DEF AuditRow
  <2>2. one \in AuditRow /\ one.phase = "record" /\ one.attempt = requests[w].attempt /\ one.now = now
    BY <1>1, RequestFacts DEF AuditRow, AuditPhases
  <2>3. full \in BOOLEAN /\ late \in BOOLEAN /\ (full <=> Cardinality(kept) >= MaxKeys) /\ (late <=> now < auditClock)
    OBVIOUS
  <2> HIDE DEF one, full, late
  <2>4. two \in AuditRow /\ two.phase = "record" /\ two.attempt = requests[w].attempt /\ two.now = now /\ two.full = full
    BY <2>2, <2>3 DEF AuditRow
  <2> HIDE DEF two
  <2>5. /\ new \in AuditRow /\ new.phase = "record" /\ new.attempt = requests[w].attempt /\ new.now = now
        /\ new.full = full /\ new.late = late
    BY <2>3, <2>4 DEF AuditRow
  <2> HIDE DEF new
  <2>6. PICK row \in AuditRow : row = new
    BY <2>5
  <2>7. (row.full <=> Cardinality(kept) >= MaxKeys) /\ (row.late <=> now < auditClock)
    BY <2>3, <2>5, <2>6
  <2>8. /\ requests[w].phase = "failed" /\ UNCHANGED <<successes, failures, lost, auditClock>>
        /\ \A e \in seen : e.key = key => now - e.at >= RepeatWindow
        /\ seen' = Cached(kept, key, now)
    BY <1>5, <1>7
  <2>9. /\ requests' = [requests EXCEPT ![w] = row] /\ row.phase = "record" /\ row.attempt = requests[w].attempt
        /\ row.now = now
    BY <2>1, <2>5, <2>6
  <2> QED BY <1>1, <1>2, <1>4, <2>7, <2>8, <2>9, AdmitKeeps
<1> QED BY <1>5, <1>6, <1>7

LEMMA RecordFailureKeeps ==
    ASSUME AuditInductive, NEW w \in Writes, NEW ok \in BOOLEAN, RecordFailure(w, ok)
    PROVE  AuditInductive'
<1>0. requests[w] \in AuditRow /\ RequestOK(w) /\ DOMAIN requests = Writes /\ requests[w].phase = "record" /\ requests[w].attempt # {}
  BY RequestFacts DEF RecordFailure, RequestOK
<1>1. PICK a : requests[w].attempt = {a}
  BY <1>0 DEF AuditRow
<1>2. TheAttempt(w) = a
  BY <1>1 DEF TheAttempt
<1>3. PICK row : row = [requests[w] EXCEPT !.phase = IF ok THEN "done" ELSE "lost"]
  OBVIOUS
<1>4. /\ row \in AuditRow /\ row.phase = (IF ok THEN "done" ELSE "lost") /\ row.attempt = requests[w].attempt
      /\ row.now = requests[w].now /\ row.full = requests[w].full /\ row.late = requests[w].late
  BY <1>0, <1>3 DEF AuditRow, AuditPhases
<1>5. requests' = [requests EXCEPT ![w] = row] /\ UNCHANGED <<seen, successes, auditClock>>
  BY <1>0, <1>3 DEF RecordFailure
<1>6. Admitted(row) /\ Admitted(requests[w])
  BY <1>0, <1>4 DEF Admitted
<1>7. /\ requests' \in [Writes -> AuditRow] /\ requests'[w] = row
      /\ \A v \in Writes \ {w} : requests'[v] = requests[v]
      /\ SeenOK' /\ \A v \in Writes : Remembered(requests[v])'
      /\ \A x \in Writes : \A v \in Writes \ {x} : Throttled(requests[x], requests[v])'
      /\ \A v \in Writes \ {w} : SuppressedOK(v)'
  BY <1>4, <1>5, <1>6, AdmissionsStay
<1>8. SuppressedOK(w)' /\ \A v \in Writes : RequestOK(v)'
  BY <1>0, <1>4, <1>5, <1>7 DEF AuditInductive, RequestOK, SuppressedOK
<1>9. lost' \in 0 .. MaxLostRows
  BY AuditConstants DEF AuditInductive, RecordFailure
<1>10. PICK new : new = [write |-> w, attempt |-> a, at |-> requests[w].now, full |-> requests[w].full, late |-> requests[w].late]
  OBVIOUS
<1>11. failures' = IF ok THEN failures \cup {new} ELSE failures
  BY <1>2, <1>10 DEF RecordFailure
<1>12. new.write = w /\ new.attempt = a /\ new.at = requests[w].now /\ new.full = requests[w].full /\ new.late = requests[w].late
  BY <1>10
<1>13. \A r \in failures : FailureOK(r)'
  BY <1>0, <1>7 DEF AuditInductive, FailureOK
<1>14. ok => FailureOK(new)'
  BY <1>1, <1>4, <1>7, <1>12 DEF FailureOK
<1> QED BY <1>5, <1>7, <1>8, <1>9, <1>11, <1>13, <1>14 DEF AuditInductive

LEMMA AuditStep ==
    ASSUME "unmarked" \notin Kinds, AuditInductive, [AuditNext]_auditVars
    PROVE  AuditInductive'
<1>1. CASE AuditTick
  BY <1>1, TicksKeep
<1>2. ASSUME NEW w \in Writes,
             \/ Allow(w)
             \/ \E k \in Kinds : Succeed(w, k)
             \/ \E a \in FailedAttempts : Fail(w, a)
             \/ \E ok \in BOOLEAN : AuditSuccess(w, ok) \/ RecordFailure(w, ok)
      PROVE  AuditInductive'
  <2>1. Kinds \subseteq {"own", "plain"}
    BY AuditAssumption
  <2> QED BY <1>2, <2>1, AllowKeeps, SucceedKeeps, FailKeeps, AuditSuccessKeeps, RecordFailureKeeps
<1>3. CASE UNCHANGED auditVars
  BY <1>3 DEF auditVars, AuditInductive, RequestOK, SeenOK, EntryOK, Remembered, Throttled, SuppressedOK, FailureOK
<1> QED BY <1>1, <1>2, <1>3 DEF AuditNext

\* auditAdminWrites, auditFailureLimiter: where every handler that records its own
\* success marks the request, a success has one row; the limiter suppresses only
\* what is on record and lets an attempt through once per window.
THEOREM AuditTrailIsKept == "unmarked" \notin Kinds => (AuditSpec => []AuditInvariant)
<1> SUFFICES ASSUME "unmarked" \notin Kinds PROVE AuditSpec => []AuditInvariant
    OBVIOUS
<1>1. AuditInductive /\ [AuditNext]_auditVars => AuditInductive'
  BY AuditStep
<1> QED BY <1>1, AuditStarts, AuditInductiveIsEnough, PTL DEF AuditSpec

------------------------------------------------------------------------------
(* Model health: the inductive invariant.                                  *)

RoundPhases == {"idle", "probe", "record", "notify"}
Queues      == UNION {[D -> HealthStatuses] : D \in SUBSET DOMAIN ProbedModels}
RoundRow    == [phase : RoundPhases, now : 0 .. MaxRounds, queue : Queues, outcome : HealthStatuses, late : BOOLEAN]
HealthTyped ==
    /\ upstream \in [ModelSet -> Upstreams]
    /\ probed \in [ModelSet -> [enabled : BOOLEAN, status : HealthStatuses, since : 0 .. MaxRounds, checked : 0 .. MaxRounds]]
    /\ rounds \in [Probers -> RoundRow]
    /\ announced \in [ModelSet -> HealthStatuses]
    /\ seenSince \in [Probers -> [ModelSet -> SUBSET HealthStatuses]]
    /\ roundCount \in 0 .. MaxRounds

\* Every process: what it may record, a probe could find since its round began.
RoundObserves(p) ==
    /\ ~Idle(p) => \A m \in ModelSet : ProbeModel(upstream[m]) \in seenSince[p][m]
    /\ rounds[p].phase \in {"record", "notify"} => ~NothingLeft(p)
    /\ (rounds[p].phase = "notify" \/ (rounds[p].phase = "record" /\ ~rounds[p].late))
          => rounds[p].outcome \in seenSince[p][RowModel(p)]

\* A process that is alone: what it read is current but for the row it recorded, and
\* an alert is due for that row only.
RoundAlone(p) ==
    /\ ~Idle(p) => rounds[p].now = roundCount
    /\ \A m \in ModelSet : probed[m].since <= probed[m].checked /\ probed[m].checked <= roundCount
    /\ rounds[p].phase # "idle" => \A i \in DOMAIN rounds[p].queue :
          (rounds[p].phase = "notify" /\ i = Place(p)) \/ rounds[p].queue[i] = probed[ProbedModels[i]].status
    /\ \A m \in ModelSet \ lostAlerts : announced[m] =
          IF rounds[p].phase = "notify" /\ m = RowModel(p) THEN Current(p) ELSE probed[m].status
    /\ rounds[p].phase = "notify" => probed[RowModel(p)].status = rounds[p].outcome
HealthInductive ==
    /\ HealthTyped
    /\ \A p \in Probers : RoundObserves(p)
    /\ \A p \in Probers : Probers = {p} => RoundAlone(p)

LEMMA ProbesFind == \A up : ProbeModel(up) \in HealthStatuses
  BY DEF ProbeModel, ByCatalog, Completion, HealthStatuses

LEMMA QueueFacts ==
    /\ \A q \in Queues : DOMAIN q \subseteq DOMAIN ProbedModels /\ \A i \in DOMAIN q : q[i] \in HealthStatuses
    /\ \A D \in SUBSET DOMAIN ProbedModels : \A q \in [D -> HealthStatuses] : q \in Queues
    /\ <<>> \in Queues
<1>1. /\ \A q \in Queues : DOMAIN q \subseteq DOMAIN ProbedModels /\ \A i \in DOMAIN q : q[i] \in HealthStatuses
      /\ \A D \in SUBSET DOMAIN ProbedModels : \A q \in [D -> HealthStatuses] : q \in Queues
  BY DEF Queues
<1>2. <<>> \in [{} -> HealthStatuses]
  OBVIOUS
<1> QED BY <1>1, <1>2

LEMMA ModelFacts ==
    /\ DOMAIN ProbedModels \subseteq Nat
    /\ \A i \in DOMAIN ProbedModels : ProbedModels[i] \in ModelSet
    /\ \A i, j \in DOMAIN ProbedModels : ProbedModels[i] = ProbedModels[j] => i = j
    /\ MaxRounds \in Nat
  BY HealthAssumption DEF ModelSet, Range

\* The row at hand is one of the queue.
LEMMA PlaceFacts ==
    ASSUME HealthTyped, NEW p \in Probers, ~NothingLeft(p)
    PROVE  /\ Place(p) \in DOMAIN rounds[p].queue /\ Place(p) \in DOMAIN ProbedModels
           /\ RowModel(p) \in ModelSet /\ Current(p) \in HealthStatuses
<1>1. rounds[p].queue \in Queues
  BY DEF HealthTyped, RoundRow
<1>2. DOMAIN rounds[p].queue \in SUBSET DOMAIN ProbedModels /\ \A i \in DOMAIN rounds[p].queue : rounds[p].queue[i] \in HealthStatuses
  BY <1>1, QueueFacts
<1>3. Place(p) \in DOMAIN rounds[p].queue
  <2> DEFINE D == DOMAIN rounds[p].queue
  <2>1. D \in SUBSET Nat /\ D # {}
    BY <1>2, ModelFacts DEF NothingLeft
  <2> HIDE DEF D
  <2>2. \E x \in D : \A y \in D : x <= y
    BY <2>1, LeastExists
  <2>3. Min(D) \in D
    BY <2>2 DEF Min
  <2> QED BY <2>3 DEF D, Place
<1> QED BY <1>2, <1>3, ModelFacts DEF RowModel, Current

LEMMA InitHealth == HealthInit => HealthInductive
<1> SUFFICES ASSUME HealthInit PROVE HealthInductive
    OBVIOUS
<1>1. NoRound \in RoundRow
  BY QueueFacts, ModelFacts DEF NoRound, RoundRow, RoundPhases, HealthStatuses
<1>2. HealthTyped
  BY <1>1, ModelFacts DEF HealthInit, HealthTyped, HealthStatuses
<1>3. \A p \in Probers : RoundObserves(p)
  BY DEF HealthInit, RoundObserves, NoRound, Idle
<1>4. \A p \in Probers : RoundAlone(p)
  BY DEF HealthInit, RoundAlone, NoRound, Idle
<1> QED BY <1>2, <1>3, <1>4 DEF HealthInductive

\* What a step of one process leaves to show.
LEMMA RoundMoves ==
    ASSUME HealthInductive, NEW p \in Probers, NEW row \in RoundRow,
           rounds' = [rounds EXCEPT ![p] = row]
    PROVE  /\ rounds' \in [Probers -> RoundRow] /\ rounds'[p] = row
           /\ \A q \in Probers \ {p} : rounds'[q] = rounds[q]
  BY DEF HealthInductive, HealthTyped

LEMMA OthersRest ==
    ASSUME HealthInductive, NEW p \in Probers, UNCHANGED upstream,
           \A q \in Probers \ {p} : rounds'[q] = rounds[q] /\ seenSince'[q] = seenSince[q],
           HealthTyped', RoundObserves(p)', Probers = {p} => RoundAlone(p)'
    PROVE  HealthInductive'
<1>1. ASSUME NEW q \in Probers \ {p} PROVE RoundObserves(q)'
  <2>1. RoundObserves(q)
    BY DEF HealthInductive
  <2> QED BY <2>1 DEF RoundObserves, Idle, NothingLeft, RowModel, Place
<1>2. \A q \in Probers : RoundObserves(q)'
  BY <1>1
<1>3. ASSUME NEW q \in Probers, Probers = {q} PROVE RoundAlone(q)'
  BY <1>3
<1> QED BY <1>2, <1>3 DEF HealthInductive

LEMMA StartRoundPreserves ==
    ASSUME HealthInductive, NEW p \in Probers, StartRound(p)
    PROVE  HealthInductive'
<1> DEFINE listed == {i \in DOMAIN ProbedModels : probed[ProbedModels[i]].enabled}
           queue  == [i \in listed |-> probed[ProbedModels[i]].status]
           row    == [NoRound EXCEPT !.phase = "probe", !.now = roundCount + 1, !.queue = queue]
<1>1. HealthTyped /\ \A q \in Probers : RoundObserves(q) /\ (Probers = {q} => RoundAlone(q))
  BY DEF HealthInductive
<1>2. queue \in Queues
  <2>1. queue \in [listed -> HealthStatuses]
    BY <1>1, ModelFacts DEF HealthTyped
  <2> QED BY <2>1, QueueFacts
<1>3. roundCount + 1 \in 0 .. MaxRounds /\ roundCount' = roundCount + 1
  BY <1>1, ModelFacts DEF HealthTyped, StartRound
<1>4. /\ row \in RoundRow /\ row.phase = "probe" /\ row.now = roundCount' /\ row.queue = queue
  <2> HIDE DEF queue
  <2> QED BY <1>2, <1>3 DEF RoundRow, NoRound, RoundPhases, HealthStatuses
<1>5. rounds' = [rounds EXCEPT ![p] = row] /\ UNCHANGED <<upstream, probed, announced, lostAlerts>>
  BY DEF StartRound
<1>6. \A i \in DOMAIN row.queue : i \in DOMAIN ProbedModels /\ row.queue[i] = probed[ProbedModels[i]].status
  BY <1>4
<1> HIDE DEF row, queue
<1>7. /\ rounds' \in [Probers -> RoundRow] /\ rounds'[p] = row
      /\ \A q \in Probers \ {p} : rounds'[q] = rounds[q]
  BY <1>4, <1>5, RoundMoves
<1>8. /\ seenSince' \in [Probers -> [ModelSet -> SUBSET HealthStatuses]]
      /\ seenSince'[p] = [m \in ModelSet |-> {ProbeModel(upstream[m])}]
      /\ \A q \in Probers \ {p} : seenSince'[q] = seenSince[q]
  <2>1. [m \in ModelSet |-> {ProbeModel(upstream[m])}] \in [ModelSet -> SUBSET HealthStatuses]
    BY ProbesFind
  <2>2. seenSince' = [seenSince EXCEPT ![p] = [m \in ModelSet |-> {ProbeModel(upstream[m])}]]
    BY DEF StartRound
  <2> QED BY <1>1, <2>1, <2>2 DEF HealthTyped
<1>9. HealthTyped'
  BY <1>1, <1>3, <1>5, <1>7, <1>8 DEF HealthTyped
<1>10. RoundObserves(p)'
  BY <1>4, <1>5, <1>7, <1>8 DEF RoundObserves
<1>11. ASSUME Probers = {p} PROVE RoundAlone(p)'
  <2>1. RoundAlone(p) /\ rounds[p].phase = "idle"
    BY <1>1, <1>11 DEF StartRound, Idle
  <2>2. \A m \in ModelSet : probed[m].checked <= roundCount'
    BY <1>1, <1>3, <2>1 DEF RoundAlone, HealthTyped
  <2> QED BY <1>4, <1>5, <1>6, <1>7, <2>1, <2>2 DEF RoundAlone
<1> QED BY <1>5, <1>7, <1>8, <1>9, <1>10, <1>11, OthersRest

\* The end of a round.
LEMMA RoundEnds ==
    ASSUME HealthInductive, NEW p \in Probers, rounds[p].phase # "notify",
           rounds' = [rounds EXCEPT ![p] = NoRound],
           UNCHANGED <<upstream, probed, announced, lostAlerts, seenSince, roundCount>>
    PROVE  HealthInductive'
<1>1. HealthTyped /\ \A q \in Probers : RoundObserves(q) /\ (Probers = {q} => RoundAlone(q))
  BY DEF HealthInductive
<1>2. NoRound \in RoundRow /\ NoRound.phase = "idle"
  BY QueueFacts, ModelFacts DEF NoRound, RoundRow, RoundPhases, HealthStatuses
<1>3. /\ rounds' \in [Probers -> RoundRow] /\ rounds'[p] = NoRound
      /\ \A q \in Probers \ {p} : rounds'[q] = rounds[q]
  BY <1>2, RoundMoves
<1>4. HealthTyped'
  BY <1>1, <1>3 DEF HealthTyped
<1>5. RoundObserves(p)'
  BY <1>2, <1>3 DEF RoundObserves, Idle
<1>6. ASSUME Probers = {p} PROVE RoundAlone(p)'
  BY <1>1, <1>2, <1>3, <1>6 DEF RoundAlone, Idle
<1> QED BY <1>3, <1>4, <1>5, <1>6, OthersRest

\* A step that keeps the queue and records nothing.
LEMMA RoundGoesOn ==
    ASSUME HealthInductive, NEW p \in Probers, NEW row \in RoundRow,
           rounds' = [rounds EXCEPT ![p] = row], ~Idle(p),
           row.queue = rounds[p].queue, row.now = rounds[p].now,
           \/ row.phase = rounds[p].phase /\ row.outcome = rounds[p].outcome /\ (~row.late => ~rounds[p].late)
           \/ /\ row.phase = "record" /\ rounds[p].phase = "probe" /\ ~NothingLeft(p)
              /\ ~row.late => row.outcome = ProbeModel(upstream[RowModel(p)]),
           UNCHANGED <<upstream, probed, announced, lostAlerts, seenSince, roundCount>>
    PROVE  HealthInductive'
<1>1. HealthTyped /\ \A q \in Probers : RoundObserves(q) /\ (Probers = {q} => RoundAlone(q))
  BY DEF HealthInductive
<1>2. /\ rounds' \in [Probers -> RoundRow] /\ rounds'[p] = row
      /\ \A q \in Probers \ {p} : rounds'[q] = rounds[q]
  BY RoundMoves
<1>3. HealthTyped'
  BY <1>1, <1>2 DEF HealthTyped
<1>4. Place(p)' = Place(p) /\ RowModel(p)' = RowModel(p) /\ Current(p)' = Current(p) /\ (NothingLeft(p)' <=> NothingLeft(p))
  BY <1>2 DEF Place, RowModel, Current, NothingLeft
<1>5. RoundObserves(p)'
  <2>1. CASE row.phase = rounds[p].phase /\ row.outcome = rounds[p].outcome /\ (~row.late => ~rounds[p].late)
    BY <1>1, <1>2, <1>4, <2>1 DEF RoundObserves, Idle
  <2>2. CASE /\ row.phase = "record" /\ rounds[p].phase = "probe" /\ ~NothingLeft(p)
             /\ ~row.late => row.outcome = ProbeModel(upstream[RowModel(p)])
    <3>1. RowModel(p) \in ModelSet
      BY <1>1, <2>2, PlaceFacts
    <3> QED BY <1>1, <1>2, <1>4, <2>2, <3>1 DEF RoundObserves, Idle
  <2> QED BY <2>1, <2>2
<1>6. ASSUME Probers = {p} PROVE RoundAlone(p)'
  <2>1. RoundAlone(p)
    BY <1>1, <1>6
  <2>2. rounds'[p].phase = "notify" <=> rounds[p].phase = "notify"
    BY <1>2
  <2>3. rounds'[p].phase = "notify" => rounds'[p].outcome = rounds[p].outcome
    BY <1>2
  <2> QED BY <1>2, <1>4, <2>1, <2>2, <2>3 DEF RoundAlone, Idle
<1> QED BY <1>2, <1>3, <1>5, <1>6, OthersRest

LEMMA DeadlinePreserves ==
    ASSUME HealthInductive, NEW p \in Probers, Deadline(p)
    PROVE  HealthInductive'
<1> DEFINE row == [rounds[p] EXCEPT !.late = TRUE]
<1>1. rounds[p] \in RoundRow
  BY DEF HealthInductive, HealthTyped
<1>2. /\ row \in RoundRow /\ row.queue = rounds[p].queue /\ row.now = rounds[p].now
      /\ row.phase = rounds[p].phase /\ row.outcome = rounds[p].outcome /\ row.late
  BY <1>1 DEF RoundRow
<1>3. rounds' = [rounds EXCEPT ![p] = row]
  BY DEF Deadline
<1> HIDE DEF row
<1> QED BY <1>2, <1>3, RoundGoesOn DEF Deadline

LEMMA CutOffPreserves ==
    ASSUME HealthInductive, NEW p \in Probers, CutOff(p)
    PROVE  HealthInductive'
<1>1. PICK o \in {"error", "unreachable"} :
          rounds' = [rounds EXCEPT ![p].phase = "record", ![p].outcome = o, ![p].late = TRUE]
  BY DEF CutOff
<1> DEFINE row == [rounds[p] EXCEPT !.phase = "record", !.outcome = o, !.late = TRUE]
<1>2. rounds[p] \in RoundRow
  BY DEF HealthInductive, HealthTyped
<1>3. /\ row \in RoundRow /\ row.queue = rounds[p].queue /\ row.now = rounds[p].now
      /\ row.phase = "record" /\ row.late
  BY <1>2 DEF RoundRow, RoundPhases, HealthStatuses
<1>4. rounds' = [rounds EXCEPT ![p] = row]
  BY <1>1
<1> HIDE DEF row
<1> QED BY <1>3, <1>4, RoundGoesOn DEF CutOff, Idle

LEMMA ProbePreserves ==
    ASSUME HealthInductive, NEW p \in Probers, Probe(p)
    PROVE  HealthInductive'
<1>1. CASE NothingLeft(p) \/ rounds[p].late
  BY <1>1, RoundEnds DEF Probe
<1>2. CASE ~(NothingLeft(p) \/ rounds[p].late)
  <2>1. PICK o \in HealthStatuses : /\ o = ProbeModel(upstream[RowModel(p)])
                                    /\ rounds' = [rounds EXCEPT ![p].phase = "record", ![p].outcome = o]
    BY <1>2, ProbesFind DEF Probe
  <2> DEFINE row == [rounds[p] EXCEPT !.phase = "record", !.outcome = o]
  <2>2. rounds[p] \in RoundRow
    BY DEF HealthInductive, HealthTyped
  <2>3. /\ row \in RoundRow /\ row.queue = rounds[p].queue /\ row.now = rounds[p].now
        /\ row.phase = "record" /\ row.outcome = o
    BY <2>2 DEF RoundRow, RoundPhases
  <2>4. rounds' = [rounds EXCEPT ![p] = row]
    BY <2>1
  <2> HIDE DEF row
  <2>5. /\ ~NothingLeft(p) /\ rounds[p].phase = "probe" /\ ~Idle(p)
        /\ UNCHANGED <<upstream, probed, announced, lostAlerts, seenSince, roundCount>>
    BY <1>2 DEF Probe, Idle
  <2>6. ~row.late => row.outcome = ProbeModel(upstream[RowModel(p)])
    BY <2>1, <2>3
  <2> QED BY <2>3, <2>4, <2>5, <2>6, RoundGoesOn
<1> QED BY <1>1, <1>2

\* What is recorded is of the row at hand; its start moves with the status only.
LEMMA Recorded ==
    ASSUME HealthInductive, NEW p \in Probers, RecordModelHealth(p), CanRecord(p)
    PROVE  /\ RowModel(p) \in ModelSet
           /\ probed' \in [ModelSet -> [enabled : BOOLEAN, status : HealthStatuses, since : 0 .. MaxRounds, checked : 0 .. MaxRounds]]
           /\ \A m \in ModelSet \ {RowModel(p)} : probed'[m] = probed[m]
           /\ probed'[RowModel(p)].status = rounds[p].outcome /\ probed'[RowModel(p)].checked = rounds[p].now
           /\ probed'[RowModel(p)].since = Since(probed[RowModel(p)], rounds[p].outcome, rounds[p].now)
<1>1. HealthTyped /\ ~NothingLeft(p)
  BY DEF HealthInductive, RoundObserves, RecordModelHealth
<1>2. PICK m \in ModelSet : m = RowModel(p)
  BY <1>1, PlaceFacts
<1>3. PICK o \in HealthStatuses : o = rounds[p].outcome
  BY <1>1 DEF HealthTyped, RoundRow
<1>4. PICK n \in 0 .. MaxRounds : n = rounds[p].now
  BY <1>1 DEF HealthTyped, RoundRow
<1>5. PICK s \in 0 .. MaxRounds : s = Since(probed[m], o, n)
  BY <1>1 DEF HealthTyped, Since
<1>6. probed' = [probed EXCEPT ![m].status = o, ![m].checked = n, ![m].since = s]
  BY <1>2, <1>3, <1>4, <1>5 DEF RecordModelHealth
<1>7. /\ probed' \in [ModelSet -> [enabled : BOOLEAN, status : HealthStatuses, since : 0 .. MaxRounds, checked : 0 .. MaxRounds]]
      /\ \A x \in ModelSet \ {m} : probed'[x] = probed[x]
      /\ probed'[m].status = o /\ probed'[m].checked = n /\ probed'[m].since = s
  <2> DEFINE HealthRows == [enabled : BOOLEAN, status : HealthStatuses, since : 0 .. MaxRounds, checked : 0 .. MaxRounds]
  <2>1. probed \in [ModelSet -> HealthRows]
    BY <1>1 DEF HealthTyped
  <2>2. PICK old \in HealthRows : old = probed[m]
    BY <2>1
  <2>3. PICK row : row = [old EXCEPT !.status = o, !.checked = n, !.since = s]
    OBVIOUS
  <2>4. row \in HealthRows /\ row.status = o /\ row.checked = n /\ row.since = s
    BY <2>3
  <2>5. probed' = [probed EXCEPT ![m] = row]
    BY <1>6, <2>2, <2>3
  <2> HIDE DEF HealthRows
  <2>6. probed' \in [ModelSet -> HealthRows] /\ probed'[m] = row /\ \A x \in ModelSet \ {m} : probed'[x] = probed[x]
    BY <2>1, <2>4, <2>5
  <2> QED BY <2>4, <2>6 DEF HealthRows
<1> QED BY <1>2, <1>3, <1>4, <1>5, <1>7

LEMMA RecordPreserves ==
    ASSUME HealthInductive, NEW p \in Probers, RecordModelHealth(p)
    PROVE  HealthInductive'
<1>1. CASE ~CanRecord(p)
  BY <1>1, RoundEnds DEF RecordModelHealth
<1>2. CASE CanRecord(p)
  <2> DEFINE row == [rounds[p] EXCEPT !.phase = "notify"]
  <2>1. HealthTyped /\ \A q \in Probers : RoundObserves(q) /\ (Probers = {q} => RoundAlone(q))
    BY DEF HealthInductive
  <2>2. rounds[p].phase = "record" /\ ~rounds[p].late /\ ~NothingLeft(p) /\ rounds[p] \in RoundRow
    BY <1>2, <2>1 DEF RecordModelHealth, CanRecord, RoundObserves, HealthTyped
  <2>3. /\ row \in RoundRow /\ row.phase = "notify" /\ row.queue = rounds[p].queue
        /\ row.outcome = rounds[p].outcome /\ row.now = rounds[p].now
    BY <2>2 DEF RoundRow, RoundPhases
  <2>4. rounds' = [rounds EXCEPT ![p] = row] /\ UNCHANGED <<upstream, announced, lostAlerts, seenSince, roundCount>>
    BY <1>2 DEF RecordModelHealth
  <2> HIDE DEF row
  <2>5. /\ rounds' \in [Probers -> RoundRow] /\ rounds'[p] = row
        /\ \A q \in Probers \ {p} : rounds'[q] = rounds[q]
    BY <2>3, <2>4, RoundMoves
  <2>6. Place(p)' = Place(p) /\ RowModel(p)' = RowModel(p) /\ Current(p)' = Current(p) /\ (NothingLeft(p)' <=> NothingLeft(p))
    BY <2>3, <2>5 DEF Place, RowModel, Current, NothingLeft
  <2>7. HealthTyped'
    BY <1>2, <2>1, <2>4, <2>5, Recorded DEF HealthTyped
  <2>8. RoundObserves(p)'
    BY <2>1, <2>2, <2>3, <2>4, <2>5, <2>6 DEF RoundObserves, Idle
  <2>9. ASSUME Probers = {p} PROVE RoundAlone(p)'
    <3>1. RoundAlone(p) /\ rounds[p].now = roundCount
      BY <2>1, <2>2, <2>9 DEF RoundAlone, Idle
    <3>2. PICK m \in ModelSet : m = RowModel(p)
      BY <1>2, Recorded
    <3>3. /\ \A x \in ModelSet \ {m} : probed'[x] = probed[x]
          /\ probed'[m].status = rounds[p].outcome /\ probed'[m].checked = rounds[p].now
          /\ probed'[m].since = Since(probed[m], rounds[p].outcome, rounds[p].now)
      BY <1>2, <3>2, Recorded
    <3>4. \A x \in ModelSet : probed'[x].since <= probed'[x].checked /\ probed'[x].checked <= roundCount'
      <4>1. probed'[m].since <= probed'[m].checked /\ probed'[m].checked <= roundCount'
        BY <2>1, <2>4, <3>1, <3>3 DEF HealthTyped, RoundAlone, Since
      <4> QED BY <2>4, <3>1, <3>3, <4>1 DEF RoundAlone
    <3>5. Place(p) \in DOMAIN ProbedModels /\ m = ProbedModels[Place(p)] /\ rounds[p].queue \in Queues
      BY <2>1, <2>2, <3>2, PlaceFacts DEF RowModel, RoundRow
    <3>6. \A i \in DOMAIN row.queue : i = Place(p) \/ row.queue[i] = probed'[ProbedModels[i]].status
      <4> SUFFICES ASSUME NEW i \in DOMAIN rounds[p].queue, i # Place(p) PROVE rounds[p].queue[i] = probed'[ProbedModels[i]].status
          BY <2>3
      <4>1. i \in DOMAIN ProbedModels
        BY <3>5, QueueFacts
      <4>2. ProbedModels[i] \in ModelSet \ {m}
        BY <3>5, <4>1, ModelFacts
      <4>3. rounds[p].queue[i] = probed[ProbedModels[i]].status
        BY <2>2, <3>1 DEF RoundAlone
      <4> QED BY <3>3, <4>2, <4>3
    <3>7. Current(p) = probed[m].status
      BY <2>1, <2>2, <3>1, <3>5, PlaceFacts DEF RoundAlone, Current
    <3>8. \A x \in ModelSet \ lostAlerts : announced[x] = IF x = m THEN Current(p) ELSE probed'[x].status
      BY <2>2, <3>1, <3>3, <3>7 DEF RoundAlone
    <3> QED BY <2>3, <2>4, <2>5, <2>6, <3>1, <3>2, <3>3, <3>4, <3>6, <3>8 DEF RoundAlone
  <2> QED BY <2>4, <2>5, <2>7, <2>8, <2>9, OthersRest
<1> QED BY <1>1, <1>2

LEMMA NotifyPreserves ==
    ASSUME HealthInductive, NEW p \in Probers, NEW ok \in BOOLEAN, NotifyModelHealthChange(p, ok)
    PROVE  HealthInductive'
<1>1. HealthTyped /\ \A q \in Probers : RoundObserves(q) /\ (Probers = {q} => RoundAlone(q))
  BY DEF HealthInductive
<1>2. rounds[p].phase = "notify" /\ ~NothingLeft(p) /\ rounds[p] \in RoundRow
  BY <1>1 DEF NotifyModelHealthChange, RoundObserves, HealthTyped
<1>3. PICK m \in ModelSet : m = RowModel(p)
  BY <1>1, <1>2, PlaceFacts
<1>4. PICK k \in DOMAIN rounds[p].queue : k = Place(p)
  BY <1>1, <1>2, PlaceFacts
<1>5. PICK queue \in Queues : queue = Restrict(rounds[p].queue, DOMAIN rounds[p].queue \ {k})
  <2> DEFINE D == DOMAIN rounds[p].queue \ {k}
             queue == [i \in D |-> rounds[p].queue[i]]
  <2>1. D \in SUBSET DOMAIN ProbedModels /\ queue \in [D -> HealthStatuses]
    BY <1>2, QueueFacts DEF RoundRow
  <2>2. queue \in Queues
    BY <2>1, QueueFacts
  <2> QED BY <2>2 DEF Restrict
<1>6. DOMAIN queue = DOMAIN rounds[p].queue \ {k} /\ \A i \in DOMAIN queue : queue[i] = rounds[p].queue[i]
  BY <1>5 DEF Restrict
<1> DEFINE row == [rounds[p] EXCEPT !.phase = "probe", !.queue = queue]
<1>7. /\ row \in RoundRow /\ row.phase = "probe" /\ row.queue = queue /\ row.now = rounds[p].now
  BY <1>2 DEF RoundRow, RoundPhases
<1>8. rounds' = [rounds EXCEPT ![p] = row] /\ UNCHANGED <<upstream, probed, seenSince, roundCount>>
  BY <1>4, <1>5 DEF NotifyModelHealthChange
<1> HIDE DEF row
<1>9. /\ rounds' \in [Probers -> RoundRow] /\ rounds'[p] = row
      /\ \A q \in Probers \ {p} : rounds'[q] = rounds[q]
  BY <1>7, <1>8, RoundMoves
<1>10. /\ announced' = IF ok /\ Changed(p) THEN [announced EXCEPT ![m] = rounds[p].outcome] ELSE announced
       /\ lostAlerts' = IF ~ok THEN lostAlerts \cup {m} ELSE IF Changed(p) THEN lostAlerts \ {m} ELSE lostAlerts
       /\ ok \/ Changed(p)
  BY <1>3 DEF NotifyModelHealthChange
<1>11. HealthTyped'
  BY <1>1, <1>2, <1>8, <1>9, <1>10 DEF HealthTyped, RoundRow
<1>12. RoundObserves(p)'
  BY <1>1, <1>2, <1>7, <1>8, <1>9 DEF RoundObserves, Idle
<1>13. ASSUME Probers = {p} PROVE RoundAlone(p)'
  <2>1. RoundAlone(p)
    BY <1>1, <1>13
  <2>2. probed[m].status = rounds[p].outcome
    BY <1>2, <1>3, <2>1 DEF RoundAlone
  <2>3. Changed(p) <=> rounds[p].outcome # Current(p)
    BY DEF Changed
  <2>4. \A x \in ModelSet \ lostAlerts : announced[x] = IF x = m THEN Current(p) ELSE probed[x].status
    BY <1>2, <1>3, <2>1 DEF RoundAlone
  <2>5. \A x \in ModelSet \ lostAlerts' : announced'[x] = probed[x].status
    <3>1. announced \in [ModelSet -> HealthStatuses]
      BY <1>1 DEF HealthTyped
    <3> QED BY <1>10, <2>2, <2>3, <2>4, <3>1
  <2>6. \A i \in DOMAIN queue : queue[i] = probed[ProbedModels[i]].status
    BY <1>2, <1>4, <1>6, <2>1 DEF RoundAlone
  <2>7. rounds[p].now = roundCount
    BY <1>2, <2>1 DEF RoundAlone, Idle
  <2> QED BY <1>7, <1>8, <1>9, <2>1, <2>5, <2>6, <2>7 DEF RoundAlone
<1> QED BY <1>8, <1>9, <1>11, <1>12, <1>13, OthersRest

LEMMA FlapPreserves ==
    ASSUME HealthInductive, NEW m \in ModelSet, NEW up \in Upstreams, Flap(m, up)
    PROVE  HealthInductive'
<1>1. HealthTyped /\ \A q \in Probers : RoundObserves(q) /\ (Probers = {q} => RoundAlone(q))
  BY DEF HealthInductive
<1>2. /\ upstream' = [upstream EXCEPT ![m] = up]
      /\ seenSince' = [p \in Probers |-> [seenSince[p] EXCEPT ![m] = @ \cup {ProbeModel(up)}]]
      /\ UNCHANGED <<probed, rounds, announced, lostAlerts, roundCount>>
  BY DEF Flap
<1>3. /\ upstream' \in [ModelSet -> Upstreams] /\ upstream'[m] = up
      /\ \A x \in ModelSet \ {m} : upstream'[x] = upstream[x]
  BY <1>1, <1>2 DEF HealthTyped
<1>4. ASSUME NEW p \in Probers
      PROVE  /\ seenSince'[p] \in [ModelSet -> SUBSET HealthStatuses]
             /\ seenSince'[p][m] = seenSince[p][m] \cup {ProbeModel(up)}
             /\ \A x \in ModelSet \ {m} : seenSince'[p][x] = seenSince[p][x]
  <2>1. seenSince'[p] = [seenSince[p] EXCEPT ![m] = seenSince[p][m] \cup {ProbeModel(up)}]
    BY <1>2
  <2>2. seenSince[p] \in [ModelSet -> SUBSET HealthStatuses]
    BY <1>1 DEF HealthTyped
  <2> QED BY <2>1, <2>2, ProbesFind
<1>5. HealthTyped'
  <2>1. seenSince' = [p \in Probers |-> seenSince'[p]]
    BY <1>2
  <2>2. seenSince' \in [Probers -> [ModelSet -> SUBSET HealthStatuses]]
    BY <1>4, <2>1
  <2> QED BY <1>1, <1>2, <1>3, <2>2 DEF HealthTyped
<1>6. ASSUME NEW p \in Probers PROVE RoundObserves(p)'
  <2>1. RoundObserves(p)
    BY <1>1
  <2>2. (NothingLeft(p)' <=> NothingLeft(p)) /\ RowModel(p)' = RowModel(p) /\ (Idle(p)' <=> Idle(p))
    BY <1>2 DEF NothingLeft, RowModel, Place, Idle
  <2>3. \A x \in ModelSet : seenSince[p][x] \subseteq seenSince'[p][x]
    BY <1>4
  <2>4. ~Idle(p) => \A x \in ModelSet : ProbeModel(upstream'[x]) \in seenSince'[p][x]
    BY <1>3, <1>4, <2>1 DEF RoundObserves
  <2>5. ~NothingLeft(p) => RowModel(p) \in ModelSet
    BY <1>1, PlaceFacts
  <2> QED BY <1>2, <2>1, <2>2, <2>3, <2>4, <2>5 DEF RoundObserves
<1>7. ASSUME NEW p \in Probers, Probers = {p} PROVE RoundAlone(p)'
  BY <1>1, <1>2, <1>7 DEF RoundAlone, Idle, Place, RowModel, Current
<1> QED BY <1>5, <1>6, <1>7 DEF HealthInductive

LEMMA Enabled ==
    ASSUME HealthInductive, NEW m \in ModelSet, NEW e \in BOOLEAN, Enable(m, e)
    PROVE  /\ probed' \in [ModelSet -> [enabled : BOOLEAN, status : HealthStatuses, since : 0 .. MaxRounds, checked : 0 .. MaxRounds]]
           /\ \A x \in ModelSet : /\ probed'[x].status = probed[x].status
                                  /\ probed'[x].since = probed[x].since /\ probed'[x].checked = probed[x].checked
  BY DEF HealthInductive, HealthTyped, Enable

LEMMA EnablePreserves ==
    ASSUME HealthInductive, NEW m \in ModelSet, NEW e \in BOOLEAN, Enable(m, e)
    PROVE  HealthInductive'
<1>1. HealthTyped /\ \A q \in Probers : RoundObserves(q) /\ (Probers = {q} => RoundAlone(q))
  BY DEF HealthInductive
<1>2. UNCHANGED <<upstream, rounds, announced, lostAlerts, seenSince, roundCount>>
  BY DEF Enable
<1>3. HealthTyped'
  BY <1>1, <1>2, Enabled DEF HealthTyped
<1>4. \A p \in Probers : RoundObserves(p)'
  BY <1>1, <1>2 DEF RoundObserves, Idle, NothingLeft, RowModel, Place
<1>5. ASSUME NEW p \in Probers, Probers = {p} PROVE RoundAlone(p)'
  <2>1. RoundAlone(p)
    BY <1>1, <1>5
  <2>2. \A i \in DOMAIN rounds[p].queue : ProbedModels[i] \in ModelSet
    BY <1>1, QueueFacts, ModelFacts DEF HealthTyped, RoundRow
  <2>3. rounds[p].phase = "notify" => RowModel(p) \in ModelSet
    BY <1>1, PlaceFacts DEF RoundObserves
  <2> QED BY <1>2, <2>1, <2>2, <2>3, Enabled DEF RoundAlone, Idle, Place, RowModel, Current
<1> QED BY <1>3, <1>4, <1>5 DEF HealthInductive

LEMMA StepsKeepHealth == HealthInductive /\ [HealthNext]_healthVars => HealthInductive'
<1> SUFFICES ASSUME HealthInductive, [HealthNext]_healthVars PROVE HealthInductive'
    OBVIOUS
<1>1. CASE \E p \in Probers : ProberStep(p)
  BY <1>1, StartRoundPreserves, ProbePreserves, CutOffPreserves, DeadlinePreserves, RecordPreserves,
     NotifyPreserves DEF ProberStep
<1>2. CASE \E m \in ModelSet : \E up \in Upstreams : Flap(m, up)
  BY <1>2, FlapPreserves
<1>3. CASE \E m \in ModelSet : \E e \in BOOLEAN : Enable(m, e)
  BY <1>3, EnablePreserves
<1>4. CASE UNCHANGED healthVars
  BY <1>4 DEF healthVars, HealthInductive, HealthTyped, RoundObserves, RoundAlone, Idle, NothingLeft, Place,
              RowModel, Current
<1> QED BY <1>1, <1>2, <1>3, <1>4 DEF HealthNext

LEMMA HealthInductiveIsEnough == HealthInductive => HealthInvariant
<1> SUFFICES ASSUME HealthInductive PROVE HealthInvariant
    OBVIOUS
<1>1. HealthTyped /\ \A q \in Probers : RoundObserves(q) /\ (Probers = {q} => RoundAlone(q))
  BY DEF HealthInductive
<1>2. Cardinality(Probers) = 1 => \E p \in Probers : Probers = {p} /\ RoundAlone(p)
  BY <1>1, HealthAssumption, FS_Singleton
<1>3. HealthTypeOK
  BY <1>1, <1>2 DEF HealthTyped, HealthTypeOK, RoundAlone
<1>4. StatusWasObserved
  BY <1>1 DEF StatusWasObserved, RoundObserves
<1>5. AlertsFollowStatus
  BY <1>2 DEF AlertsFollowStatus, RoundAlone, Idle
<1> QED BY <1>3, <1>4, <1>5 DEF HealthInvariant

\* Recorded statuses were observed within their round, and between the rounds of a single
\* process the last alert about a model names its status unless it was lost
\* (CheckModelHealth, recordModelHealth, notifyModelHealthChange).
THEOREM HealthIsObserved == HealthSpec => []HealthInvariant
<1>1. HealthInit => HealthInductive
  BY InitHealth
<1>2. HealthInductive /\ [HealthNext]_healthVars => HealthInductive'
  BY StepsKeepHealth
<1>3. HealthInductive => HealthInvariant
  BY HealthInductiveIsEnough
<1> QED BY <1>1, <1>2, <1>3, PTL DEF HealthSpec

LEMMA SinceStays ==
    ASSUME HealthInductive, [HealthNext]_healthVars, NEW m \in ModelSet, probed'[m].since # probed[m].since
    PROVE  probed'[m].status # probed[m].status \/ probed[m].since = 0
<1>1. CASE \E p \in Probers : RecordModelHealth(p) /\ CanRecord(p)
  <2>1. PICK p \in Probers : RecordModelHealth(p) /\ CanRecord(p)
    BY <1>1
  <2>2. m = RowModel(p)
    BY <2>1, Recorded
  <2> QED BY <2>1, <2>2, Recorded DEF Since
<1>2. CASE \E x \in ModelSet : \E e \in BOOLEAN : Enable(x, e)
  BY <1>2, Enabled
<1>3. CASE UNCHANGED probed
  BY <1>3
<1> QED BY <1>1, <1>2, <1>3 DEF HealthNext, ProberStep, StartRound, Probe, CutOff, Deadline, RecordModelHealth,
                               NotifyModelHealthChange, Flap, healthVars

\* The start of a status moves only when the status does (recordModelHealth).
THEOREM StatusKeepsItsStart == HealthSpec => SinceMarksTheChange
<1>1. HealthInductive /\ [HealthNext]_healthVars =>
          [\A m \in ModelSet : probed'[m].since # probed[m].since =>
               probed'[m].status # probed[m].status \/ probed[m].since = 0]_healthVars
  BY SinceStays
<1>2. HealthInit => HealthInductive
  BY InitHealth
<1>3. HealthInductive /\ [HealthNext]_healthVars => HealthInductive'
  BY StepsKeepHealth
<1> QED BY <1>1, <1>2, <1>3, PTL DEF HealthSpec, SinceMarksTheChange

------------------------------------------------------------------------------
(* Grants: the inductive invariant                                         *)

GrantRow == [subject : Subjects, birth : 0..MaxBirths]

WriteRow ==
    [kind : {"none", "create", "delete", "grant"},
     step : {"idle", "parent", "insert", "clean", "remove"},
     subject : Subjects \cup {NoTeam}, parent : TeamIds \cup {NoTeam}, seen : SUBSET GrantRow]

Locking(wr) == wr.kind \in {"delete", "grant"}

\* What one transaction remembers: its subject is locked and exists, a deletion
\* that has looked at the grants has seen them all.
WriteOK(ss, ls, gs, wr) ==
    /\ wr.kind = "none" => wr = NoWrite
    /\ wr.kind # "none" => wr.subject \in Subjects
    /\ Locking(wr) => wr.subject \in ls /\ wr.subject \in ss
    /\ wr.kind = "create" /\ wr.parent # NoTeam => wr.subject \in TeamIds
    /\ wr.kind = "delete" /\ wr.step = "remove" =>
          \A g \in gs : g.subject = wr.subject => g \in wr.seen

WritersHold ==
    /\ writes \in [Writers -> WriteRow]
    /\ \A w \in Writers : WriteOK(subjects, locks, grants, writes[w])
    /\ \A v, w \in Writers : v # w /\ Locking(writes[v]) /\ Locking(writes[w]) =>
          writes[v].subject # writes[w].subject

\* A team is below an older one: a parent comes before the team, or is the team itself.
Ranked(rank, ss, pa) ==
    \A t \in ss \cap TeamIds :
        pa[t] \in {NoTeam, t} \/ (pa[t] \in ss \cap TeamIds /\ rank[pa[t]] < rank[t])

TeamsRanked == \E rank \in [TeamIds -> Nat] : Ranked(rank, subjects, parent)

GrantsInductive ==
    /\ GrantsTypeOK
    /\ WritersHold
    /\ GrantsFollowSubject
    /\ TeamsRanked

------------------------------------------------------------------------------
(* The tree                                                                *)

LEMMA AncestorsRankLower ==
    ASSUME GrantsTypeOK, NEW rank \in [TeamIds -> Nat], Ranked(rank, subjects, parent),
           NEW t \in subjects \cap TeamIds, NEW u \in Ancestors(t)
    PROVE  u \in subjects \cap TeamIds /\ (u = t \/ rank[u] < rank[t])
<1> DEFINE S == {x \in subjects \cap TeamIds : x = t \/ rank[x] < rank[t]}
<1>1. S \in SUBSET TeamIds
  OBVIOUS
<1>2. parent[t] \in S \cup {NoTeam}
  BY DEF Ranked
<1>3. ASSUME NEW x \in S PROVE parent[x] \in S \cup {NoTeam}
  <2>1. x \in subjects \cap TeamIds /\ (x = t \/ rank[x] < rank[t])
    OBVIOUS
  <2>2. CASE parent[x] \in {NoTeam, x}
    BY <2>1, <2>2
  <2>3. CASE parent[x] \in subjects \cap TeamIds /\ rank[parent[x]] < rank[x]
    <3>1. rank[x] \in Nat /\ rank[parent[x]] \in Nat /\ rank[t] \in Nat
      BY <2>1, <2>3
    <3>2. rank[parent[x]] < rank[t]
      BY <2>1, <2>3, <3>1
    <3> QED
      BY <2>3, <3>2
  <2> QED
    BY <2>1, <2>2, <2>3 DEF Ranked
<1> HIDE DEF S
<1>4. u \in S
  BY <1>1, <1>2, <1>3 DEF Ancestors
<1> QED
  BY <1>4 DEF S

LEMMA RankedIsATree == ASSUME GrantsTypeOK, TeamsRanked PROVE TeamsStayATree
<1>1. PICK rank \in [TeamIds -> Nat] : Ranked(rank, subjects, parent)
  BY DEF TeamsRanked
<1>2. ASSUME NEW t \in subjects \cap TeamIds, NEW u \in Ancestors(t) \ {t}
      PROVE  u \in subjects /\ t \notin Ancestors(u)
  <2>1. u \in subjects \cap TeamIds /\ rank[u] < rank[t]
    BY <1>1, <1>2, AncestorsRankLower
  <2>2. ~(rank[t] < rank[u])
    <3>1. rank[u] \in Nat /\ rank[t] \in Nat
      BY <2>1
    <3> QED
      BY <2>1, <3>1
  <2>3. t \in Ancestors(u) => t = u \/ rank[t] < rank[u]
    BY <1>1, <2>1, AncestorsRankLower
  <2> QED
    BY <1>2, <2>1, <2>2, <2>3
<1> QED
  BY <1>2 DEF TeamsStayATree

------------------------------------------------------------------------------
(* One step                                                                *)

LEMMA NoWriteFields ==
    /\ NoWrite \in WriteRow /\ NoWrite.kind = "none" /\ NoWrite.step = "idle"
    /\ \A ss, ls, gs : WriteOK(ss, ls, gs, NoWrite) /\ ~Locking(NoWrite)
<1>1. /\ NoWrite \in WriteRow /\ NoWrite.kind = "none" /\ NoWrite.step = "idle"
  BY DEF NoWrite, WriteRow, NoTeam
<1> QED
  BY <1>1 DEF WriteOK, Locking

\* One writer moves to a row that is in order, and the rows of the others are
\* still in order: then the writers hold what they should.
LEMMA WritersKept ==
    ASSUME WritersHold, NEW w \in Writers, NEW wr \in WriteRow,
           writes' = [writes EXCEPT ![w] = wr],
           WriteOK(subjects', locks', grants', wr),
           \A v \in Writers \ {w} : WriteOK(subjects', locks', grants', writes[v]),
           Locking(wr) => \A v \in Writers \ {w} :
               Locking(writes[v]) => writes[v].subject # wr.subject
    PROVE  WritersHold'
<1>1. writes' \in [Writers -> WriteRow]
  BY DEF WritersHold
<1>2. \A v \in Writers : writes'[v] = IF v = w THEN wr ELSE writes[v]
  BY DEF WritersHold
<1>3. \A v \in Writers : WriteOK(subjects', locks', grants', writes'[v])
  BY <1>2
<1>4. \A x, v \in Writers : x # v /\ Locking(writes'[x]) /\ Locking(writes'[v]) =>
          writes'[x].subject # writes'[v].subject
  BY <1>2 DEF WritersHold
<1> QED
  BY <1>1, <1>3, <1>4 DEF WritersHold

\* What a step gives of types, grants and the tree when it changes only homes,
\* locks and the rows of writers.
LEMMA RowsKept ==
    ASSUME GrantsInductive, UNCHANGED <<subjects, births, parent, grants>>,
           homes' \subseteq TeamIds \cap subjects, locks' \subseteq Subjects
    PROVE  GrantsTypeOK' /\ GrantsFollowSubject' /\ TeamsRanked'
<1>1. GrantsTypeOK'
  BY DEF GrantsInductive, GrantsTypeOK
<1>2. GrantsFollowSubject'
  BY DEF GrantsInductive, GrantsFollowSubject
<1>3. TeamsRanked'
  BY DEF GrantsInductive, TeamsRanked
<1> QED
  BY <1>1, <1>2, <1>3

LEMMA GenerateKept ==
    ASSUME GrantsInductive, NEW w \in Writers, NEW s \in Subjects,
           NEW p \in TeamIds \cup {NoTeam}, GenerateIdentifier(w, s, p)
    PROVE  GrantsInductive'
<1> DEFINE st == IF p = NoTeam THEN "insert" ELSE "parent"
           wr == [NoWrite EXCEPT !.kind = "create", !.subject = s, !.parent = p, !.step = st]
<1>0. GrantsTypeOK /\ WritersHold
  BY DEF GrantsInductive
<1>1. writes' = [writes EXCEPT ![w] = wr] /\ UNCHANGED <<subjects, births, parent, homes, grants, locks>>
  BY DEF GenerateIdentifier, Rows
<1>2. wr \in WriteRow /\ wr.kind = "create" /\ wr.step = st /\ wr.subject = s /\ wr.parent = p
  BY NoWriteFields DEF WriteRow
<1>3. p # NoTeam => s \in TeamIds
  BY DEF GenerateIdentifier
<1> HIDE DEF wr
<1>4. WriteOK(subjects', locks', grants', wr) /\ ~Locking(wr)
  BY <1>2, <1>3 DEF WriteOK, Locking
<1>5. \A v \in Writers \ {w} : WriteOK(subjects', locks', grants', writes[v])
  BY <1>0, <1>1 DEF WritersHold
<1>6. WritersHold'
  BY <1>0, <1>1, <1>2, <1>4, <1>5, WritersKept
<1>7. GrantsTypeOK' /\ GrantsFollowSubject' /\ TeamsRanked'
  BY <1>0, <1>1, RowsKept DEF GrantsTypeOK
<1> QED
  BY <1>6, <1>7 DEF GrantsInductive

\* A writer that is over, or fails: it holds nothing any more.
LEMMA WriterIsOver ==
    ASSUME WritersHold, NEW w \in Writers, Over(w),
           \A v \in Writers \ {w} : WriteOK(subjects', locks', grants', writes[v])
    PROVE  WritersHold'
<1>1. writes' = [writes EXCEPT ![w] = NoWrite]
  BY DEF Over
<1> QED
  BY <1>1, NoWriteFields, WritersKept

LEMMA ReadParentKept ==
    ASSUME GrantsInductive, NEW w \in Writers, ReadParent(w)
    PROVE  GrantsInductive'
<1>0. GrantsTypeOK /\ WritersHold
  BY DEF GrantsInductive
<1>1. UNCHANGED <<subjects, births, parent, homes, grants, locks>>
  BY DEF ReadParent, Rows
<1>2. GrantsTypeOK' /\ GrantsFollowSubject' /\ TeamsRanked'
  BY <1>0, <1>1, RowsKept DEF GrantsTypeOK
<1>3. \A v \in Writers : WriteOK(subjects', locks', grants', writes[v])
  BY <1>0, <1>1 DEF WritersHold
<1>4. CASE Over(w)
  BY <1>0, <1>2, <1>3, <1>4, WriterIsOver DEF GrantsInductive
<1>5. CASE To(w, "insert")
  <2> DEFINE wr == [writes[w] EXCEPT !.step = "insert"]
  <2>1. writes[w] \in WriteRow /\ writes[w].kind = "create" /\ WriteOK(subjects, locks, grants, writes[w])
    BY <1>0 DEF WritersHold, ReadParent, Step
  <2>2. /\ wr \in WriteRow /\ wr.kind = "create" /\ wr.subject = writes[w].subject
        /\ wr.parent = writes[w].parent
    BY <2>1 DEF WriteRow
  <2>3. writes' = [writes EXCEPT ![w] = wr]
    BY <1>5 DEF To
  <2> HIDE DEF wr
  <2>4. WriteOK(subjects', locks', grants', wr) /\ ~Locking(wr)
    BY <2>1, <2>2 DEF WriteOK, Locking
  <2>5. WritersHold'
    BY <1>0, <1>3, <2>2, <2>3, <2>4, WritersKept
  <2> QED
    BY <1>2, <2>5 DEF GrantsInductive
<1> QED
  BY <1>4, <1>5 DEF ReadParent

LEMMA InsertSubjectKept ==
    ASSUME GrantsInductive, NEW w \in Writers, InsertSubject(w)
    PROVE  GrantsInductive'
<1> DEFINE s == writes[w].subject
           p == writes[w].parent
<1>0. GrantsTypeOK /\ WritersHold /\ GrantsFollowSubject
  BY DEF GrantsInductive
<1>1. Over(w) /\ locks' = locks /\ homes' = homes /\ grants' = grants
  BY DEF InsertSubject, Rows
<1>2. s \in Subjects /\ p \in TeamIds \cup {NoTeam} /\ (p # NoTeam => s \in TeamIds)
  <2>1. /\ writes[w] \in WriteRow /\ writes[w].kind = "create"
        /\ WriteOK(subjects, locks, grants, writes[w])
    BY <1>0 DEF WritersHold, InsertSubject, Step
  <2> QED
    BY <2>1 DEF WriteOK, WriteRow
<1>3. CASE UNCHANGED <<subjects, births, parent>>
  <2>1. GrantsTypeOK' /\ GrantsFollowSubject' /\ TeamsRanked'
    BY <1>0, <1>1, <1>3, RowsKept DEF GrantsTypeOK
  <2>2. \A v \in Writers : WriteOK(subjects', locks', grants', writes[v])
    BY <1>0, <1>1, <1>3 DEF WritersHold
  <2> QED
    BY <1>0, <1>1, <2>1, <2>2, WriterIsOver DEF GrantsInductive
<1>4. CASE /\ s \notin subjects /\ (p = NoTeam \/ p \in subjects \cup {s}) /\ births[s] # MaxBirths
           /\ subjects' = subjects \cup {s}
           /\ births' = [births EXCEPT ![s] = @ + 1]
           /\ parent' = IF s \in TeamIds THEN [parent EXCEPT ![s] = p] ELSE parent
  <2>1. GrantsTypeOK'
    <3>1. births[s] \in 0..MaxBirths /\ births[s] + 1 \in 0..MaxBirths
      BY <1>0, <1>2, <1>4, GrantsAssumption DEF GrantsTypeOK
    <3>2. births' \in [Subjects -> 0..MaxBirths]
      BY <1>0, <1>4, <3>1 DEF GrantsTypeOK
    <3>3. parent' \in [TeamIds -> TeamIds \cup {NoTeam}]
      BY <1>0, <1>2, <1>4 DEF GrantsTypeOK
    <3> QED
      BY <1>0, <1>1, <1>2, <1>4, <3>2, <3>3 DEF GrantsTypeOK
  <2>2. GrantsFollowSubject'
    BY <1>0, <1>1, <1>4 DEF GrantsFollowSubject, GrantsTypeOK
  <2>3. WritersHold'
    <3>1. \A v \in Writers : WriteOK(subjects', locks', grants', writes[v])
      BY <1>0, <1>1, <1>4 DEF WritersHold, WriteOK
    <3> QED
      BY <1>0, <1>1, <3>1, WriterIsOver
  <2>4. TeamsRanked'
    <3>1. PICK rank \in [TeamIds -> Nat] : Ranked(rank, subjects, parent)
      BY DEF GrantsInductive, TeamsRanked
    <3>2. CASE s \notin TeamIds
      <4>1. Ranked(rank, subjects', parent')
        BY <1>4, <3>1, <3>2 DEF Ranked
      <4> QED
        BY <4>1 DEF TeamsRanked
    <3>3. CASE s \in TeamIds
      <4> DEFINE top == IF p \in TeamIds THEN rank[p] + 1 ELSE 0
                 higher == [rank EXCEPT ![s] = top]
      <4>1. top \in Nat /\ higher \in [TeamIds -> Nat]
        <5>1. \A t \in TeamIds : rank[t] \in Nat
          OBVIOUS
        <5>2. top \in Nat
          BY <5>1
        <5> HIDE DEF top
        <5> QED
          BY <5>2
      <4>2. \A t \in TeamIds : higher[t] = IF t = s THEN top ELSE rank[t]
        OBVIOUS
      <4>3. \A t \in TeamIds : parent'[t] = IF t = s THEN p ELSE parent[t]
        BY <1>0, <1>4, <3>3 DEF GrantsTypeOK
      <4>4. ASSUME NEW t \in subjects' \cap TeamIds
            PROVE  \/ parent'[t] \in {NoTeam, t}
                   \/ parent'[t] \in subjects' \cap TeamIds /\ higher[parent'[t]] < higher[t]
        <5>1. CASE t = s
          <6>1. CASE p \in {NoTeam, s}
            BY <4>3, <4>4, <5>1, <6>1
          <6>2. CASE p \in subjects /\ p # s /\ p \in TeamIds
            <7>1. rank[p] \in Nat /\ top = rank[p] + 1 /\ higher[p] = rank[p] /\ higher[s] = top
              BY <3>3, <4>2, <6>2
            <7>2. higher[p] < higher[s]
              BY <7>1
            <7> QED
              BY <1>4, <4>3, <4>4, <5>1, <6>2, <7>2
          <6> QED
            BY <1>2, <1>4, <6>1, <6>2
        <5>2. CASE t # s
          <6>1. t \in subjects \cap TeamIds
            BY <1>4, <4>4, <5>2
          <6>2. \/ parent[t] \in {NoTeam, t}
                \/ parent[t] \in subjects \cap TeamIds /\ rank[parent[t]] < rank[t]
            BY <3>1, <6>1 DEF Ranked
          <6> QED
            BY <1>4, <4>2, <4>3, <5>2, <6>1, <6>2
        <5> QED
          BY <5>1, <5>2
      <4>5. Ranked(higher, subjects', parent')
        BY <4>4 DEF Ranked
      <4> QED
        BY <4>1, <4>5 DEF TeamsRanked
    <3> QED
      BY <3>2, <3>3
  <2> QED
    BY <2>1, <2>2, <2>3, <2>4 DEF GrantsInductive
<1> QED
  BY <1>3, <1>4 DEF InsertSubject, Rows

\* A writer takes the lock of a subject that nobody holds.
LEMMA LockTaken ==
    ASSUME GrantsInductive, NEW w \in Writers, NEW s \in subjects, s \notin locks,
           NEW wr \in WriteRow, writes' = [writes EXCEPT ![w] = wr],
           Locking(wr), wr.subject = s, wr.step # "remove",
           locks' = locks \cup {s}, UNCHANGED <<subjects, births, parent, homes, grants>>
    PROVE  GrantsInductive'
<1>0. GrantsTypeOK /\ WritersHold
  BY DEF GrantsInductive
<1>1. WriteOK(subjects', locks', grants', wr)
  BY <1>0 DEF WriteOK, Locking, GrantsTypeOK
<1>2. \A v \in Writers : WriteOK(subjects', locks', grants', writes[v])
  BY <1>0 DEF WritersHold, WriteOK
<1>3. \A v \in Writers : Locking(writes[v]) => writes[v].subject # s
  BY <1>0 DEF WritersHold, WriteOK
<1>4. WritersHold'
  BY <1>0, <1>1, <1>2, <1>3, WritersKept
<1>5. GrantsTypeOK' /\ GrantsFollowSubject' /\ TeamsRanked'
  BY <1>0, RowsKept DEF GrantsTypeOK
<1> QED
  BY <1>4, <1>5 DEF GrantsInductive

LEMMA DeleteLockKept ==
    ASSUME GrantsInductive, NEW w \in Writers, NEW s \in Subjects, DeleteLock(w, s)
    PROVE  GrantsInductive'
<1> DEFINE wr == [NoWrite EXCEPT !.kind = "delete", !.step = "clean", !.subject = s]
<1>1. wr \in WriteRow /\ wr.kind = "delete" /\ wr.step = "clean" /\ wr.subject = s
  BY NoWriteFields DEF WriteRow
<1>2. /\ s \in subjects /\ s \notin locks /\ writes' = [writes EXCEPT ![w] = wr]
      /\ locks' = locks \cup {s} /\ UNCHANGED <<subjects, births, parent, homes, grants>>
  BY DEF DeleteLock, Rows
<1> HIDE DEF wr
<1>3. Locking(wr)
  BY <1>1 DEF Locking
<1> QED
  BY <1>1, <1>2, <1>3, LockTaken

LEMMA GuardSubjectKept ==
    ASSUME GrantsInductive, NEW w \in Writers, NEW s \in Subjects, GuardSubject(w, s)
    PROVE  GrantsInductive'
<1> DEFINE wr == [NoWrite EXCEPT !.kind = "grant", !.step = "insert", !.subject = s]
<1>1. wr \in WriteRow /\ wr.kind = "grant" /\ wr.step = "insert" /\ wr.subject = s
  BY NoWriteFields DEF WriteRow
<1>2. /\ s \in subjects /\ s \notin locks /\ writes' = [writes EXCEPT ![w] = wr]
      /\ locks' = locks \cup {s} /\ UNCHANGED <<subjects, births, parent, homes, grants>>
  BY DEF GuardSubject, Rows
<1> HIDE DEF wr
<1>3. Locking(wr)
  BY <1>1 DEF Locking
<1> QED
  BY <1>1, <1>2, <1>3, LockTaken

LEMMA DeleteGrantsKept ==
    ASSUME GrantsInductive, NEW w \in Writers, DeleteGrants(w)
    PROVE  GrantsInductive'
<1> DEFINE found == {g \in grants : g.subject = writes[w].subject}
           moved == [writes[w] EXCEPT !.step = "remove"]
           wr == [moved EXCEPT !.seen = found]
<1>0. GrantsTypeOK /\ WritersHold
  BY DEF GrantsInductive
<1>1. UNCHANGED <<subjects, births, parent, homes, grants, locks>>
  BY DEF DeleteGrants, Rows
<1>2. writes[w] \in WriteRow /\ writes[w].kind = "delete" /\ WriteOK(subjects, locks, grants, writes[w])
  BY <1>0 DEF WritersHold, DeleteGrants, Step
<1>3. moved \in WriteRow /\ moved.kind = "delete" /\ moved.step = "remove"
      /\ moved.subject = writes[w].subject
  BY <1>2 DEF WriteRow
<1>4. found \in SUBSET GrantRow
  BY <1>0 DEF GrantsTypeOK, GrantRow
<1>5. writes' = [writes EXCEPT ![w] = wr]
  BY <1>0 DEF DeleteGrants, WritersHold, WriteRow
<1> HIDE DEF moved, found
<1>6. /\ wr \in WriteRow /\ wr.kind = "delete" /\ wr.subject = writes[w].subject /\ wr.seen = found
  BY <1>3, <1>4 DEF WriteRow
<1> HIDE DEF wr
<1>7. WriteOK(subjects', locks', grants', wr)
  BY <1>1, <1>2, <1>6 DEF WriteOK, Locking, found
<1>8. \A v \in Writers : WriteOK(subjects', locks', grants', writes[v])
  BY <1>0, <1>1 DEF WritersHold
<1>9. \A v \in Writers \ {w} : Locking(writes[v]) => writes[v].subject # wr.subject
  BY <1>0, <1>2, <1>6 DEF WritersHold, Locking
<1>10. WritersHold'
  BY <1>0, <1>5, <1>6, <1>7, <1>8, <1>9, WritersKept
<1>11. GrantsTypeOK' /\ GrantsFollowSubject' /\ TeamsRanked'
  BY <1>0, <1>1, RowsKept DEF GrantsTypeOK
<1> QED
  BY <1>10, <1>11 DEF GrantsInductive

\* The others keep what they hold when w gives up its lock.
LEMMA OthersHold ==
    ASSUME WritersHold, NEW w \in Writers, Locking(writes[w]),
           NEW s, s = writes[w].subject, locks' = locks \ {s},
           subjects \ {s} \subseteq subjects',
           \A g \in grants' : g.subject # s => g \in grants
    PROVE  \A v \in Writers \ {w} : WriteOK(subjects', locks', grants', writes[v])
<1> SUFFICES ASSUME NEW v \in Writers \ {w}
             PROVE  WriteOK(subjects', locks', grants', writes[v])
  OBVIOUS
<1>1. WriteOK(subjects, locks, grants, writes[v])
  BY DEF WritersHold
<1>2. Locking(writes[v]) => writes[v].subject # s
  BY DEF WritersHold
<1> QED
  BY <1>1, <1>2 DEF WriteOK, Locking

LEMMA RemoveSubjectKept ==
    ASSUME GrantsInductive, NEW w \in Writers, RemoveSubject(w)
    PROVE  GrantsInductive'
<1> DEFINE s == writes[w].subject
<1>0. GrantsTypeOK /\ WritersHold /\ GrantsFollowSubject
  BY DEF GrantsInductive
<1>1. Over(w) /\ locks' = locks \ {s} /\ homes' = homes
  BY DEF RemoveSubject, Rows
<1>2. /\ Locking(writes[w]) /\ s \in subjects
      /\ \A g \in grants : g.subject = s => g \in writes[w].seen
  <2>1. /\ writes[w].kind = "delete" /\ writes[w].step = "remove"
        /\ WriteOK(subjects, locks, grants, writes[w])
    BY <1>0 DEF WritersHold, RemoveSubject, Step
  <2> QED
    BY <2>1 DEF WriteOK, Locking
<1>3. CASE UNCHANGED Rows
  <2>0. UNCHANGED <<subjects, births, parent, grants>>
    BY <1>3 DEF Rows
  <2>1. \A v \in Writers \ {w} : WriteOK(subjects', locks', grants', writes[v])
    BY <1>0, <1>1, <1>2, <2>0, OthersHold
  <2>2. GrantsTypeOK' /\ GrantsFollowSubject' /\ TeamsRanked'
    BY <1>0, <1>1, <2>0, RowsKept DEF GrantsTypeOK
  <2> QED
    BY <1>0, <1>1, <2>1, <2>2, WriterIsOver DEF GrantsInductive
<1>4. CASE /\ ~Referenced(s)
           /\ subjects' = subjects \ {s}
           /\ grants' = grants \ writes[w].seen
           /\ parent' = IF s \in TeamIds THEN [parent EXCEPT ![s] = NoTeam] ELSE parent
           /\ births' = births
  <2>1. GrantsTypeOK'
    <3>1. s \notin homes
      BY <1>4 DEF Referenced
    <3>2. parent' \in [TeamIds -> TeamIds \cup {NoTeam}]
      BY <1>0, <1>4 DEF GrantsTypeOK
    <3> QED
      BY <1>0, <1>1, <1>4, <3>1, <3>2 DEF GrantsTypeOK
  <2>2. GrantsFollowSubject'
    BY <1>0, <1>2, <1>4 DEF GrantsFollowSubject
  <2>3. WritersHold'
    <3>1. \A v \in Writers \ {w} : WriteOK(subjects', locks', grants', writes[v])
      BY <1>0, <1>1, <1>2, <1>4, OthersHold
    <3> QED
      BY <1>0, <1>1, <3>1, WriterIsOver
  <2>4. TeamsRanked'
    <3>1. PICK rank \in [TeamIds -> Nat] : Ranked(rank, subjects, parent)
      BY DEF GrantsInductive, TeamsRanked
    <3>2. \A t \in TeamIds \ {s} : parent'[t] = parent[t]
      BY <1>0, <1>4 DEF GrantsTypeOK
    <3>3. \A t \in subjects \cap TeamIds : t # s => parent[t] # s
      BY <1>4 DEF Referenced
    <3>4. Ranked(rank, subjects', parent')
      BY <1>4, <3>1, <3>2, <3>3 DEF Ranked
    <3> QED
      BY <3>4 DEF TeamsRanked
  <2> QED
    BY <2>1, <2>2, <2>3, <2>4 DEF GrantsInductive
<1> QED
  BY <1>3, <1>4 DEF RemoveSubject

LEMMA InsertGrantKept ==
    ASSUME GrantsInductive, NEW w \in Writers, InsertGrant(w)
    PROVE  GrantsInductive'
<1> DEFINE s == writes[w].subject
           new == [subject |-> s, birth |-> births[s]]
<1>0. GrantsTypeOK /\ WritersHold /\ GrantsFollowSubject
  BY DEF GrantsInductive
<1>1. /\ Over(w) /\ locks' = locks \ {s} /\ UNCHANGED <<subjects, births, parent, homes>>
      /\ grants' = grants \cup {new}
  BY DEF InsertGrant
<1>2. Locking(writes[w]) /\ s \in subjects /\ s \in Subjects
  <2>1. writes[w].kind = "grant" /\ WriteOK(subjects, locks, grants, writes[w])
    BY <1>0 DEF WritersHold, InsertGrant, Step
  <2> QED
    BY <2>1 DEF WriteOK, Locking
<1>3. new \in GrantRow /\ new.subject = s /\ new.birth = births[s]
  BY <1>0, <1>2 DEF GrantRow, GrantsTypeOK
<1> HIDE DEF new
<1>4. GrantsTypeOK'
  BY <1>0, <1>1, <1>3 DEF GrantsTypeOK, GrantRow
<1>5. GrantsFollowSubject'
  BY <1>0, <1>1, <1>2, <1>3 DEF GrantsFollowSubject
<1>6. TeamsRanked'
  BY <1>1 DEF GrantsInductive, TeamsRanked
<1>7. \A v \in Writers \ {w} : WriteOK(subjects', locks', grants', writes[v])
  BY <1>0, <1>1, <1>2, <1>3, OthersHold
<1> QED
  BY <1>0, <1>1, <1>4, <1>5, <1>6, <1>7, WriterIsOver DEF GrantsInductive

LEMMA FailWriteKept ==
    ASSUME GrantsInductive, NEW w \in Writers, FailWrite(w)
    PROVE  GrantsInductive'
<1>0. GrantsTypeOK /\ WritersHold
  BY DEF GrantsInductive
<1>1. /\ Over(w) /\ UNCHANGED <<subjects, births, parent, homes, grants>>
      /\ locks' = IF writes[w].kind = "create" THEN locks ELSE locks \ {writes[w].subject}
  BY DEF FailWrite, Rows
<1>2. writes[w].kind = "create" \/ Locking(writes[w])
  BY <1>0 DEF FailWrite, WritersHold, WriteOK, WriteRow, Locking
<1>3. \A v \in Writers \ {w} : WriteOK(subjects', locks', grants', writes[v])
  <2>1. CASE writes[w].kind = "create"
    BY <1>0, <1>1, <2>1 DEF WritersHold
  <2>2. CASE writes[w].kind # "create"
    BY <1>0, <1>1, <1>2, <2>2, OthersHold
  <2> QED
    BY <2>1, <2>2
<1>4. GrantsTypeOK' /\ GrantsFollowSubject' /\ TeamsRanked'
  BY <1>0, <1>1, RowsKept DEF GrantsTypeOK
<1> QED
  BY <1>0, <1>1, <1>3, <1>4, WriterIsOver DEF GrantsInductive

\* Grants that are revoked and agents that move disturb no transaction.
LEMMA OtherRowsKept ==
    ASSUME GrantsInductive, UNCHANGED <<subjects, births, parent, locks, writes>>,
           grants' \subseteq grants, homes' \subseteq TeamIds \cap subjects
    PROVE  GrantsInductive'
<1>0. GrantsTypeOK /\ WritersHold /\ GrantsFollowSubject /\ TeamsRanked
  BY DEF GrantsInductive
<1>1. GrantsTypeOK' /\ GrantsFollowSubject' /\ TeamsRanked'
  BY <1>0 DEF GrantsTypeOK, GrantsFollowSubject, TeamsRanked
<1>2. \A w \in Writers : WriteOK(subjects', locks', grants', writes'[w])
  BY <1>0 DEF WritersHold, WriteOK
<1>3. WritersHold'
  BY <1>0, <1>2 DEF WritersHold
<1> QED
  BY <1>1, <1>3 DEF GrantsInductive

------------------------------------------------------------------------------
(* Theorems about grants and the tree of teams                             *)

\* GrantsInductive holds in every reachable state: a transaction's subject stays
\* locked and there, and every team is below older ones.
THEOREM GrantsSafe == GrantsSpec => []GrantsInductive
<1>1. GrantsInit => GrantsInductive
  <2> SUFFICES ASSUME GrantsInit PROVE GrantsInductive
    OBVIOUS
  <2>1. GrantsTypeOK
    BY GrantsAssumption DEF GrantsInit, GrantsTypeOK
  <2>2. GrantsFollowSubject
    BY DEF GrantsInit, GrantsFollowSubject
  <2>3. WritersHold
    BY NoWriteFields DEF GrantsInit, WritersHold
  <2>4. TeamsRanked
    <3>1. [t \in TeamIds |-> 0] \in [TeamIds -> Nat] /\ Ranked([t \in TeamIds |-> 0], subjects, parent)
      BY DEF GrantsInit, Ranked
    <3> QED
      BY <3>1 DEF TeamsRanked
  <2> QED
    BY <2>1, <2>2, <2>3, <2>4 DEF GrantsInductive
<1>2. GrantsInductive /\ [GrantsNext]_grantVars => GrantsInductive'
  <2> SUFFICES ASSUME GrantsInductive, [GrantsNext]_grantVars PROVE GrantsInductive'
    OBVIOUS
  <2>0. GrantsTypeOK
    BY DEF GrantsInductive
  <2>1. ASSUME NEW w \in Writers, NEW s \in Subjects,
               \/ \E p \in TeamIds \cup {NoTeam} : GenerateIdentifier(w, s, p)
               \/ DeleteLock(w, s) \/ GuardSubject(w, s)
        PROVE  GrantsInductive'
    BY <2>1, GenerateKept, DeleteLockKept, GuardSubjectKept
  <2>2. ASSUME NEW w \in Writers,
               \/ ReadParent(w) \/ InsertSubject(w)
               \/ DeleteGrants(w) \/ RemoveSubject(w)
               \/ InsertGrant(w) \/ FailWrite(w)
        PROVE  GrantsInductive'
    BY <2>2, ReadParentKept, InsertSubjectKept, DeleteGrantsKept, RemoveSubjectKept,
       InsertGrantKept, FailWriteKept
  <2>3. ASSUME NEW g \in grants, RevokeGrant(g) PROVE GrantsInductive'
    BY <2>0, <2>3, OtherRowsKept DEF RevokeGrant, GrantsTypeOK
  <2>4. ASSUME NEW t \in TeamIds, SetHome(t) \/ LeaveHome(t) PROVE GrantsInductive'
    BY <2>0, <2>4, OtherRowsKept DEF SetHome, LeaveHome, GrantsTypeOK
  <2>5. CASE UNCHANGED grantVars
    BY <2>0, <2>5, OtherRowsKept DEF grantVars, GrantsTypeOK
  <2> QED
    BY <2>1, <2>2, <2>3, <2>4, <2>5 DEF GrantsNext
<1> QED
  BY <1>1, <1>2, PTL DEF GrantsSpec

\* Types; a grant is a grant to the very role or team it was made to, though ids
\* are used again; no two teams are above each other.
THEOREM GrantsCorrect == GrantsSpec => []GrantsInvariant
<1>1. GrantsInductive => GrantsInvariant
  BY RankedIsATree DEF GrantsInductive, GrantsInvariant
<1> QED
  BY <1>1, GrantsSafe, PTL

------------------------------------------------------------------------------
(* The parts of the control service side by side.                          *)

\* A behaviour of the parts is one of each of them.
LEMMA PartsAreTheirOwn == AdministrationSpec => ThrottleSpec /\ EventSpec /\ GrantsSpec /\ HealthSpec
<1> DEFINE allVars == <<part, input, throttleVars, eventVars, grantVars, auditVars, healthVars>>
<1>1. AdministrationInit => ThrottleInit /\ EventInit /\ GrantsInit /\ HealthInit
  BY DEF AdministrationInit
<1>2. [AdministrationNext]_allVars =>
          [ThrottleNext]_throttleVars /\ [EventNext]_eventVars /\ [GrantsNext]_grantVars /\ [HealthNext]_healthVars
  BY DEF AdministrationNext
<1> QED BY <1>1, <1>2, PTL DEF AdministrationSpec, ThrottleSpec, EventSpec, GrantsSpec, HealthSpec

\* No step of the parts lifts a running block of somebody else, takes received work
\* from a session or moves the start of a status that did not change, where the longest
\* block is at most the age at which rows are pruned (recordLoginFailure).
THEOREM AdministrationStepsHold == BackoffMax <= 2 * Window => (AdministrationSpec => AdministrationSteps)
<1> SUFFICES ASSUME BackoffMax <= 2 * Window PROVE AdministrationSpec => AdministrationSteps
    OBVIOUS
<1>1. ThrottleSpec => BlocksLast
  BY BlocksOutlastPruning
<1>2. (EventSpec => ReceivedWorkStays) /\ (HealthSpec => SinceMarksTheChange)
  BY WorkIsKept, StatusKeepsItsStart
<1> QED BY <1>1, <1>2, PartsAreTheirOwn, PTL DEF AdministrationSteps

\* The invariants of login attempts, control events, grants and health hold of the parts
\* side by side.
THEOREM AdministrationIsSafe ==
    AdministrationSpec => [](ThrottleInvariant /\ EventInvariant /\ GrantsInvariant /\ HealthInvariant)
<1>1. (ThrottleSpec => []ThrottleInvariant) /\ (EventSpec => []EventInvariant)
  BY RefusalsStayBounded, EventCorrect
<1>2. (GrantsSpec => []GrantsInvariant) /\ (HealthSpec => []HealthInvariant)
  BY GrantsCorrect, HealthIsObserved
<1> QED BY <1>1, <1>2, PartsAreTheirOwn, PTL
=============================================================================
