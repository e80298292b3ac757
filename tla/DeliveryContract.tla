-------------------------- MODULE DeliveryContract --------------------------
(***************************************************************************)
(* What publication promises, without leases, workers or requests.         *)
(*                                                                         *)
(* Intents are selected one after the other; each names the objects it     *)
(* needs.  Objects only move forward to newer intents; the aggregate is    *)
(* stamped with an intent only when every object it needs has reached it;  *)
(* and an intent is acknowledged only while it is the newest one and the   *)
(* aggregate carries it.                                                   *)
(***************************************************************************)
EXTENDS Naturals, Sequences

CONSTANT Things  \* the objects intents can need

VARIABLES
    needs,        \* the objects each intent needs, in order of selection
    placed,       \* the intent every object was last written for
    stamped,      \* the intent the aggregate carries
    acknowledged  \* the newest intent reported as projected

contractVars == <<needs, placed, stamped, acknowledged>>

ContractInit ==
    /\ needs = <<>>
    /\ placed = [t \in Things |-> 0]
    /\ stamped = 0
    /\ acknowledged = 0

\* A new intent replaces the selected one.
Select ==
    /\ \E S \in SUBSET Things : needs' = Append(needs, S)
    /\ UNCHANGED <<placed, stamped, acknowledged>>

\* An object moves forward to an intent that needs it.
Place ==
    /\ \E s \in DOMAIN needs : \E t \in needs[s] :
          placed[t] < s /\ placed' = [placed EXCEPT ![t] = s]
    /\ UNCHANGED <<needs, stamped, acknowledged>>

\* The aggregate moves forward to an intent whose objects are all in place.
StampAggregate ==
    /\ \E s \in DOMAIN needs :
          /\ stamped < s
          /\ \A t \in needs[s] : placed[t] >= s
          /\ stamped' = s
    /\ UNCHANGED <<needs, placed, acknowledged>>

\* The newest intent is reported.
Acknowledge ==
    /\ stamped = Len(needs)
    /\ acknowledged < stamped
    /\ acknowledged' = stamped
    /\ UNCHANGED <<needs, placed, stamped>>

ContractNext == Select \/ Place \/ StampAggregate \/ Acknowledge

Contract == ContractInit /\ [][ContractNext]_contractVars
=============================================================================
