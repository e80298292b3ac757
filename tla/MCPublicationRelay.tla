------------------------- MODULE MCPublicationRelay -------------------------
(* Small instances of PublicationRelay for TLC. *)
EXTENDS PublicationRelay, TLC

VARIABLE part   \* what is administered: models, or (without faults) limit rules

PartInit == RelayInit /\ part \in {"routes", "policies"}

PartNext ==
    /\ RelayNext
    /\ UNCHANGED <<part, subjects>>
    /\ part = "policies" => UNCHANGED <<catalog, faults>>
    /\ part = "routes" =>
          /\ UNCHANGED limits
          /\ \A i \in DOMAIN intents' : ~intents'[i].payload.selected

PartSpec == PartInit /\ [][PartNext]_<<vars, part>>

\* Keys and workers are interchangeable here too.
RelaySymmetry == Permutations(Keys) \cup Permutations(Workers)
=============================================================================
