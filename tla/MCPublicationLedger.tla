------------------------- MODULE MCPublicationLedger -------------------------
(* Small instances of PublicationLedger for TLC. *)
EXTENDS PublicationLedger, TLC

VARIABLE part   \* rules without deliveries, or deliveries without rules

PartInit == Init /\ part \in {"references", "claims"}

PartNext ==
    /\ Next
    /\ UNCHANGED part
    /\ part = "references" => UNCHANGED claim
    /\ part = "claims" =>
          /\ UNCHANGED <<limits, subjects>>
          /\ Len(intents') <= 2 /\ \A i \in DOMAIN intents' : ~intents'[i].payload.selected

PartSpec == PartInit /\ [][PartNext]_<<ledgerVars, part>>

\* Keys and workers are interchangeable: no action or property tells two of
\* them apart.
LedgerSymmetry == Permutations(Keys) \cup Permutations(Workers)
=============================================================================
