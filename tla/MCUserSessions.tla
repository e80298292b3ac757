--------------------------- MODULE MCUserSessions ---------------------------
(* Small instances of UserSessions for TLC. *)
EXTENDS UserSessions, TLC

\* Sessions, tokens and requests are interchangeable.
SessionSymmetry ==
    Permutations(Sessions) \cup Permutations(Tokens) \cup Permutations(Requests)
=============================================================================
