---------------------------- MODULE MCAuditTrail ----------------------------
(* Handlers that record their audit and do not say so. *)
EXTENDS AuditTrail

\* One refused deletion.
MCFailedAttempts ==
    {[route |-> [method |-> "delete", collection |-> "assets", id |-> "a", sub |-> "", verb |-> ""],
      code |-> "NOT_FOUND", body |-> [shown |-> 1, hidden |-> 1, long |-> FALSE]]}
=============================================================================
