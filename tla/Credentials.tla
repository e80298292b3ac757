----------------------------- MODULE Credentials -----------------------------
(***************************************************************************)
(* Credentials, their values and who may resolve them (control-service     *)
(* httpapi/credential_handlers.go, repository/resources.go).               *)
(*                                                                         *)
(* A value is the number of the edit that wrote it, and so is updated_at:  *)
(* both grow with every write. A sealed value is the value itself. The     *)
(* grants are those that reach one user; `used' are the credentials an     *)
(* enabled gateway model names. Every edit is one transaction.             *)
(***************************************************************************)
EXTENDS Naturals, FiniteSets

CONSTANTS
    Creds,
    ApiKeys,     \* those of type api_key, the others are SSH material
    MaxSecretEdits

ASSUME CredentialAssumption == ApiKeys \subseteq Creds /\ MaxSecretEdits \in Nat

VARIABLES
    cred,        \* [here, enabled, mode, value, rev] by credential
    granted,     \* credential_assignments that are live and reach the user
    used,        \* credentials of enabled gateway models
    secretEdits

credentialVars == <<cred, granted, used, secretEdits>>

Modes  == {"client", "server_only"}
NoCred == [here |-> FALSE, enabled |-> FALSE, mode |-> "server_only", value |-> 0, rev |-> 0]

\* Row types; grants and models name credentials that exist (the foreign keys of
\* credential_assignments and of models).
CredentialsTypeOK ==
    /\ cred \in [Creds -> [here : BOOLEAN, enabled : BOOLEAN, mode : Modes,
                           value : 0 .. MaxSecretEdits, rev : 0 .. MaxSecretEdits]]
    /\ granted \cup used \subseteq {c \in Creds : cred[c].here}
    /\ secretEdits \in 0 .. MaxSecretEdits

CredentialsInit ==
    /\ cred = [c \in Creds |-> NoCred]
    /\ granted = {} /\ used = {} /\ secretEdits = 0

\* The number of this edit, the clock of values and of updated_at.
Now == secretEdits + 1
SecretEdit == secretEdits < MaxSecretEdits /\ secretEdits' = Now

\* createCredential: SSH material is stored for the server only.
CreateCredential(c, mode) ==
    /\ SecretEdit
    /\ ~cred[c].here
    /\ c \in ApiKeys \/ mode = "server_only"
    /\ cred' = [cred EXCEPT ![c] = [here |-> TRUE, enabled |-> TRUE, mode |-> mode, value |-> Now, rev |-> Now]]
    /\ UNCHANGED <<granted, used>>

\* updateCredential: any mode, whatever the type.
UpdateCredential(c, on, mode) ==
    /\ SecretEdit
    /\ cred[c].here
    /\ cred' = [cred EXCEPT ![c].enabled = on, ![c].mode = mode, ![c].rev = Now]
    /\ UNCHANGED <<granted, used>>

Rotated(row) == [row EXCEPT !.value = Now, !.rev = Now]

RotateCredential(c) ==
    /\ SecretEdit
    /\ cred[c].here
    /\ cred' = [cred EXCEPT ![c] = Rotated(@)]
    /\ UNCHANGED <<granted, used>>

\* ON DELETE CASCADE of credential_assignments.
GrantsWithout(c) == granted \ {c}

\* deleteCredential: refused while a model names it, grants cascade.
DeleteCredential(c) ==
    /\ SecretEdit
    /\ cred[c].here /\ c \notin used
    /\ cred' = [cred EXCEPT ![c] = NoCred]
    /\ granted' = GrantsWithout(c)
    /\ UNCHANGED used

\* createCredentialAssignment and deleteCredentialAssignment, or an expiry.
GrantCredential(c) ==
    /\ SecretEdit
    /\ cred[c].here /\ c \notin granted
    /\ granted' = granted \cup {c}
    /\ UNCHANGED <<cred, used>>

RevokeCredential(c) ==
    /\ SecretEdit
    /\ c \in granted
    /\ granted' = granted \ {c}
    /\ UNCHANGED <<cred, used>>

\* A gateway model starts or stops to name the credential.
UseCredential(c) ==
    /\ SecretEdit
    /\ cred[c].here
    /\ used' = IF c \in used THEN used \ {c} ELSE used \cup {c}
    /\ UNCHANGED <<cred, granted>>

CredentialEdit ==
    \E c \in Creds :
        \/ RotateCredential(c) \/ DeleteCredential(c) \/ GrantCredential(c)
        \/ RevokeCredential(c) \/ UseCredential(c)
        \/ \E mode \in Modes : CreateCredential(c, mode) \/ \E on \in BOOLEAN : UpdateCredential(c, on, mode)

-----------------------------------------------------------------------------
(* Who sees what. *)

\* listAgentCredentials and resolveAgentCredential agree on this.
VisibleCredential(c) == cred[c].here /\ cred[c].enabled /\ cred[c].mode = "client" /\ c \in granted

\* DatabaseSource.eligible: what the publisher delivers to the gateway.
Eligible(c) ==
    /\ cred[c].here /\ cred[c].enabled /\ cred[c].mode = "server_only"
    /\ c \in ApiKeys /\ c \in used
=============================================================================
