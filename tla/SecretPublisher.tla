--------------------------- MODULE SecretPublisher ---------------------------
(***************************************************************************)
(* Delivery of credentials to the gateway as Kubernetes Secrets            *)
(* (control-service internal/credentialdelivery).                          *)
(*                                                                         *)
(* A pass reads the eligible ids, then its own Secrets, and brings each in *)
(* line by itself: it reads the credential, then the Secret, then writes   *)
(* under the resourceVersion it read. Credentials change meanwhile, other  *)
(* owners create and change Secrets of the same names, and a second        *)
(* publisher may still be at work when its leadership has ended. Ids and   *)
(* Secrets fit one page and are taken in any order, by id in the code.     *)
(***************************************************************************)
EXTENDS Credentials

CONSTANTS
    Publishers,
    MaxStrangers, \* bound on what other owners do to Secrets
    MaxSyncFaults \* bound on calls and decryptions that fail

VARIABLES
    secrets,    \* Secret by credential: [here, ours, value, version]
    publisher,  \* [phase, todo, item, found, value, seen, failed] by publisher
    ready,      \* Ready() by publisher
    quiet,      \* auxiliary: nobody else has changed anything since the pass began
    strangers,
    syncFaults

publisherVars == <<secrets, publisher, ready, quiet, strangers, syncFaults>>

NoSecret == [here |-> FALSE, ours |-> FALSE, value |-> 0, version |-> 0]
Waiting  == [phase |-> "wait", todo |-> {}, item |-> {}, found |-> FALSE, value |-> 0,
             seen |-> NoSecret, failed |-> FALSE]

PublisherInit ==
    /\ CredentialsInit
    /\ secrets = [c \in Creds |-> NoSecret]
    /\ publisher = [p \in Publishers |-> Waiting]
    /\ ready = [p \in Publishers |-> FALSE]
    /\ quiet = [p \in Publishers |-> FALSE]
    /\ strangers = 0 /\ syncFaults = 0

SyncFault == syncFaults < MaxSyncFaults /\ syncFaults' = syncFaults + 1

\* Nobody but p goes on undisturbed.
DisturbedBy(p) == [q \in Publishers |-> q = p /\ quiet[q]]

ItemOf(p) == CHOOSE c \in publisher[p].item : TRUE
Owned     == {c \in Creds : secrets[c].here /\ secrets[c].ours}

-----------------------------------------------------------------------------
(* Sync. *)

\* The ids that are eligible now.
StartSync(p) ==
    /\ publisher[p].phase = "wait"
    /\ publisher' = [publisher EXCEPT ![p] = [Waiting EXCEPT !.phase = "ids", !.todo = {c \in Creds : Eligible(c)}]]
    /\ quiet' = [quiet EXCEPT ![p] = TRUE]
    /\ UNCHANGED <<secrets, ready, strangers, syncFaults>>

\* Mutant: Secrets are not listed, so nothing is ever withdrawn.
NoInventory == {}

\* The Secrets under the publisher's own labels.
Inventory == Owned

\* The inventory follows, each item of it read again.
ListSecrets(p) ==
    /\ publisher[p].phase = "ids" /\ publisher[p].todo = {} /\ publisher[p].item = {}
    /\ publisher' = [publisher EXCEPT ![p].phase = "inventory", ![p].todo = Inventory]
    /\ UNCHANGED <<secrets, ready, quiet, strangers, syncFaults>>

\* syncOne: the credential is read ...
ReadCredential(p, c) ==
    /\ publisher[p].phase \in {"ids", "inventory"} /\ publisher[p].item = {} /\ c \in publisher[p].todo
    /\ publisher' = [publisher EXCEPT ![p].item = {c}, ![p].found = Eligible(c), ![p].value = cred[c].value,
                                      ![p].todo = @ \ {c}]
    /\ UNCHANGED <<secrets, ready, quiet, strangers, syncFaults>>

\* ... then the Secret ...
GetSecret(p) ==
    /\ publisher[p].item # {} /\ publisher[p].phase \in {"ids", "inventory"}
    /\ publisher' = [publisher EXCEPT ![p].seen = secrets[ItemOf(p)],
                                      ![p].phase = IF @ = "ids" THEN "writeIds" ELSE "writeInventory"]
    /\ UNCHANGED <<secrets, ready, quiet, strangers, syncFaults>>

\* resourceVersion, or the absence of the Secret, as it was read.
Unchanged(p) == secrets[ItemOf(p)].version = publisher[p].seen.version
             /\ secrets[ItemOf(p)].here = publisher[p].seen.here

Foreign(p) == publisher[p].seen.here /\ ~publisher[p].seen.ours

Withdrawal(p) == ~publisher[p].found /\ publisher[p].seen.here
DeliveryWrites(p)   == publisher[p].found /\ (publisher[p].seen.here => publisher[p].seen.value # publisher[p].value)

\* What the Secret becomes.
AppliedSecret(p) ==
    IF publisher[p].found
      THEN [here |-> TRUE, ours |-> TRUE, value |-> publisher[p].value, version |-> secrets[ItemOf(p)].version + 1]
      ELSE [NoSecret EXCEPT !.version = secrets[ItemOf(p)].version + 1]

Failed(p, failed) == publisher[p].failed \/ failed

\* Back to the pass; a failed item takes the readiness away at once.
Back(p, failed) ==
    /\ publisher' = [publisher EXCEPT ![p].phase = IF @ = "writeIds" THEN "ids" ELSE "inventory",
                                      ![p].item = {}, ![p].failed = Failed(p, failed)]
    /\ ready' = [ready EXCEPT ![p] = @ /\ ~Failed(p, failed)]

\* ... and Create, Update or Delete carries what was read, or there is nothing to
\* do, or the Secret is another owner's.
WriteSecret(p) ==
    /\ publisher[p].phase \in {"writeIds", "writeInventory"}
    /\ LET writes == ~Foreign(p) /\ (Withdrawal(p) \/ DeliveryWrites(p))
           done   == writes /\ Unchanged(p)
       IN /\ secrets' = IF done THEN [secrets EXCEPT ![ItemOf(p)] = AppliedSecret(p)] ELSE secrets
          /\ quiet' = IF done THEN DisturbedBy(p) ELSE quiet
          /\ Back(p, Foreign(p) \/ (writes /\ ~done))
    /\ UNCHANGED <<strangers, syncFaults>>

\* A call or the decryption fails: the item fails, the pass goes on.
FailItem(p) ==
    /\ publisher[p].phase \in {"writeIds", "writeInventory"}
    /\ SyncFault
    /\ Back(p, TRUE)
    /\ UNCHANGED <<secrets, quiet, strangers>>

\* Start: readiness is the result of the pass.
FinishSync(p) ==
    /\ publisher[p].phase = "inventory" /\ publisher[p].todo = {} /\ publisher[p].item = {}
    /\ ready' = [ready EXCEPT ![p] = ~publisher[p].failed]
    /\ publisher' = [publisher EXCEPT ![p] = Waiting]
    /\ UNCHANGED <<secrets, quiet, strangers, syncFaults>>

SyncOnce(p) ==
    \/ StartSync(p) \/ ListSecrets(p) \/ GetSecret(p) \/ WriteSecret(p) \/ FinishSync(p)
    \/ \E c \in Creds : ReadCredential(p, c)

\* Another owner takes the name, changes its Secret or removes it, or takes a
\* Secret of ours over.
Stranger(c) ==
    /\ strangers < MaxStrangers /\ strangers' = strangers + 1
    /\ \E keep \in BOOLEAN :
          secrets' = [secrets EXCEPT ![c] = [here |-> keep, ours |-> FALSE, value |-> 0, version |-> @.version + 1]]
    /\ quiet' = [p \in Publishers |-> FALSE]
    /\ UNCHANGED <<publisher, ready, syncFaults>>

PublisherNext ==
    \/ \E p \in Publishers : (SyncOnce(p) \/ FailItem(p)) /\ UNCHANGED credentialVars
    \/ \E c \in Creds : Stranger(c) /\ UNCHANGED credentialVars
    \/ CredentialEdit /\ quiet' = [p \in Publishers |-> FALSE]
       /\ UNCHANGED <<secrets, publisher, ready, strangers, syncFaults>>

PublisherSpec == PublisherInit /\ [][PublisherNext]_<<publisherVars, credentialVars>>

-----------------------------------------------------------------------------
(* Properties. *)

Delivered(c) == IF Eligible(c) THEN secrets[c].here /\ secrets[c].ours /\ secrets[c].value = cred[c].value
                ELSE ~(secrets[c].here /\ secrets[c].ours)

\* Sync, Ready: a publisher that reports ready has delivered every eligible
\* credential at its current value and withdrawn every other, unless something
\* has changed since its last pass began.
ReadyMeansDelivered ==
    \A p \in Publishers :
        (ready[p] /\ quiet[p] /\ publisher[p].phase = "wait") => \A c \in Creds : Delivered(c)

\* owns, the resourceVersion preconditions: the Secret of another owner is never
\* written or removed, not even one that changes hands between read and write.
ForeignSecretsUntouched ==
    [][\A c \in Creds :
         (secrets[c].here /\ ~secrets[c].ours /\ strangers' = strangers) => secrets'[c] = secrets[c]]_publisherVars

\* Start: once credentials, strangers and faults come to rest every eligible
\* credential is delivered for good and every other withdrawn, except where
\* another owner holds the name.
SecretsConverge ==
    <>[](\A c \in Creds : Delivered(c) \/ (secrets[c].here /\ ~secrets[c].ours))
=============================================================================
