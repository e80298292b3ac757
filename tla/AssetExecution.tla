---------------------------- MODULE AssetExecution ----------------------------
(***************************************************************************)
(* Assets, their bindings and the commands run on them (control-service    *)
(* httpapi/asset_handlers.go, asset_runtime_handlers.go,                   *)
(* repository/assets.go).                                                  *)
(*                                                                         *)
(* An execution checks the deployment-wide stop, the asset, the bindings   *)
(* of its subject and the credential one after the other, each with a read *)
(* of its own, then runs the command and records it. An update validates   *)
(* against a row it read before its transaction. The assets are of a type  *)
(* that requires a credential; one subject, one capability.                *)
(***************************************************************************)
EXTENDS Credentials

CONSTANTS
    Assets,
    Executions,
    Patches,
    MaxAssetEdits

ASSUME AssetAssumption == MaxAssetEdits \in Nat

VARIABLES
    assets,     \* [status, ref, on] by asset; ref: at most one credential
    bindings,   \* "none", "live", "expired" or "narrow" by asset
    halted,     \* assets_execute_enabled is false
    patches,    \* updates validated and not committed
    runs,       \* executions: [phase, asset, row, audited]
    held,       \* auxiliary: what has held at some moment of an execution
    overlapped, \* auxiliary: assets that two updates were validated for at once
    assetEdits

assetVars == <<assets, bindings, halted, patches, runs, held, overlapped, assetEdits>>

Statuses == {"draft", "active", "disabled"}
Absent(s) == [status |-> s, ref |-> {}, on |-> FALSE]
Here(a)  == assets[a].status \in Statuses
NoPatch  == [phase |-> "none"]
NoRun    == [phase |-> "none"]
Checks   == {"stop", "asset", "binding", "credential"}

AssetsInit ==
    /\ CredentialsInit
    /\ assets = [a \in Assets |-> Absent("unborn")]
    /\ bindings = [a \in Assets |-> "none"]
    /\ halted = FALSE /\ overlapped = {} /\ assetEdits = 0
    /\ patches = [p \in Patches |-> NoPatch]
    /\ runs = [x \in Executions |-> NoRun] /\ held = [x \in Executions |-> {}]

AssetEdit == assetEdits < MaxAssetEdits /\ assetEdits' = assetEdits + 1

-----------------------------------------------------------------------------
(* Assets. *)

\* validateAssetCredentialRefs.
UsableRef(ref) == \A c \in ref : cred[c].here /\ cred[c].enabled /\ cred[c].mode = "server_only"

\* An active asset has a default credential.
KeepsCredential(status, ref, was) == status = "active" => ref # {}

\* createAsset; the identifier is new and never used again.
CreateAsset(a, status, ref) ==
    /\ AssetEdit
    /\ assets[a].status = "unborn"
    /\ UsableRef(ref) /\ KeepsCredential(status, ref, "draft")
    /\ assets' = [assets EXCEPT ![a] = [status |-> status, ref |-> ref, on |-> TRUE]]
    /\ UNCHANGED <<bindings, halted, patches, runs, overlapped>>

\* updateAsset up to its transaction: fields left out are those of the row read.
ValidatePatch(p, a, statuses, refs) ==
    LET status == IF statuses = {} THEN assets[a].status ELSE CHOOSE s \in statuses : TRUE
        ref    == IF refs = {} THEN assets[a].ref ELSE CHOOSE r \in refs : TRUE
    IN /\ AssetEdit
       /\ patches[p].phase = "none" /\ Here(a)
       /\ \A r \in refs : UsableRef(r)
       /\ KeepsCredential(status, ref, assets[a].status)
       /\ patches' = [patches EXCEPT ![p] = [phase |-> "valid", asset |-> a, statuses |-> statuses, refs |-> refs]]
       /\ overlapped' = IF \E q \in Patches : patches[q].phase = "valid" /\ patches[q].asset = a
                        THEN overlapped \cup {a} ELSE overlapped
       /\ UNCHANGED <<assets, bindings, halted, runs>>

\* UpdateAsset: the given fields only; an asset that is gone stays gone.
CommitPatch(p, on) ==
    LET a == patches[p].asset IN
    /\ patches[p].phase = "valid"
    /\ patches' = [patches EXCEPT ![p] = NoPatch]
    /\ assets' = IF ~Here(a) THEN assets
                 ELSE [assets EXCEPT ![a].status = IF patches[p].statuses = {} THEN @ ELSE CHOOSE s \in patches[p].statuses : TRUE,
                                     ![a].ref = IF patches[p].refs = {} THEN @ ELSE CHOOSE r \in patches[p].refs : TRUE,
                                     ![a].on = on]
    /\ UNCHANGED <<bindings, halted, runs, overlapped, assetEdits>>

\* ON DELETE CASCADE of asset_bindings.
BindingsWithout(a) == [bindings EXCEPT ![a] = "none"]

\* deleteAsset: bindings cascade.
DeleteAsset(a) ==
    /\ AssetEdit
    /\ Here(a)
    /\ assets' = [assets EXCEPT ![a] = Absent("gone")]
    /\ bindings' = BindingsWithout(a)
    /\ UNCHANGED <<halted, patches, runs, overlapped>>

\* createAssetBinding, deleteAssetBinding, and the expiry. A narrow binding does
\* not list the capability.
CreateAssetBinding(a, state) ==
    /\ AssetEdit
    /\ Here(a) /\ bindings[a] = "none"
    /\ bindings' = [bindings EXCEPT ![a] = state]
    /\ UNCHANGED <<assets, halted, patches, runs, overlapped>>

EndAssetBinding(a, state) ==
    /\ AssetEdit
    /\ bindings[a] = "live" \/ (bindings[a] # "none" /\ state = "none")
    /\ bindings' = [bindings EXCEPT ![a] = state]
    /\ UNCHANGED <<assets, halted, patches, runs, overlapped>>

\* An administrator stops or resumes execution deployment-wide.
SetHalt(h) ==
    /\ AssetEdit
    /\ halted' = h
    /\ UNCHANGED <<assets, bindings, patches, runs, overlapped>>

-----------------------------------------------------------------------------
(* Executions. *)

AssetReady(row) == row.status = "active"
SomeCred(ref)   == \E c \in ref : cred[c].here /\ cred[c].enabled /\ c \notin ApiKeys

\* What holds now of what an execution needs: its credential is one that its asset
\* names now or did when the execution read it.
Holds(x) ==
    LET a == runs[x].asset IN
    (IF ~halted THEN {"stop"} ELSE {})
    \cup (IF AssetReady(assets[a]) /\ assets[a].on THEN {"asset"} ELSE {})
    \cup (IF bindings[a] = "live" THEN {"binding"} ELSE {})
    \cup (IF SomeCred(assets[a].ref \cup runs[x].row.ref) THEN {"credential"} ELSE {})

StartExecution(x, a) ==
    /\ runs[x].phase = "none"
    /\ runs' = [runs EXCEPT ![x] = [phase |-> "stop", asset |-> a, row |-> Absent("unborn"), audited |-> FALSE]]
    /\ UNCHANGED <<assets, bindings, halted, patches, overlapped, assetEdits>>

Proceed(x, ok, next) == [runs EXCEPT ![x].phase = IF ok THEN next ELSE "refused"]

\* Mutant: the stop is looked at only where the asset is not active.
StopIgnored(a) == FALSE

\* assetExecutionHalted.
Halted(a) == halted

CheckStop(x) ==
    /\ runs[x].phase = "stop"
    /\ runs' = Proceed(x, ~Halted(runs[x].asset), "asset")
    /\ UNCHANGED <<assets, bindings, halted, patches, overlapped, assetEdits>>

ReadAsset(x) ==
    LET row == assets[runs[x].asset] IN
    /\ runs[x].phase = "asset"
    /\ runs' = [Proceed(x, AssetReady(row), "binding") EXCEPT ![x].row = row]
    /\ UNCHANGED <<assets, bindings, halted, patches, overlapped, assetEdits>>

\* ListAssetBindingsForSubject: unexpired, and listing the capability.
Bound(a) == bindings[a] = "live"

\* ... and then the capability on the row that was read.
CheckBinding(x) ==
    /\ runs[x].phase = "binding"
    /\ runs' = Proceed(x, Bound(runs[x].asset) /\ runs[x].row.on, "credential")
    /\ UNCHANGED <<assets, bindings, halted, patches, overlapped, assetEdits>>

\* resolveSSHAuth: the credential the row that was read names, as it is now.
ResolveSSHAuth(x) ==
    /\ runs[x].phase = "credential"
    /\ runs' = Proceed(x, SomeCred(runs[x].row.ref), "run")
    /\ UNCHANGED <<assets, bindings, halted, patches, overlapped, assetEdits>>

\* ExecSSH.
Run(x) ==
    /\ runs[x].phase = "run"
    /\ runs' = [runs EXCEPT ![x].phase = "ran"]
    /\ UNCHANGED <<assets, bindings, halted, patches, overlapped, assetEdits>>

\* RecordAdminAudit, or its failure: the command has run either way.
Audit(x, ok) ==
    /\ runs[x].phase = "ran"
    /\ runs' = [runs EXCEPT ![x].phase = IF ok THEN "answered" ELSE "failed", ![x].audited = ok]
    /\ UNCHANGED <<assets, bindings, halted, patches, overlapped, assetEdits>>

ExecutionStep ==
    \E x \in Executions :
        \/ CheckStop(x) \/ ReadAsset(x) \/ CheckBinding(x) \/ ResolveSSHAuth(x) \/ Run(x)
        \/ \E ok \in BOOLEAN : Audit(x, ok)
        \/ \E a \in Assets : StartExecution(x, a)

RefSets == {{}} \cup {{c} : c \in Creds}

AssetAdministration ==
    \/ \E a \in Assets :
           \/ DeleteAsset(a)
           \/ \E s \in {"live", "narrow"} : CreateAssetBinding(a, s)
           \/ \E s \in {"none", "expired"} : EndAssetBinding(a, s)
           \/ \E s \in Statuses, r \in RefSets : CreateAsset(a, s, r)
           \/ \E p \in Patches, ss \in {{}} \cup {{s} : s \in Statuses}, rs \in {{}} \cup {{r} : r \in RefSets} :
                  ValidatePatch(p, a, ss, rs)
    \/ \E p \in Patches, on \in BOOLEAN : CommitPatch(p, on)
    \/ \E h \in BOOLEAN : SetHalt(h)

\* Auxiliary: what has held at some moment of an execution is remembered.
Remember ==
    held' = [x \in Executions |-> IF runs'[x].phase = "none" THEN {} ELSE held[x] \cup Holds(x)']

AssetNext ==
    /\ \/ (ExecutionStep \/ AssetAdministration) /\ UNCHANGED credentialVars
       \/ CredentialEdit /\ UNCHANGED <<assets, bindings, halted, patches, runs, overlapped, assetEdits>>
    /\ Remember

AssetSpec == AssetsInit /\ [][AssetNext]_<<assetVars, credentialVars>>

-----------------------------------------------------------------------------
(* Properties. *)

\* Row types; a binding exists only for an asset that does (the foreign key of
\* asset_bindings).
AssetsTypeOK ==
    /\ \A a \in Assets : /\ assets[a].status \in Statuses \cup {"unborn", "gone"} /\ Cardinality(assets[a].ref) <= 1
                         /\ bindings[a] \in {"none", "live", "narrow", "expired"}
                         /\ bindings[a] # "none" => Here(a)
    /\ \A x \in Executions : held[x] \subseteq Checks
    /\ assetEdits \in 0 .. MaxAssetEdits

\* executeAsset: a command runs only if, at some moment of its request each, the
\* deployment was not stopped, the asset was active with the capability on, the
\* subject had a live binding for it and a credential that the asset named during
\* the request was enabled: a stop, a revocation or a deletion made before a
\* request holds for it.
RunsWereAllowed ==
    \A x \in Executions : runs[x].phase \in {"ran", "answered", "failed"} => held[x] = Checks

\* updateAsset: "A credential-requiring asset must keep a default credential in
\* every state the update can leave it in". It does as long as no two updates of
\* the asset overlap.
ActiveKeepsCredential ==
    \A a \in Assets \ overlapped : assets[a].status = "active" => assets[a].ref # {}

\* The types; every run was allowed by all that it read; an active asset keeps its
\* credential.
AssetInvariant ==
    /\ AssetsTypeOK
    /\ RunsWereAllowed
    /\ ActiveKeepsCredential
=============================================================================
