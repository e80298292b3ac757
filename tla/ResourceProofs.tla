---------------------------- MODULE ResourceProofs ---------------------------
(***************************************************************************)
(* Proofs about what the control service keeps for agents, for all values  *)
(* of the constants: who runs on an asset with a credential, what the      *)
(* gateway is given of credentials and what an agent host keeps of them,   *)
(* skills, their packages and what a host installs of them, the inbox of a *)
(* host, and the evidence about the gateway fleet.                         *)
(***************************************************************************)
EXTENDS MCResources, DirectoryProofs

------------------------------------------------------------------------------
(* Credentials                                                             *)

CredRow == [here : BOOLEAN, enabled : BOOLEAN, mode : Modes, value : 0 .. MaxSecretEdits, rev : 0 .. MaxSecretEdits]

LEMMA NoCredFields == NoCred \in CredRow /\ ~NoCred.here /\ NoCred.value = 0 /\ NoCred.rev = 0
BY CredentialAssumption DEF NoCred, CredRow, Modes

LEMMA CredentialsStart == CredentialsInit => CredentialsTypeOK
BY NoCredFields, CredentialAssumption DEF CredentialsInit, CredentialsTypeOK, CredRow

\* An edit writes at most one row, which gets its revision and keeps its value or
\* gets a new one, or is removed.
LEMMA EditWritesOne ==
    ASSUME CredentialsTypeOK, CredentialEdit
    PROVE  /\ secretEdits < MaxSecretEdits /\ secretEdits' = secretEdits + 1
           /\ cred' \in [Creds -> CredRow]
           /\ \A c \in Creds :
                \/ cred'[c] = cred[c]
                \/ ~cred'[c].here /\ cred'[c].value = 0 /\ cred'[c].rev = 0
                \/ /\ cred'[c].rev = secretEdits + 1
                   /\ cred'[c].value = secretEdits + 1 \/ (cred[c].here /\ cred'[c].value = cred[c].value)
           /\ granted' \cup used' \subseteq {c \in Creds : cred'[c].here}
<1>0. /\ cred \in [Creds -> CredRow] /\ granted \subseteq Creds /\ used \subseteq Creds
      /\ \A c \in granted \cup used : cred[c].here
      /\ secretEdits \in 0 .. MaxSecretEdits /\ MaxSecretEdits \in Nat
  BY CredentialAssumption DEF CredentialsTypeOK, CredRow
<1> DEFINE Goal == /\ cred' \in [Creds -> CredRow]
                   /\ \A c \in Creds :
                        \/ cred'[c] = cred[c]
                        \/ ~cred'[c].here /\ cred'[c].value = 0 /\ cred'[c].rev = 0
                        \/ /\ cred'[c].rev = secretEdits + 1
                           /\ cred'[c].value = secretEdits + 1 \/ (cred[c].here /\ cred'[c].value = cred[c].value)
                   /\ granted' \cup used' \subseteq {c \in Creds : cred'[c].here}
<1>1. secretEdits < MaxSecretEdits /\ secretEdits' = secretEdits + 1
  BY DEF CredentialEdit, SecretEdit, Now, RotateCredential, DeleteCredential, GrantCredential, RevokeCredential,
         UseCredential, CreateCredential, UpdateCredential
<1>2. ASSUME NEW c \in Creds, NEW row \in CredRow, cred' = [cred EXCEPT ![c] = row], UNCHANGED <<granted, used>>,
             row.here, row.rev = secretEdits + 1,
             row.value = secretEdits + 1 \/ (cred[c].here /\ row.value = cred[c].value)
      PROVE  Goal
  BY <1>0, <1>2
<1>3. ASSUME NEW c \in Creds, RotateCredential(c)
      PROVE  Goal
  <2> DEFINE half == [cred[c] EXCEPT !.value = Now]
             row  == [half EXCEPT !.rev = Now]
  <2>1. half \in CredRow /\ half.here /\ half.value = secretEdits + 1
    BY <1>0, <1>1, <1>3 DEF CredRow, RotateCredential, Now
  <2>2. row \in CredRow /\ row.here /\ row.value = secretEdits + 1 /\ row.rev = secretEdits + 1
    BY <1>0, <1>1, <2>1 DEF CredRow, Now
  <2>3. cred' = [cred EXCEPT ![c] = row] /\ UNCHANGED <<granted, used>>
    BY <1>0, <1>3 DEF RotateCredential, Rotated
  <2> HIDE DEF row
  <2> QED BY <1>2, <2>2, <2>3
<1>4. ASSUME NEW c \in Creds, NEW on \in BOOLEAN, NEW mode \in Modes, UpdateCredential(c, on, mode)
      PROVE  Goal
  <2> DEFINE a == [cred[c] EXCEPT !.enabled = on]
             b == [a EXCEPT !.mode = mode]
             row == [b EXCEPT !.rev = Now]
  <2>1. cred' = [cred EXCEPT ![c] = row] /\ UNCHANGED <<granted, used>> /\ cred[c].here
    BY <1>0, <1>4 DEF UpdateCredential
  <2>2. a \in CredRow /\ a.here /\ a.value = cred[c].value
    BY <1>0, <2>1 DEF CredRow
  <2> HIDE DEF a
  <2>3. b \in CredRow /\ b.here /\ b.value = cred[c].value
    BY <2>2 DEF CredRow
  <2> HIDE DEF b
  <2>4. row \in CredRow /\ row.here /\ row.value = cred[c].value /\ row.rev = secretEdits + 1
    BY <1>0, <1>1, <2>3 DEF CredRow, Now
  <2> HIDE DEF row
  <2> QED BY <1>2, <2>1, <2>4
<1>5. ASSUME NEW c \in Creds, NEW mode \in Modes, CreateCredential(c, mode)
      PROVE  Goal
  <2> DEFINE row == [here |-> TRUE, enabled |-> TRUE, mode |-> mode, value |-> Now, rev |-> Now]
  <2>1. row \in CredRow /\ row.here /\ row.value = secretEdits + 1 /\ row.rev = secretEdits + 1
    BY <1>0, <1>1 DEF CredRow, Now
  <2>2. cred' = [cred EXCEPT ![c] = row] /\ UNCHANGED <<granted, used>>
    BY <1>5 DEF CreateCredential
  <2> HIDE DEF row
  <2> QED BY <1>2, <2>1, <2>2
<1>6. ASSUME NEW c \in Creds, DeleteCredential(c)
      PROVE  Goal
  <2>1. cred' = [cred EXCEPT ![c] = NoCred] /\ granted' = granted \ {c} /\ used' = used /\ c \notin used
    BY <1>6 DEF DeleteCredential, GrantsWithout
  <2> QED BY <1>0, <2>1, NoCredFields
<1>7. ASSUME NEW c \in Creds, GrantCredential(c) \/ RevokeCredential(c) \/ UseCredential(c)
      PROVE  Goal
  <2>1. cred' = cred /\ granted' \cup used' \subseteq granted \cup used \cup (IF cred[c].here THEN {c} ELSE {})
    BY <1>7 DEF GrantCredential, RevokeCredential, UseCredential
  <2> QED BY <1>0, <2>1
<1> HIDE DEF Goal
<1>8. Goal
  BY <1>3, <1>4, <1>5, <1>6, <1>7 DEF CredentialEdit
<1> QED BY <1>1, <1>8 DEF Goal

LEMMA EditKeepsTypes ==
    ASSUME CredentialsTypeOK, CredentialEdit
    PROVE  CredentialsTypeOK'
BY EditWritesOne, CredentialAssumption DEF CredentialsTypeOK, CredRow

------------------------------------------------------------------------------
(* Assets: the inductive invariant                                         *)

AssetRow == [status : Statuses \cup {"unborn", "gone"}, ref : RefSets, on : BOOLEAN]

PatchRow ==
    [phase : {"valid"}, asset : Assets, statuses : {{}} \cup {{s} : s \in Statuses}, refs : {{}} \cup {{r} : r \in RefSets}]

ExecutionRow ==
    [phase : {"stop", "asset", "binding", "credential", "run", "ran", "answered", "failed", "refused"},
     asset : Assets, row : AssetRow, audited : BOOLEAN]

AssetRows ==
    /\ assets \in [Assets -> AssetRow]
    /\ bindings \in [Assets -> {"none", "live", "narrow", "expired"}]
    /\ \A a \in Assets : bindings[a] # "none" => Here(a)
    /\ patches \in [Patches -> PatchRow \cup {NoPatch}]
    /\ runs \in [Executions -> ExecutionRow \cup {NoRun}]
    /\ held \in [Executions -> SUBSET Checks]
    /\ assetEdits \in 0 .. MaxAssetEdits

\* What must have held by the time an execution is where it is.
Earned(run1, checks) ==
    /\ run1.phase \in {"asset", "binding", "credential", "run", "ran", "answered", "failed"} => "stop" \in checks
    /\ run1.phase = "binding" => (run1.row.on => "asset" \in checks)
    /\ run1.phase \in {"credential", "run", "ran", "answered", "failed"} => {"asset", "binding"} \subseteq checks
    /\ run1.phase \in {"run", "ran", "answered", "failed"} => "credential" \in checks

RunsEarned == \A x \in Executions : Earned(runs[x], held[x])

\* An update that was validated leaves the row with a credential, if nobody else
\* updates it.
PatchedStatus(row, p) == IF p.statuses = {} THEN row.status ELSE CHOOSE s \in p.statuses : TRUE
PatchedRef(row, p)    == IF p.refs = {} THEN row.ref ELSE CHOOSE r \in p.refs : TRUE

PatchHolds(rows, p, crossedAssets) ==
    /\ rows[p.asset].status # "unborn"
    /\ (p.asset \notin crossedAssets /\ rows[p.asset].status \in Statuses) =>
           (PatchedStatus(rows[p.asset], p) = "active" => PatchedRef(rows[p.asset], p) # {})

PatchesHold ==
    /\ \A p \in Patches : patches[p].phase = "valid" => PatchHolds(assets, patches[p], overlapped)
    /\ \A p, q \in Patches :
           (p # q /\ patches[p].phase = "valid" /\ patches[q].phase = "valid" /\ patches[p].asset = patches[q].asset)
               => patches[p].asset \in overlapped

AssetInductive ==
    AssetRows /\ RunsEarned /\ ActiveKeepsCredential /\ PatchesHold

LEMMA AssetConstants ==
    /\ NoPatch.phase = "none" /\ NoRun.phase = "none"
    /\ \A s : Absent(s).status = s /\ Absent(s).ref = {} /\ ~Absent(s).on
    /\ Absent("unborn") \in AssetRow /\ Absent("gone") \in AssetRow
BY DEF NoPatch, NoRun, Absent, AssetRow, RefSets

LEMMA RefSetsSmall == \A r \in RefSets : Cardinality(r) <= 1
<1> SUFFICES ASSUME NEW r \in RefSets PROVE Cardinality(r) <= 1
    OBVIOUS
<1>1. CASE r = {}
  BY <1>1, FS_EmptySet
<1>2. CASE r # {}
  <2>1. PICK c : r = {c}
    BY <1>2 DEF RefSets
  <2>2. Cardinality({c}) = 1
    BY FS_Singleton
  <2> QED BY <2>1, <2>2
<1> QED BY <1>1, <1>2

LEMMA AssetInductiveIsEnough == AssetInductive => AssetInvariant
<1> SUFFICES ASSUME AssetInductive PROVE AssetInvariant
    OBVIOUS
<1>1. \A a \in Assets : assets[a].status \in Statuses \cup {"unborn", "gone"} /\ Cardinality(assets[a].ref) <= 1
  BY RefSetsSmall DEF AssetInductive, AssetRows, AssetRow
<1>2. AssetsTypeOK
  BY <1>1 DEF AssetInductive, AssetRows, AssetsTypeOK
<1>3. RunsWereAllowed
  <2> SUFFICES ASSUME NEW x \in Executions, runs[x].phase \in {"ran", "answered", "failed"} PROVE held[x] = Checks
      BY DEF RunsWereAllowed
  <2>1. Earned(runs[x], held[x]) /\ held[x] \subseteq Checks
    BY DEF AssetInductive, AssetRows, RunsEarned
  <2> QED BY <2>1 DEF Earned, Checks
<1> QED BY <1>2, <1>3 DEF AssetInductive, AssetInvariant

LEMMA AssetsStart == AssetsInit => AssetInductive
<1> SUFFICES ASSUME AssetsInit PROVE AssetInductive
    OBVIOUS
<1>1. AssetRows
  BY AssetConstants, AssetAssumption DEF AssetsInit, AssetRows
<1>2. RunsEarned /\ PatchesHold /\ ActiveKeepsCredential
  BY AssetConstants DEF AssetsInit, RunsEarned, Earned, PatchesHold, ActiveKeepsCredential
<1> QED BY <1>1, <1>2 DEF AssetInductive

\* What has held of an execution is not forgotten.
LEMMA HeldGrows ==
    ASSUME AssetInductive, Remember
    PROVE  /\ held' \in [Executions -> SUBSET Checks]
           /\ \A x \in Executions : runs'[x].phase # "none" => held[x] \cup Holds(x)' \subseteq held'[x]
<1>1. \A x \in Executions : Holds(x)' \subseteq Checks
  BY DEF Holds, Checks
<1> QED BY <1>1 DEF Remember, AssetInductive, AssetRows

\* Executions that do not move keep what they earned.
LEMMA RunsStay ==
    ASSUME AssetInductive, Remember, runs' = runs
    PROVE  held' \in [Executions -> SUBSET Checks] /\ RunsEarned'
<1>1. \A x \in Executions : runs[x].phase # "none" => held[x] \subseteq held'[x]
  BY HeldGrows
<1>2. \A x \in Executions : Earned(runs[x], held'[x])
  BY <1>1 DEF AssetInductive, RunsEarned, Earned
<1> QED BY <1>2, HeldGrows DEF RunsEarned

\* One execution moves and has earned where it gets.
LEMMA RunMovesOn ==
    ASSUME AssetInductive, Remember, NEW x \in Executions, NEW row \in ExecutionRow,
           runs' = [runs EXCEPT ![x] = row], Earned(row, held[x] \cup Holds(x)'),
           UNCHANGED <<assets, bindings, halted, patches, overlapped, assetEdits>>
    PROVE  AssetInductive'
<1>1. runs' \in [Executions -> ExecutionRow \cup {NoRun}] /\ runs'[x] = row /\ \A y \in Executions \ {x} : runs'[y] = runs[y]
  BY DEF AssetInductive, AssetRows
<1>2. row.phase # "none"
  BY DEF ExecutionRow
<1>3. \A y \in Executions : Earned(runs'[y], held'[y])
  <2> SUFFICES ASSUME NEW y \in Executions PROVE Earned(runs'[y], held'[y])
      OBVIOUS
  <2>1. CASE y = x
    BY <1>1, <1>2, <2>1, HeldGrows DEF Earned
  <2>2. CASE y # x
    <3>1. Earned(runs[y], held[y]) /\ (runs[y].phase # "none" => held[y] \subseteq held'[y])
      BY <1>1, <2>2, HeldGrows DEF AssetInductive, RunsEarned
    <3> QED BY <1>1, <2>2, <3>1 DEF Earned
  <2> QED BY <2>1, <2>2
<1>4. AssetRows'
  BY <1>1, HeldGrows DEF AssetInductive, AssetRows, Here
<1>5. PatchesHold' /\ ActiveKeepsCredential'
  BY DEF AssetInductive, PatchesHold, ActiveKeepsCredential
<1> QED BY <1>3, <1>4, <1>5 DEF AssetInductive, RunsEarned

\* A step of an execution that sets its phase.
LEMMA PhaseSet ==
    ASSUME AssetInductive, Remember, NEW x \in Executions, runs[x].phase # "none",
           NEW phase \in {"asset", "binding", "credential", "run", "ran", "answered", "failed", "refused"},
           runs' = [runs EXCEPT ![x].phase = phase],
           \A row : (row.phase = phase /\ row.row = runs[x].row) => Earned(row, held[x] \cup Holds(x)'),
           UNCHANGED <<assets, bindings, halted, patches, overlapped, assetEdits>>
    PROVE  AssetInductive'
<1> DEFINE row == [runs[x] EXCEPT !.phase = phase]
<1>1. runs[x] \in ExecutionRow /\ runs \in [Executions -> ExecutionRow \cup {NoRun}]
  BY AssetConstants DEF AssetInductive, AssetRows
<1>2. row \in ExecutionRow /\ row.phase = phase /\ row.row = runs[x].row
  BY <1>1 DEF ExecutionRow
<1>3. runs' = [runs EXCEPT ![x] = row]
  BY <1>1
<1> HIDE DEF row
<1> QED BY <1>2, <1>3, RunMovesOn

LEMMA StartExecutionKeeps ==
    ASSUME AssetInductive, Remember, NEW x \in Executions, NEW a \in Assets, StartExecution(x, a)
    PROVE  AssetInductive'
<1> DEFINE row == [phase |-> "stop", asset |-> a, row |-> Absent("unborn"), audited |-> FALSE]
<1>1. row \in ExecutionRow /\ row.phase = "stop"
  BY AssetConstants DEF ExecutionRow
<1>2. /\ runs' = [runs EXCEPT ![x] = row]
      /\ UNCHANGED <<assets, bindings, halted, patches, overlapped, assetEdits>>
  BY DEF StartExecution
<1> HIDE DEF row
<1>3. Earned(row, held[x] \cup Holds(x)')
  BY <1>1 DEF Earned
<1> QED BY <1>1, <1>2, <1>3, RunMovesOn

LEMMA CheckStopKeeps ==
    ASSUME AssetInductive, Remember, NEW x \in Executions, CheckStop(x)
    PROVE  AssetInductive'
<1>1. UNCHANGED <<assets, bindings, halted, patches, overlapped, assetEdits>> /\ runs[x].phase = "stop"
  BY DEF CheckStop
<1>2. CASE halted
  <2>1. runs' = [runs EXCEPT ![x].phase = "refused"]
    BY <1>2 DEF CheckStop, Proceed, Halted
  <2> QED BY <1>1, <2>1, PhaseSet DEF Earned
<1>3. CASE ~halted
  <2>1. runs' = [runs EXCEPT ![x].phase = "asset"]
    BY <1>3 DEF CheckStop, Proceed, Halted
  <2>2. "stop" \in Holds(x)'
    BY <1>1, <1>3 DEF Holds
  <2> QED BY <1>1, <2>1, <2>2, PhaseSet DEF Earned
<1> QED BY <1>2, <1>3

LEMMA ReadAssetKeeps ==
    ASSUME AssetInductive, Remember, NEW x \in Executions, ReadAsset(x)
    PROVE  AssetInductive'
<1> DEFINE a     == runs[x].asset
           phase == IF AssetReady(assets[a]) THEN "binding" ELSE "refused"
           half  == [runs[x] EXCEPT !.phase = phase]
           row   == [half EXCEPT !.row = assets[a]]
<1>1. UNCHANGED <<assets, bindings, halted, patches, overlapped, assetEdits>> /\ runs[x].phase = "asset"
  BY DEF ReadAsset
<1>2. runs[x] \in ExecutionRow /\ runs \in [Executions -> ExecutionRow \cup {NoRun}] /\ assets[a] \in AssetRow
  BY <1>1, AssetConstants DEF AssetInductive, AssetRows, ExecutionRow
<1>3. runs' = [runs EXCEPT ![x] = row]
  BY <1>2 DEF ReadAsset, Proceed
<1>4. half \in ExecutionRow /\ half.phase = phase /\ half.asset = a
  BY <1>2 DEF ExecutionRow
<1> HIDE DEF half
<1>5. row \in ExecutionRow /\ row.phase = phase /\ row.row = assets[a] /\ row.asset = a
  BY <1>2, <1>4 DEF ExecutionRow
<1> HIDE DEF row
<1>6. runs'[x] = row
  BY <1>2, <1>3
<1>7. (phase = "binding" /\ row.row.on) => "asset" \in Holds(x)'
  BY <1>1, <1>5, <1>6 DEF Holds
<1>8. "stop" \in held[x]
  BY <1>1 DEF AssetInductive, RunsEarned, Earned
<1>9. Earned(row, held[x] \cup Holds(x)')
  BY <1>5, <1>7, <1>8 DEF Earned
<1> QED BY <1>1, <1>3, <1>5, <1>9, RunMovesOn

LEMMA CheckBindingKeeps ==
    ASSUME AssetInductive, Remember, NEW x \in Executions, CheckBinding(x)
    PROVE  AssetInductive'
<1>1. UNCHANGED <<assets, bindings, halted, patches, overlapped, assetEdits>> /\ runs[x].phase = "binding"
  BY DEF CheckBinding
<1>2. runs[x] \in ExecutionRow /\ runs \in [Executions -> ExecutionRow \cup {NoRun}]
  BY <1>1, AssetConstants DEF AssetInductive, AssetRows
<1> DEFINE ok == Bound(runs[x].asset) /\ runs[x].row.on
<1>3. CASE ~ok
  <2>1. runs' = [runs EXCEPT ![x].phase = "refused"]
    BY <1>3 DEF CheckBinding, Proceed
  <2> QED BY <1>1, <2>1, PhaseSet DEF Earned
<1>4. CASE ok
  <2>1. runs' = [runs EXCEPT ![x].phase = "credential"]
    BY <1>4 DEF CheckBinding, Proceed
  <2>2. runs'[x].asset = runs[x].asset
    BY <1>2, <2>1 DEF ExecutionRow
  <2>3. "binding" \in Holds(x)'
    BY <1>1, <1>4, <2>2 DEF Holds, Bound
  <2>4. {"stop", "asset"} \subseteq held[x]
    BY <1>1, <1>4 DEF AssetInductive, RunsEarned, Earned
  <2> QED BY <1>1, <2>1, <2>3, <2>4, PhaseSet DEF Earned
<1> QED BY <1>3, <1>4

LEMMA ResolveSSHAuthKeeps ==
    ASSUME AssetInductive, Remember, UNCHANGED credentialVars, NEW x \in Executions, ResolveSSHAuth(x)
    PROVE  AssetInductive'
<1>1. UNCHANGED <<assets, bindings, halted, patches, overlapped, assetEdits>> /\ runs[x].phase = "credential"
  BY DEF ResolveSSHAuth
<1>2. runs[x] \in ExecutionRow /\ runs \in [Executions -> ExecutionRow \cup {NoRun}]
  BY <1>1, AssetConstants DEF AssetInductive, AssetRows
<1>3. CASE ~SomeCred(runs[x].row.ref)
  <2>1. runs' = [runs EXCEPT ![x].phase = "refused"]
    BY <1>3 DEF ResolveSSHAuth, Proceed
  <2> QED BY <1>1, <2>1, PhaseSet DEF Earned
<1>4. CASE SomeCred(runs[x].row.ref)
  <2>1. runs' = [runs EXCEPT ![x].phase = "run"]
    BY <1>4 DEF ResolveSSHAuth, Proceed
  <2>2. runs'[x].row = runs[x].row
    BY <1>2, <2>1 DEF ExecutionRow
  <2>3. "credential" \in Holds(x)'
    BY <1>4, <2>2 DEF Holds, SomeCred, credentialVars
  <2>4. {"stop", "asset", "binding"} \subseteq held[x]
    BY <1>1 DEF AssetInductive, RunsEarned, Earned
  <2> QED BY <1>1, <2>1, <2>3, <2>4, PhaseSet DEF Earned
<1> QED BY <1>3, <1>4

LEMMA RunAndAuditKeep ==
    ASSUME AssetInductive, Remember, NEW x \in Executions, NEW ok \in BOOLEAN, Run(x) \/ Audit(x, ok)
    PROVE  AssetInductive'
<1>1. UNCHANGED <<assets, bindings, halted, patches, overlapped, assetEdits>> /\ runs[x].phase \in {"run", "ran"}
  BY DEF Run, Audit
<1>2. held[x] = Checks
  BY <1>1 DEF AssetInductive, AssetRows, RunsEarned, Earned, Checks
<1>3. CASE Run(x)
  BY <1>1, <1>2, <1>3, PhaseSet DEF Run, Earned, Checks
<1>4. CASE Audit(x, ok)
  <2> DEFINE phase == IF ok THEN "answered" ELSE "failed"
             half  == [runs[x] EXCEPT !.phase = phase]
             row   == [half EXCEPT !.audited = ok]
  <2>1. runs[x] \in ExecutionRow /\ runs \in [Executions -> ExecutionRow \cup {NoRun}]
    BY <1>1, AssetConstants DEF AssetInductive, AssetRows
  <2>2. runs' = [runs EXCEPT ![x] = row]
    BY <1>4, <2>1 DEF Audit
  <2>3. half \in ExecutionRow /\ half.phase = phase
    BY <2>1 DEF ExecutionRow
  <2> HIDE DEF half
  <2>4. row \in ExecutionRow /\ row.phase = phase
    BY <2>3 DEF ExecutionRow
  <2> HIDE DEF row
  <2>5. Earned(row, held[x] \cup Holds(x)')
    BY <1>2, <2>4 DEF Earned, Checks
  <2> QED BY <1>1, <2>2, <2>4, <2>5, RunMovesOn
<1> QED BY <1>3, <1>4

\* What administrators leave to be shown: rows, updates and credentials of assets.
LEMMA AdministrationKeeps ==
    ASSUME AssetInductive, Remember, runs' = runs,
           assets' \in [Assets -> AssetRow],
           bindings' \in [Assets -> {"none", "live", "narrow", "expired"}],
           \A a \in Assets : bindings'[a] # "none" => assets'[a].status \in Statuses,
           patches' \in [Patches -> PatchRow \cup {NoPatch}],
           assetEdits' \in 0 .. MaxAssetEdits,
           ActiveKeepsCredential', PatchesHold'
    PROVE  AssetInductive'
BY RunsStay DEF AssetInductive, AssetRows, Here

LEMMA AssetEditCounts ==
    ASSUME AssetInductive, AssetEdit
    PROVE  assetEdits' \in 0 .. MaxAssetEdits
BY AssetAssumption DEF AssetInductive, AssetRows, AssetEdit

LEMMA BindingsKeep ==
    ASSUME AssetInductive, Remember, NEW a \in Assets, NEW state \in {"none", "live", "narrow", "expired"},
           CreateAssetBinding(a, state) \/ EndAssetBinding(a, state)
    PROVE  AssetInductive'
<1>1. UNCHANGED <<assets, halted, patches, runs, overlapped>> /\ AssetEdit /\ bindings' = [bindings EXCEPT ![a] = state]
  BY DEF CreateAssetBinding, EndAssetBinding
<1>2. assets[a].status \in Statuses
  BY DEF CreateAssetBinding, EndAssetBinding, AssetInductive, AssetRows, Here
<1>3. /\ bindings' \in [Assets -> {"none", "live", "narrow", "expired"}]
      /\ \A b \in Assets : bindings'[b] # "none" => assets'[b].status \in Statuses
  BY <1>1, <1>2 DEF AssetInductive, AssetRows, Here
<1>4. ActiveKeepsCredential' /\ PatchesHold'
  BY <1>1 DEF AssetInductive, ActiveKeepsCredential, PatchesHold
<1> QED BY <1>1, <1>3, <1>4, AssetEditCounts, AdministrationKeeps DEF AssetInductive, AssetRows

LEMMA SetHaltKeeps ==
    ASSUME AssetInductive, Remember, NEW h \in BOOLEAN, SetHalt(h)
    PROVE  AssetInductive'
<1>1. UNCHANGED <<assets, bindings, patches, runs, overlapped>> /\ AssetEdit
  BY DEF SetHalt
<1>2. ActiveKeepsCredential' /\ PatchesHold'
  BY <1>1 DEF AssetInductive, ActiveKeepsCredential, PatchesHold
<1> QED BY <1>1, <1>2, AssetEditCounts, AdministrationKeeps DEF AssetInductive, AssetRows, Here

LEMMA CreateAssetKeeps ==
    ASSUME AssetInductive, Remember, NEW a \in Assets, NEW s \in Statuses, NEW r \in RefSets, CreateAsset(a, s, r)
    PROVE  AssetInductive'
<1> DEFINE row == [status |-> s, ref |-> r, on |-> TRUE]
<1>1. row \in AssetRow /\ row.status = s /\ row.ref = r
  BY DEF AssetRow
<1>2. /\ UNCHANGED <<bindings, halted, patches, runs, overlapped>> /\ AssetEdit
      /\ assets[a].status = "unborn" /\ assets' = [assets EXCEPT ![a] = row] /\ (s = "active" => r # {})
  BY DEF CreateAsset, KeepsCredential
<1> HIDE DEF row
<1>3. /\ assets' \in [Assets -> AssetRow] /\ assets'[a] = row
      /\ \A b \in Assets \ {a} : assets'[b] = assets[b]
  BY <1>1, <1>2 DEF AssetInductive, AssetRows
<1>4. \A b \in Assets : bindings'[b] # "none" => assets'[b].status \in Statuses
  BY <1>1, <1>2, <1>3 DEF AssetInductive, AssetRows, Here
<1>5. ActiveKeepsCredential'
  BY <1>1, <1>2, <1>3 DEF AssetInductive, ActiveKeepsCredential
<1>6. \A p \in Patches : patches[p].phase = "valid" =>
          /\ patches[p].asset \in Assets /\ patches[p].asset # a
          /\ assets'[patches[p].asset] = assets[patches[p].asset]
  BY <1>2, <1>3, AssetConstants DEF AssetInductive, AssetRows, PatchesHold, PatchHolds, PatchRow
<1>7. PatchesHold'
  BY <1>2, <1>6 DEF AssetInductive, PatchesHold, PatchHolds
<1> QED BY <1>2, <1>3, <1>4, <1>5, <1>7, AssetEditCounts, AdministrationKeeps DEF AssetInductive, AssetRows

LEMMA DeleteAssetKeeps ==
    ASSUME AssetInductive, Remember, NEW a \in Assets, DeleteAsset(a)
    PROVE  AssetInductive'
<1>1. /\ UNCHANGED <<halted, patches, runs, overlapped>> /\ AssetEdit
      /\ assets' = [assets EXCEPT ![a] = Absent("gone")] /\ bindings' = [bindings EXCEPT ![a] = "none"]
  BY DEF DeleteAsset, BindingsWithout
<1>2. /\ assets' \in [Assets -> AssetRow] /\ assets'[a].status = "gone"
      /\ \A b \in Assets \ {a} : assets'[b] = assets[b]
  BY <1>1, AssetConstants DEF AssetInductive, AssetRows
<1>3. /\ bindings' \in [Assets -> {"none", "live", "narrow", "expired"}]
      /\ \A b \in Assets : bindings'[b] # "none" => assets'[b].status \in Statuses
  BY <1>1, <1>2 DEF AssetInductive, AssetRows, Here
<1>4. ActiveKeepsCredential'
  BY <1>1, <1>2 DEF AssetInductive, ActiveKeepsCredential
<1>5. \A p \in Patches : patches[p].phase = "valid" => PatchHolds(assets', patches[p], overlapped)
  <2> SUFFICES ASSUME NEW p \in Patches, patches[p].phase = "valid" PROVE PatchHolds(assets', patches[p], overlapped)
      OBVIOUS
  <2>1. patches[p].asset \in Assets /\ PatchHolds(assets, patches[p], overlapped)
    BY AssetConstants DEF AssetInductive, AssetRows, PatchesHold, PatchRow
  <2> QED BY <1>2, <2>1 DEF PatchHolds, Statuses
<1>6. PatchesHold'
  BY <1>1, <1>5 DEF AssetInductive, PatchesHold
<1> QED BY <1>1, <1>2, <1>3, <1>4, <1>6, AssetEditCounts, AdministrationKeeps DEF AssetInductive, AssetRows

LEMMA ValidatePatchKeeps ==
    ASSUME AssetInductive, Remember, NEW p \in Patches, NEW a \in Assets,
           NEW ss \in {{}} \cup {{s} : s \in Statuses}, NEW rs \in {{}} \cup {{r} : r \in RefSets},
           ValidatePatch(p, a, ss, rs)
    PROVE  AssetInductive'
<1> DEFINE row == [phase |-> "valid", asset |-> a, statuses |-> ss, refs |-> rs]
<1>1. row \in PatchRow /\ row.phase = "valid" /\ row.asset = a /\ row.statuses = ss /\ row.refs = rs
  BY DEF PatchRow
<1>2. /\ UNCHANGED <<assets, bindings, halted, runs>> /\ AssetEdit /\ assets[a].status \in Statuses
      /\ patches[p].phase = "none" /\ patches' = [patches EXCEPT ![p] = row]
      /\ overlapped' = IF \E q \in Patches : patches[q].phase = "valid" /\ patches[q].asset = a
                       THEN overlapped \cup {a} ELSE overlapped
  BY DEF ValidatePatch, Here
<1>3. PatchedStatus(assets[a], row) = "active" => PatchedRef(assets[a], row) # {}
  BY <1>1 DEF ValidatePatch, KeepsCredential, PatchedStatus, PatchedRef
<1> HIDE DEF row
<1>4. /\ patches' \in [Patches -> PatchRow \cup {NoPatch}] /\ patches'[p] = row
      /\ \A q \in Patches \ {p} : patches'[q] = patches[q]
  BY <1>1, <1>2 DEF AssetInductive, AssetRows
<1>5. overlapped \subseteq overlapped'
  BY <1>2
<1>6. ActiveKeepsCredential'
  BY <1>2, <1>5 DEF AssetInductive, ActiveKeepsCredential
<1>7. \A q \in Patches : patches'[q].phase = "valid" => PatchHolds(assets', patches'[q], overlapped')
  <2> SUFFICES ASSUME NEW q \in Patches, patches'[q].phase = "valid" PROVE PatchHolds(assets', patches'[q], overlapped')
      OBVIOUS
  <2>1. CASE q = p
    BY <1>1, <1>2, <1>3, <1>4, <2>1 DEF PatchHolds, Statuses
  <2>2. CASE q # p
    BY <1>2, <1>4, <1>5, <2>2 DEF AssetInductive, PatchesHold, PatchHolds
  <2> QED BY <2>1, <2>2
<1>8. ASSUME NEW q \in Patches, NEW t \in Patches, q # t, patches'[q].phase = "valid", patches'[t].phase = "valid",
             patches'[q].asset = patches'[t].asset
      PROVE  patches'[q].asset \in overlapped'
  <2>1. CASE q = p
    BY <1>1, <1>2, <1>4, <1>8, <2>1
  <2>2. CASE t = p
    BY <1>1, <1>2, <1>4, <1>8, <2>2
  <2>3. CASE q # p /\ t # p
    BY <1>4, <1>5, <1>8, <2>3 DEF AssetInductive, PatchesHold
  <2> QED BY <2>1, <2>2, <2>3
<1>9. PatchesHold'
  BY <1>7, <1>8 DEF PatchesHold
<1> QED BY <1>2, <1>4, <1>6, <1>9, AssetEditCounts, AdministrationKeeps DEF AssetInductive, AssetRows, Here

LEMMA CommitPatchKeeps ==
    ASSUME AssetInductive, Remember, NEW p \in Patches, NEW on \in BOOLEAN, CommitPatch(p, on)
    PROVE  AssetInductive'
<1> DEFINE a     == patches[p].asset
           half1 == [assets[a] EXCEPT !.status = PatchedStatus(assets[a], patches[p])]
           half2 == [half1 EXCEPT !.ref = PatchedRef(assets[a], patches[p])]
           row   == [half2 EXCEPT !.on = on]
<1>1. /\ patches[p].phase = "valid" /\ patches' = [patches EXCEPT ![p] = NoPatch]
      /\ UNCHANGED <<bindings, halted, runs, overlapped, assetEdits>>
  BY DEF CommitPatch
<1>2. patches[p] \in PatchRow /\ a \in Assets /\ assets[a] \in AssetRow /\ assets \in [Assets -> AssetRow]
  BY <1>1, AssetConstants DEF AssetInductive, AssetRows, PatchRow
<1>3. /\ PatchedStatus(assets[a], patches[p]) \in Statuses \cup {"unborn", "gone"}
      /\ (assets[a].status \in Statuses => PatchedStatus(assets[a], patches[p]) \in Statuses)
      /\ PatchedRef(assets[a], patches[p]) \in RefSets
  <2>1. PatchedStatus(assets[a], patches[p]) \in {assets[a].status} \cup Statuses
    BY <1>2 DEF PatchedStatus, PatchRow
  <2>2. PatchedRef(assets[a], patches[p]) \in {assets[a].ref} \cup RefSets
    BY <1>2 DEF PatchedRef, PatchRow
  <2> QED BY <1>2, <2>1, <2>2 DEF AssetRow
<1>4. assets[a].status \in Statuses => assets' = [assets EXCEPT ![a] = row]
  BY <1>2 DEF CommitPatch, Here, PatchedStatus, PatchedRef, AssetRow
<1>5. assets[a].status \notin Statuses => assets' = assets
  BY DEF CommitPatch, Here
<1>6. half1 \in AssetRow /\ half1.status = PatchedStatus(assets[a], patches[p])
  BY <1>2, <1>3 DEF AssetRow
<1> HIDE DEF half1
<1>7. /\ half2 \in AssetRow /\ half2.status = PatchedStatus(assets[a], patches[p])
      /\ half2.ref = PatchedRef(assets[a], patches[p])
  BY <1>3, <1>6 DEF AssetRow
<1> HIDE DEF half2
<1>8. /\ row \in AssetRow /\ row.status = PatchedStatus(assets[a], patches[p])
      /\ row.ref = PatchedRef(assets[a], patches[p])
  BY <1>7 DEF AssetRow
<1> HIDE DEF row
<1>9. /\ assets' \in [Assets -> AssetRow]
      /\ \A b \in Assets \ {a} : assets'[b] = assets[b]
      /\ assets[a].status \in Statuses => assets'[a] = row
      /\ assets[a].status \notin Statuses => assets'[a] = assets[a]
  BY <1>2, <1>4, <1>5, <1>8
<1>10. \A b \in Assets : assets[b].status \in Statuses => assets'[b].status \in Statuses
  BY <1>3, <1>8, <1>9
<1>11. PatchHolds(assets, patches[p], overlapped)
  BY <1>1 DEF AssetInductive, PatchesHold
<1>12. ActiveKeepsCredential'
  <2> SUFFICES ASSUME NEW b \in Assets \ overlapped, assets'[b].status = "active" PROVE assets'[b].ref # {}
      BY <1>1 DEF ActiveKeepsCredential
  <2>1. CASE b = a /\ assets[a].status \in Statuses
    BY <1>8, <1>9, <1>11, <2>1 DEF PatchHolds
  <2>2. CASE b # a \/ assets[a].status \notin Statuses
    BY <1>9, <2>2 DEF AssetInductive, ActiveKeepsCredential
  <2> QED BY <2>1, <2>2
<1>13. /\ patches' \in [Patches -> PatchRow \cup {NoPatch}] /\ patches'[p].phase = "none"
       /\ \A q \in Patches \ {p} : patches'[q] = patches[q]
  BY <1>1, AssetConstants DEF AssetInductive, AssetRows
<1>14. \A q \in Patches : patches'[q].phase = "valid" => PatchHolds(assets', patches'[q], overlapped)
  <2> SUFFICES ASSUME NEW q \in Patches, patches'[q].phase = "valid" PROVE PatchHolds(assets', patches'[q], overlapped)
      OBVIOUS
  <2>1. q # p /\ patches'[q] = patches[q] /\ PatchHolds(assets, patches[q], overlapped) /\ patches[q].asset \in Assets
    BY <1>13, AssetConstants DEF AssetInductive, AssetRows, PatchesHold, PatchRow
  <2>2. CASE patches[q].asset # a
    BY <1>9, <2>1, <2>2 DEF PatchHolds
  <2>3. CASE patches[q].asset = a
    <3>1. a \in overlapped
      BY <1>1, <1>13, <2>1, <2>3 DEF AssetInductive, PatchesHold
    <3>2. assets'[a].status # "unborn"
      BY <1>3, <1>8, <1>9, <1>11 DEF PatchHolds, Statuses
    <3> QED BY <2>1, <2>3, <3>1, <3>2 DEF PatchHolds
  <2> QED BY <2>2, <2>3
<1>15. PatchesHold'
  BY <1>1, <1>13, <1>14 DEF AssetInductive, PatchesHold
<1>16. \A b \in Assets : bindings'[b] # "none" => assets'[b].status \in Statuses
  BY <1>1, <1>10 DEF AssetInductive, AssetRows, Here
<1> QED BY <1>1, <1>9, <1>12, <1>13, <1>15, <1>16, AdministrationKeeps DEF AssetInductive, AssetRows

LEMMA AssetStep ==
    ASSUME AssetInductive, [AssetNext]_<<assetVars, credentialVars>>
    PROVE  AssetInductive'
<1>1. CASE UNCHANGED <<assetVars, credentialVars>>
  BY <1>1 DEF assetVars, AssetInductive, AssetRows, Here, RunsEarned, PatchesHold, ActiveKeepsCredential
<1>2. ASSUME Remember, ExecutionStep, UNCHANGED credentialVars
      PROVE  AssetInductive'
  <2>1. PICK x \in Executions :
            \/ CheckStop(x) \/ ReadAsset(x) \/ CheckBinding(x) \/ ResolveSSHAuth(x) \/ Run(x)
            \/ \E ok \in BOOLEAN : Audit(x, ok)
            \/ \E a \in Assets : StartExecution(x, a)
    BY <1>2 DEF ExecutionStep
  <2>2. ASSUME NEW ok \in BOOLEAN, Audit(x, ok)
        PROVE  AssetInductive'
    BY <1>2, <2>2, RunAndAuditKeep
  <2>3. CASE Run(x)
    BY <1>2, <2>3, RunAndAuditKeep
  <2> QED BY <1>2, <2>1, <2>2, <2>3, CheckStopKeeps, ReadAssetKeeps, CheckBindingKeeps, ResolveSSHAuthKeeps,
             StartExecutionKeeps
<1>3. ASSUME Remember, AssetAdministration
      PROVE  AssetInductive'
  <2>1. ASSUME NEW a \in Assets, NEW s \in {"none", "live", "narrow", "expired"},
               CreateAssetBinding(a, s) \/ EndAssetBinding(a, s)
        PROVE  AssetInductive'
    BY <1>3, <2>1, BindingsKeep
  <2>2. ASSUME NEW a \in Assets, DeleteAsset(a)
        PROVE  AssetInductive'
    BY <1>3, <2>2, DeleteAssetKeeps
  <2>3. ASSUME NEW a \in Assets, NEW s \in Statuses, NEW r \in RefSets, CreateAsset(a, s, r)
        PROVE  AssetInductive'
    BY <1>3, <2>3, CreateAssetKeeps
  <2>4. ASSUME NEW a \in Assets, NEW p \in Patches, NEW ss \in {{}} \cup {{s} : s \in Statuses},
               NEW rs \in {{}} \cup {{r} : r \in RefSets}, ValidatePatch(p, a, ss, rs)
        PROVE  AssetInductive'
    BY <1>3, <2>4, ValidatePatchKeeps
  <2>5. ASSUME NEW p \in Patches, NEW on \in BOOLEAN, CommitPatch(p, on)
        PROVE  AssetInductive'
    BY <1>3, <2>5, CommitPatchKeeps
  <2>6. ASSUME NEW h \in BOOLEAN, SetHalt(h)
        PROVE  AssetInductive'
    BY <1>3, <2>6, SetHaltKeeps
  <2> QED BY <1>3, <2>1, <2>2, <2>3, <2>4, <2>5, <2>6 DEF AssetAdministration
<1>4. ASSUME Remember, UNCHANGED <<assets, bindings, halted, patches, runs, overlapped, assetEdits>>
      PROVE  AssetInductive'
  <2>1. ActiveKeepsCredential' /\ PatchesHold'
    BY <1>4 DEF AssetInductive, ActiveKeepsCredential, PatchesHold
  <2> QED BY <1>4, <2>1, AdministrationKeeps DEF AssetInductive, AssetRows, Here
<1> QED BY <1>1, <1>2, <1>3, <1>4 DEF AssetNext

\* executeAsset, updateAsset: a command runs only after the stop, the asset, the
\* binding and the credential each allowed it at some moment of the request, and
\* an active asset keeps a credential as long as its updates do not overlap.
THEOREM AssetsAreSafe == AssetSpec => []AssetInvariant
<1>1. AssetInductive /\ [AssetNext]_<<assetVars, credentialVars>> => AssetInductive'
  BY AssetStep
<1>2. AssetSpec => []AssetInductive
  BY <1>1, AssetsStart, PTL DEF AssetSpec
<1> QED BY <1>2, AssetInductiveIsEnough, PTL

------------------------------------------------------------------------------
(* Secrets: the inductive invariant                                        *)

SecretRow == [here : BOOLEAN, ours : BOOLEAN, value : Nat, version : Nat]

Writing == {"writeIds", "writeInventory"}

PublisherRow ==
    [phase : {"wait", "ids", "inventory"} \cup Writing, todo : SUBSET Creds, item : SUBSET Creds,
     found : BOOLEAN, value : Nat, seen : SecretRow, failed : BOOLEAN]

PublisherRows ==
    /\ secrets \in [Creds -> SecretRow]
    /\ publisher \in [Publishers -> PublisherRow]
    /\ ready \in [Publishers -> BOOLEAN] /\ quiet \in [Publishers -> BOOLEAN]

\* A publisher that writes has one credential in hand; what it saw of its Secret is
\* what the Secret was at that version.
SeenWas(p) ==
    publisher[p].phase \in Writing =>
        \E c \in Creds :
            /\ publisher[p].item = {c}
            /\ publisher[p].seen.version <= secrets[c].version
            /\ publisher[p].seen.version = secrets[c].version => publisher[p].seen = secrets[c]

\* A pass that nothing has disturbed and in which nothing has failed: what it read is
\* so, and what is not delivered is still to come.
PassHolds(p) ==
    /\ publisher[p].phase # "wait" =>
           \A c \in publisher[p].item : /\ publisher[p].found <=> Eligible(c)
                                        /\ publisher[p].value = cred[c].value
    /\ publisher[p].phase \in Writing => \A c \in publisher[p].item : publisher[p].seen = secrets[c]
    /\ publisher[p].phase \in {"ids", "writeIds"} =>
           \A c \in Creds : Eligible(c) => Delivered(c) \/ c \in publisher[p].todo \cup publisher[p].item
    /\ publisher[p].phase \in {"inventory", "writeInventory"} =>
           \A c \in Creds : Delivered(c) \/ c \in publisher[p].todo \cup publisher[p].item
    /\ publisher[p].phase = "wait" /\ ready[p] => \A c \in Creds : Delivered(c)

PublisherInductive ==
    /\ CredentialsTypeOK /\ PublisherRows
    /\ \A p \in Publishers : SeenWas(p)
    /\ \A p \in Publishers : publisher[p].item = {} \/ \E c \in Creds : publisher[p].item = {c}
    /\ \A p \in Publishers : quiet[p] /\ ~publisher[p].failed => PassHolds(p)
    /\ \A p \in Publishers : publisher[p].phase = "wait" => ~publisher[p].failed /\ publisher[p].item = {}

LEMMA PublisherInductiveIsEnough == PublisherInductive => ReadyMeansDelivered
BY DEF PublisherInductive, ReadyMeansDelivered, PassHolds, PublisherRows

LEMMA PublisherConstants ==
    /\ NoSecret \in SecretRow /\ ~NoSecret.here
    /\ Waiting \in PublisherRow /\ Waiting.phase = "wait" /\ Waiting.todo = {} /\ Waiting.item = {} /\ ~Waiting.failed
<1>1. NoSecret \in SecretRow /\ ~NoSecret.here
  BY DEF NoSecret, SecretRow
<1> QED BY <1>1 DEF Waiting, PublisherRow

LEMMA PublisherStarts == PublisherInit => PublisherInductive
BY CredentialsStart, PublisherConstants
   DEF PublisherInit, PublisherInductive, PublisherRows, SeenWas, PassHolds, Writing

\* What was seen of a Secret stays what it was, for each Secret changes with its
\* version.
LEMMA SeenStays ==
    ASSUME PublisherInductive, NEW p \in Publishers, publisher'[p] = publisher[p], secrets' \in [Creds -> SecretRow],
           \A c \in Creds : secrets'[c] = secrets[c] \/ secrets'[c].version > secrets[c].version
    PROVE  SeenWas(p)'
<1> SUFFICES ASSUME publisher[p].phase \in Writing
             PROVE  \E c \in Creds :
                        /\ publisher[p].item = {c}
                        /\ publisher[p].seen.version <= secrets'[c].version
                        /\ publisher[p].seen.version = secrets'[c].version => publisher[p].seen = secrets'[c]
    BY DEF SeenWas
<1>1. PICK c \in Creds :
          /\ publisher[p].item = {c}
          /\ publisher[p].seen.version <= secrets[c].version
          /\ publisher[p].seen.version = secrets[c].version => publisher[p].seen = secrets[c]
  BY DEF PublisherInductive, SeenWas
<1>2. publisher[p].seen.version \in Nat /\ secrets[c].version \in Nat /\ secrets'[c].version \in Nat
  BY DEF PublisherInductive, PublisherRows, PublisherRow, SecretRow
<1>3. CASE secrets'[c] = secrets[c]
  BY <1>1, <1>3
<1>4. CASE secrets'[c].version > secrets[c].version
  <2>1. publisher[p].seen.version < secrets'[c].version
    BY <1>1, <1>2, <1>4
  <2> QED BY <1>1, <1>2, <2>1
<1> QED BY <1>3, <1>4

\* One publisher moves; the others are undisturbed or no longer count.
LEMMA PublisherMoves ==
    ASSUME PublisherInductive, UNCHANGED credentialVars, NEW p \in Publishers, NEW row \in PublisherRow,
           publisher' = [publisher EXCEPT ![p] = row],
           secrets' \in [Creds -> SecretRow], ready' \in [Publishers -> BOOLEAN], quiet' \in [Publishers -> BOOLEAN],
           \A q \in Publishers \ {p} : ready'[q] = ready[q] /\ (quiet'[q] => quiet[q] /\ secrets' = secrets),
           \A c \in Creds : secrets'[c] = secrets[c] \/ secrets'[c].version > secrets[c].version,
           row.item = {} \/ \E c \in Creds : row.item = {c},
           row.phase = "wait" => ~row.failed /\ row.item = {},
           SeenWas(p)', quiet'[p] /\ ~row.failed => PassHolds(p)'
    PROVE  PublisherInductive'
<1>1. /\ publisher' \in [Publishers -> PublisherRow] /\ publisher'[p] = row
      /\ \A q \in Publishers \ {p} : publisher'[q] = publisher[q]
  BY DEF PublisherInductive, PublisherRows
<1>2. CredentialsTypeOK' /\ PublisherRows'
  BY <1>1 DEF PublisherInductive, PublisherRows, CredentialsTypeOK, credentialVars
<1>3. \A q \in Publishers : SeenWas(q)'
  BY <1>1, SeenStays
<1>4. ASSUME NEW q \in Publishers, quiet'[q] /\ ~publisher'[q].failed
      PROVE  PassHolds(q)'
  <2>1. CASE q = p
    BY <1>1, <1>4, <2>1
  <2>2. CASE q # p
    <3>1. publisher'[q] = publisher[q] /\ ready'[q] = ready[q] /\ quiet[q] /\ secrets' = secrets /\ PassHolds(q)
      BY <1>1, <1>4, <2>2 DEF PublisherInductive
    <3>2. UNCHANGED <<cred, granted, used>>
      BY DEF credentialVars
    <3>3. \A c \in Creds : (Eligible(c)' <=> Eligible(c)) /\ (Delivered(c)' <=> Delivered(c))
      BY <3>1, <3>2 DEF Eligible, Delivered
    <3>4. publisher[q].item \subseteq Creds
      BY DEF PublisherInductive, PublisherRows, PublisherRow
    <3> QED BY <3>1, <3>2, <3>3, <3>4 DEF PassHolds
  <2> QED BY <2>1, <2>2
<1>5. \A q \in Publishers : /\ publisher'[q].item = {} \/ \E c \in Creds : publisher'[q].item = {c}
                            /\ publisher'[q].phase = "wait" => ~publisher'[q].failed /\ publisher'[q].item = {}
  BY <1>1 DEF PublisherInductive
<1> QED BY <1>2, <1>3, <1>4, <1>5 DEF PublisherInductive

\* The same when nothing but the publisher changes.
LEMMA OnlyPublisherMoves ==
    ASSUME PublisherInductive, UNCHANGED credentialVars, NEW p \in Publishers, NEW row \in PublisherRow,
           publisher' = [publisher EXCEPT ![p] = row], UNCHANGED <<secrets, ready, quiet>>,
           row.item = {} \/ \E c \in Creds : row.item = {c},
           row.phase = "wait" => ~row.failed /\ row.item = {},
           SeenWas(p)', quiet[p] /\ ~row.failed => PassHolds(p)'
    PROVE  PublisherInductive'
BY PublisherMoves DEF PublisherInductive, PublisherRows

\* What the step of a publisher reads is as it was.
LEMMA CredentialsSame ==
    ASSUME UNCHANGED credentialVars
    PROVE  UNCHANGED <<cred, granted, used>> /\ \A c \in Creds : Eligible(c)' <=> Eligible(c)
BY DEF credentialVars, Eligible

LEMMA StartSyncKeeps ==
    ASSUME PublisherInductive, UNCHANGED credentialVars, NEW p \in Publishers, StartSync(p)
    PROVE  PublisherInductive'
<1> DEFINE todo == {c \in Creds : Eligible(c)}
           half == [Waiting EXCEPT !.phase = "ids"]
           row  == [half EXCEPT !.todo = todo]
<1>1. publisher' = [publisher EXCEPT ![p] = row] /\ UNCHANGED <<secrets, ready>> /\ quiet' = [quiet EXCEPT ![p] = TRUE]
  BY DEF StartSync
<1>2. half \in PublisherRow /\ half.phase = "ids" /\ half.item = {} /\ ~half.failed
  BY PublisherConstants DEF PublisherRow
<1> HIDE DEF half
<1>3. row \in PublisherRow /\ row.phase = "ids" /\ row.item = {} /\ ~row.failed /\ row.todo = todo
  BY <1>2 DEF PublisherRow
<1> HIDE DEF row
<1>4. publisher'[p] = row
  BY <1>1 DEF PublisherInductive, PublisherRows
<1>5. SeenWas(p)' /\ PassHolds(p)'
  BY <1>3, <1>4, CredentialsSame DEF SeenWas, PassHolds, Writing
<1>6. quiet' \in [Publishers -> BOOLEAN] /\ \A q \in Publishers \ {p} : quiet'[q] = quiet[q]
  BY <1>1 DEF PublisherInductive, PublisherRows
<1> QED BY <1>1, <1>3, <1>5, <1>6, PublisherMoves DEF PublisherInductive, PublisherRows

LEMMA ListSecretsKeeps ==
    ASSUME PublisherInductive, UNCHANGED credentialVars, NEW p \in Publishers, ListSecrets(p)
    PROVE  PublisherInductive'
<1> DEFINE old  == publisher[p]
           half == [old EXCEPT !.phase = "inventory"]
           row  == [half EXCEPT !.todo = Owned]
<1>0. old \in PublisherRow /\ old.phase = "ids" /\ old.todo = {} /\ old.item = {}
  BY DEF ListSecrets, PublisherInductive, PublisherRows
<1>1. publisher' = [publisher EXCEPT ![p] = row] /\ UNCHANGED <<secrets, ready, quiet>>
  BY DEF ListSecrets, Inventory, PublisherInductive, PublisherRows
<1>2. half \in PublisherRow /\ half.phase = "inventory" /\ half.item = {} /\ half.failed = old.failed
  BY <1>0 DEF PublisherRow
<1> HIDE DEF half
<1>3. row \in PublisherRow /\ row.phase = "inventory" /\ row.item = {} /\ row.failed = old.failed /\ row.todo = Owned
  BY <1>2 DEF PublisherRow, Owned
<1> HIDE DEF row
<1>4. publisher'[p] = row
  BY <1>1 DEF PublisherInductive, PublisherRows
<1>5. SeenWas(p)'
  BY <1>3, <1>4 DEF SeenWas, Writing
<1>6. quiet[p] /\ ~row.failed => PassHolds(p)'
  <2> SUFFICES ASSUME quiet[p], ~row.failed PROVE PassHolds(p)'
      OBVIOUS
  <2>1. \A c \in Creds : Eligible(c) => Delivered(c)
    BY <1>0, <1>3 DEF PublisherInductive, PassHolds
  <2>2. \A c \in Creds : Delivered(c) \/ c \in Owned
    BY <2>1 DEF Delivered, Owned
  <2>3. \A c \in Creds : Delivered(c)' <=> Delivered(c)
    BY <1>1, CredentialsSame DEF Delivered
  <2> QED BY <1>3, <1>4, <2>2, <2>3 DEF PassHolds, Writing
<1> QED BY <1>1, <1>3, <1>5, <1>6, OnlyPublisherMoves

LEMMA ReadCredentialKeeps ==
    ASSUME PublisherInductive, UNCHANGED credentialVars, NEW p \in Publishers, NEW c \in Creds, ReadCredential(p, c)
    PROVE  PublisherInductive'
<1> DEFINE old   == publisher[p]
           found == Eligible(c)
           r1    == [old EXCEPT !.item = {c}]
           r2    == [r1 EXCEPT !.found = found]
           r3    == [r2 EXCEPT !.value = cred[c].value]
           row   == [r3 EXCEPT !.todo = old.todo \ {c}]
<1>0. /\ old \in PublisherRow /\ old.phase \in {"ids", "inventory"} /\ old.item = {}
      /\ cred[c].value \in Nat /\ found \in BOOLEAN
  BY CredentialAssumption DEF ReadCredential, PublisherInductive, PublisherRows, CredentialsTypeOK, Eligible
<1>1. publisher' = [publisher EXCEPT ![p] = row] /\ UNCHANGED <<secrets, ready, quiet>>
  BY <1>0 DEF ReadCredential, PublisherInductive, PublisherRows, PublisherRow
<1> HIDE DEF found
<1>2. r1 \in PublisherRow /\ r1.item = {c} /\ r1.phase = old.phase /\ r1.failed = old.failed
  BY <1>0 DEF PublisherRow
<1> HIDE DEF r1
<1>3. r2 \in PublisherRow /\ r2.item = {c} /\ r2.phase = old.phase /\ r2.failed = old.failed /\ r2.found = found
  BY <1>0, <1>2 DEF PublisherRow
<1> HIDE DEF r2
<1>4. /\ r3 \in PublisherRow /\ r3.item = {c} /\ r3.phase = old.phase /\ r3.failed = old.failed /\ r3.found = found
      /\ r3.value = cred[c].value
  BY <1>0, <1>3 DEF PublisherRow
<1> HIDE DEF r3
<1>5. /\ row \in PublisherRow /\ row.item = {c} /\ row.phase = old.phase /\ row.failed = old.failed /\ row.found = found
      /\ row.value = cred[c].value /\ row.todo = old.todo \ {c}
  BY <1>0, <1>4 DEF PublisherRow
<1> HIDE DEF row
<1>6. publisher'[p] = row
  BY <1>1 DEF PublisherInductive, PublisherRows
<1>7. SeenWas(p)'
  BY <1>0, <1>5, <1>6 DEF SeenWas, Writing
<1>8. quiet[p] /\ ~row.failed => PassHolds(p)'
  <2> SUFFICES ASSUME quiet[p], ~row.failed PROVE PassHolds(p)'
      OBVIOUS
  <2>1. PassHolds(p)
    BY <1>5 DEF PublisherInductive
  <2>2. row.found <=> Eligible(c)'
    BY <1>5, CredentialsSame DEF found
  <2>3. \A d \in Creds : Delivered(d)' <=> Delivered(d)
    BY <1>1, CredentialsSame DEF Delivered
  <2> QED BY <1>0, <1>5, <1>6, <2>1, <2>2, <2>3, CredentialsSame DEF PassHolds, Writing
<1> QED BY <1>0, <1>1, <1>5, <1>7, <1>8, OnlyPublisherMoves

LEMMA GetSecretKeeps ==
    ASSUME PublisherInductive, UNCHANGED credentialVars, NEW p \in Publishers, GetSecret(p)
    PROVE  PublisherInductive'
<1> DEFINE old   == publisher[p]
           c     == ItemOf(p)
           phase == IF old.phase = "ids" THEN "writeIds" ELSE "writeInventory"
           half  == [old EXCEPT !.seen = secrets[c]]
           row   == [half EXCEPT !.phase = phase]
<1>0. old \in PublisherRow /\ old.phase \in {"ids", "inventory"} /\ old.item = {c} /\ c \in Creds /\ secrets[c] \in SecretRow
  BY DEF GetSecret, PublisherInductive, PublisherRows, ItemOf
<1>1. publisher' = [publisher EXCEPT ![p] = row] /\ UNCHANGED <<secrets, ready, quiet>>
  BY <1>0 DEF GetSecret, PublisherInductive, PublisherRows, PublisherRow
<1> HIDE DEF c
<1>2. /\ half \in PublisherRow /\ half.item = {c} /\ half.seen = secrets[c] /\ half.todo = old.todo
      /\ half.failed = old.failed /\ half.found = old.found /\ half.value = old.value
  BY <1>0 DEF PublisherRow
<1> HIDE DEF half
<1>3. /\ row \in PublisherRow /\ row.item = {c} /\ row.seen = secrets[c] /\ row.todo = old.todo /\ row.phase = phase
      /\ row.failed = old.failed /\ row.found = old.found /\ row.value = old.value
  BY <1>2 DEF PublisherRow, Writing
<1> HIDE DEF row
<1>4. publisher'[p] = row
  BY <1>1 DEF PublisherInductive, PublisherRows
<1>5. SeenWas(p)'
  <2>1. secrets[c].version \in Nat
    BY <1>0 DEF SecretRow
  <2> QED BY <1>0, <1>1, <1>3, <1>4, <2>1 DEF SeenWas
<1>6. quiet[p] /\ ~row.failed => PassHolds(p)'
  <2> SUFFICES ASSUME quiet[p], ~row.failed PROVE PassHolds(p)'
      OBVIOUS
  <2>1. PassHolds(p)
    BY <1>3 DEF PublisherInductive
  <2>3. \A d \in Creds : Delivered(d)' <=> Delivered(d)
    BY <1>1, CredentialsSame DEF Delivered
  <2> QED BY <1>0, <1>1, <1>3, <1>4, <2>1, <2>3, CredentialsSame DEF PassHolds, Writing
<1> QED BY <1>0, <1>1, <1>3, <1>5, <1>6, OnlyPublisherMoves

LEMMA FinishSyncKeeps ==
    ASSUME PublisherInductive, UNCHANGED credentialVars, NEW p \in Publishers, FinishSync(p)
    PROVE  PublisherInductive'
<1>1. /\ publisher' = [publisher EXCEPT ![p] = Waiting] /\ UNCHANGED <<secrets, quiet>>
      /\ ready' = [ready EXCEPT ![p] = ~publisher[p].failed]
      /\ publisher[p].phase = "inventory" /\ publisher[p].todo = {} /\ publisher[p].item = {}
  BY DEF FinishSync
<1>2. publisher'[p] = Waiting /\ ready' \in [Publishers -> BOOLEAN] /\ (ready'[p] <=> ~publisher[p].failed)
      /\ \A q \in Publishers \ {p} : ready'[q] = ready[q]
  BY <1>1 DEF PublisherInductive, PublisherRows
<1>3. SeenWas(p)'
  BY <1>2, PublisherConstants DEF SeenWas, Writing
<1>4. quiet'[p] => PassHolds(p)'
  <2> SUFFICES ASSUME quiet[p] PROVE PassHolds(p)'
      BY <1>1
  <2>1. ready'[p] => \A c \in Creds : Delivered(c)
    BY <1>1, <1>2 DEF PublisherInductive, PassHolds
  <2>2. \A d \in Creds : Delivered(d)' <=> Delivered(d)
    BY <1>1, CredentialsSame DEF Delivered
  <2> QED BY <1>2, <2>1, <2>2, PublisherConstants DEF PassHolds, Writing
<1> QED BY <1>1, <1>2, <1>3, <1>4, PublisherConstants, PublisherMoves DEF PublisherInductive, PublisherRows

\* Back: the publisher returns to its pass, with the item done or failed.
LEMMA BackKeeps ==
    ASSUME PublisherInductive, UNCHANGED credentialVars, NEW p \in Publishers, publisher[p].phase \in Writing,
           NEW failed \in BOOLEAN, Back(p, failed), NEW c \in Creds, publisher[p].item = {c},
           secrets' \in [Creds -> SecretRow], \A d \in Creds \ {c} : secrets'[d] = secrets[d],
           secrets'[c] = secrets[c] \/ secrets'[c].version > secrets[c].version,
           quiet' = (IF secrets' = secrets THEN quiet ELSE DisturbedBy(p)),
           (quiet[p] /\ ~publisher[p].failed /\ ~failed) => Delivered(c)'
    PROVE  PublisherInductive'
<1> DEFINE old   == publisher[p]
           phase == IF old.phase = "writeIds" THEN "ids" ELSE "inventory"
           bad   == Failed(p, failed)
           r1    == [old EXCEPT !.phase = phase]
           r2    == [r1 EXCEPT !.item = {}]
           row   == [r2 EXCEPT !.failed = bad]
<1>0. old \in PublisherRow /\ bad \in BOOLEAN /\ (bad <=> old.failed \/ failed)
  BY DEF PublisherInductive, PublisherRows, PublisherRow, Failed
<1>1. /\ publisher' = [publisher EXCEPT ![p] = row]
      /\ ready' = [ready EXCEPT ![p] = ready[p] /\ ~bad]
  BY <1>0 DEF Back, PublisherInductive, PublisherRows, PublisherRow
<1> HIDE DEF bad
<1>2. r1 \in PublisherRow /\ r1.phase = phase /\ r1.todo = old.todo
  BY <1>0 DEF PublisherRow, Writing
<1> HIDE DEF r1
<1>3. r2 \in PublisherRow /\ r2.phase = phase /\ r2.item = {} /\ r2.todo = old.todo
  BY <1>2 DEF PublisherRow
<1> HIDE DEF r2
<1>4. row \in PublisherRow /\ row.phase = phase /\ row.item = {} /\ row.todo = old.todo /\ row.failed = bad
  BY <1>0, <1>3 DEF PublisherRow
<1> HIDE DEF row
<1>5. publisher'[p] = row
  BY <1>1 DEF PublisherInductive, PublisherRows
<1>6. /\ ready' \in [Publishers -> BOOLEAN] /\ \A q \in Publishers \ {p} : ready'[q] = ready[q]
  BY <1>1 DEF PublisherInductive, PublisherRows
<1>7. /\ quiet' \in [Publishers -> BOOLEAN] /\ (quiet'[p] <=> quiet[p])
      /\ \A q \in Publishers \ {p} : quiet'[q] => quiet[q] /\ secrets' = secrets
  BY DEF PublisherInductive, PublisherRows, DisturbedBy
<1>8. SeenWas(p)'
  BY <1>4, <1>5 DEF SeenWas, Writing
<1>9. quiet'[p] /\ ~row.failed => PassHolds(p)'
  <2> SUFFICES ASSUME quiet[p], ~old.failed, ~failed PROVE PassHolds(p)'
      BY <1>0, <1>4, <1>7
  <2>1. PassHolds(p) /\ Delivered(c)'
    BY DEF PublisherInductive
  <2>2. \A d \in Creds \ {c} : Delivered(d)' <=> Delivered(d)
    BY CredentialsSame DEF Delivered
  <2>3. \A d \in Creds : Eligible(d)' <=> Eligible(d)
    BY CredentialsSame
  <2>4. CASE old.phase = "writeIds"
    <3>1. \A d \in Creds : Eligible(d)' => Delivered(d)' \/ d \in old.todo
      BY <2>1, <2>2, <2>3, <2>4 DEF PassHolds
    <3> QED BY <1>4, <1>5, <2>4, <3>1 DEF PassHolds, Writing
  <2>5. CASE old.phase = "writeInventory"
    <3>1. \A d \in Creds : Delivered(d)' \/ d \in old.todo
      BY <2>1, <2>2, <2>5 DEF PassHolds
    <3> QED BY <1>4, <1>5, <2>5, <3>1 DEF PassHolds, Writing
  <2> QED BY <2>4, <2>5 DEF Writing
<1>10. \A d \in Creds : secrets'[d] = secrets[d] \/ secrets'[d].version > secrets[d].version
  OBVIOUS
<1> QED BY <1>1, <1>4, <1>6, <1>7, <1>8, <1>9, <1>10, PublisherMoves

LEMMA FailItemKeeps ==
    ASSUME PublisherInductive, UNCHANGED credentialVars, NEW p \in Publishers, FailItem(p)
    PROVE  PublisherInductive'
<1>1. publisher[p].phase \in Writing /\ Back(p, TRUE) /\ UNCHANGED <<secrets, quiet>>
  BY DEF FailItem, Writing
<1>2. PICK c \in Creds : publisher[p].item = {c}
  BY <1>1 DEF PublisherInductive, SeenWas
<1>3. secrets' \in [Creds -> SecretRow]
  BY <1>1 DEF PublisherInductive, PublisherRows
<1> QED BY <1>1, <1>2, <1>3, BackKeeps

\* What a write makes of the Secret: only one that is as it was seen and not
\* another owner's is written, and then the credential is delivered.
LEMMA WriteDelivers ==
    ASSUME PublisherInductive, UNCHANGED credentialVars, NEW p \in Publishers, WriteSecret(p),
           NEW c \in Creds, publisher[p].item = {c}
    PROVE  /\ secrets' \in [Creds -> SecretRow] /\ \A d \in Creds \ {c} : secrets'[d] = secrets[d]
           /\ secrets'[c] = secrets[c] \/ secrets'[c].version > secrets[c].version
           /\ quiet' = (IF secrets' = secrets THEN quiet ELSE DisturbedBy(p))
           /\ (secrets[c].here /\ ~secrets[c].ours) => secrets'[c] = secrets[c]
           /\ \E failed \in BOOLEAN :
                 /\ Back(p, failed)
                 /\ (quiet[p] /\ ~publisher[p].failed /\ ~failed) => Delivered(c)'
<1> DEFINE old    == publisher[p]
           writes == ~Foreign(p) /\ (Withdrawal(p) \/ DeliveryWrites(p))
           done   == writes /\ Unchanged(p)
           failed == Foreign(p) \/ (writes /\ ~done)
           row    == AppliedSecret(p)
<1>0. /\ ItemOf(p) = c /\ old \in PublisherRow /\ old.seen \in SecretRow /\ secrets[c] \in SecretRow
      /\ secrets[c].version \in Nat /\ old.value \in Nat
  BY DEF ItemOf, PublisherInductive, PublisherRows, PublisherRow, SecretRow
<1>1. old.phase \in Writing
  BY DEF WriteSecret, Writing
<1>2. /\ secrets' = (IF done THEN [secrets EXCEPT ![c] = row] ELSE secrets)
      /\ quiet' = IF done THEN DisturbedBy(p) ELSE quiet
      /\ Back(p, failed)
  BY <1>0 DEF WriteSecret
<1>3. /\ row \in SecretRow /\ row.version = secrets[c].version + 1
      /\ old.found => row.here /\ row.ours /\ row.value = old.value
      /\ ~old.found => ~row.here
  <2>1. CASE old.found
    <3> DEFINE new == [here |-> TRUE, ours |-> TRUE, value |-> old.value, version |-> secrets[c].version + 1]
    <3>1. new \in SecretRow /\ new.here /\ new.ours /\ new.value = old.value /\ new.version = secrets[c].version + 1
      BY <1>0 DEF SecretRow
    <3>2. row = new
      BY <1>0, <2>1 DEF AppliedSecret
    <3> HIDE DEF new, row
    <3> QED BY <2>1, <3>1, <3>2
  <2>2. CASE ~old.found
    <3> DEFINE new == [NoSecret EXCEPT !.version = secrets[c].version + 1]
    <3>1. new \in SecretRow /\ ~new.here /\ new.version = secrets[c].version + 1
      BY <1>0, PublisherConstants DEF SecretRow
    <3>2. row = new
      BY <1>0, <2>2 DEF AppliedSecret
    <3> HIDE DEF new, row
    <3> QED BY <2>2, <3>1, <3>2
  <2> QED BY <2>1, <2>2
<1> HIDE DEF row
<1>4. done => /\ secrets' # secrets /\ secrets'[c] = row /\ row.version > secrets[c].version
              /\ secrets' \in [Creds -> SecretRow] /\ \A d \in Creds \ {c} : secrets'[d] = secrets[d]
  <2> SUFFICES ASSUME done
               PROVE  /\ secrets' # secrets /\ secrets'[c] = row /\ row.version > secrets[c].version
                      /\ secrets' \in [Creds -> SecretRow] /\ \A d \in Creds \ {c} : secrets'[d] = secrets[d]
      OBVIOUS
  <2>1. secrets' = [secrets EXCEPT ![c] = row]
    BY <1>2
  <2>2. /\ secrets'[c] = row /\ secrets' \in [Creds -> SecretRow] /\ \A d \in Creds \ {c} : secrets'[d] = secrets[d]
    BY <1>3, <2>1 DEF PublisherInductive, PublisherRows
  <2>3. row.version > secrets[c].version
    BY <1>0, <1>3
  <2>4. secrets' # secrets
    BY <1>0, <2>2, <2>3
  <2> QED BY <2>2, <2>3, <2>4
<1>5. ~done => secrets' = secrets /\ secrets' \in [Creds -> SecretRow]
  BY <1>2 DEF PublisherInductive, PublisherRows
<1>6. done => old.seen = secrets[c]
  BY <1>0, <1>1 DEF PublisherInductive, SeenWas, Unchanged
<1>7. (secrets[c].here /\ ~secrets[c].ours) => ~done
  BY <1>6 DEF Foreign
<1>8. ASSUME quiet[p], ~old.failed, ~failed
      PROVE  Delivered(c)'
  <2>1. (old.found <=> Eligible(c)) /\ old.value = cred[c].value /\ old.seen = secrets[c]
    BY <1>1, <1>8 DEF PublisherInductive, PassHolds, Writing
  <2>2. (Eligible(c)' <=> Eligible(c)) /\ cred' = cred
    BY CredentialsSame
  <2>3. CASE done
    BY <1>3, <1>4, <2>1, <2>2, <2>3 DEF Delivered
  <2>4. CASE ~done
    <3>1. secrets' = secrets /\ ~writes /\ ~Foreign(p)
      BY <1>5, <1>8, <2>4
    <3> QED BY <2>1, <2>2, <3>1 DEF Delivered, Foreign, Withdrawal, DeliveryWrites
  <2> QED BY <2>3, <2>4
<1>9. failed \in BOOLEAN
  BY DEF Foreign
<1> QED BY <1>2, <1>4, <1>5, <1>7, <1>8, <1>9

LEMMA WriteSecretKeeps ==
    ASSUME PublisherInductive, UNCHANGED credentialVars, NEW p \in Publishers, WriteSecret(p)
    PROVE  PublisherInductive'
<1>1. publisher[p].phase \in Writing
  BY DEF WriteSecret, Writing
<1>2. PICK c \in Creds : publisher[p].item = {c}
  BY <1>1 DEF PublisherInductive, SeenWas
<1>3. PICK failed \in BOOLEAN :
          /\ Back(p, failed)
          /\ (quiet[p] /\ ~publisher[p].failed /\ ~failed) => Delivered(c)'
  BY <1>2, WriteDelivers
<1> QED BY <1>1, <1>2, <1>3, WriteDelivers, BackKeeps

LEMMA StrangerKeeps ==
    ASSUME PublisherInductive, UNCHANGED credentialVars, NEW c \in Creds, Stranger(c)
    PROVE  PublisherInductive'
<1>1. PICK keep \in BOOLEAN :
          secrets' = [secrets EXCEPT ![c] = [here |-> keep, ours |-> FALSE, value |-> 0, version |-> @.version + 1]]
  BY DEF Stranger
<1> DEFINE row == [here |-> keep, ours |-> FALSE, value |-> 0, version |-> secrets[c].version + 1]
<1>2. secrets[c].version \in Nat
  BY DEF PublisherInductive, PublisherRows, SecretRow
<1>3. row \in SecretRow /\ row.version > secrets[c].version
  BY <1>2 DEF SecretRow
<1>4. secrets' = [secrets EXCEPT ![c] = row]
  BY <1>1
<1> HIDE DEF row
<1>5. /\ secrets' \in [Creds -> SecretRow]
      /\ \A d \in Creds : secrets'[d] = secrets[d] \/ secrets'[d].version > secrets[d].version
  BY <1>3, <1>4 DEF PublisherInductive, PublisherRows
<1>6. UNCHANGED <<publisher, ready>> /\ quiet' = [p \in Publishers |-> FALSE]
  BY DEF Stranger
<1>7. \A p \in Publishers : SeenWas(p)'
  BY <1>5, <1>6, SeenStays
<1> QED BY <1>5, <1>6, <1>7 DEF PublisherInductive, PublisherRows, CredentialsTypeOK, credentialVars

\* An edit of a credential disturbs every pass.
LEMMA EditDisturbs ==
    ASSUME PublisherInductive, CredentialEdit, UNCHANGED <<secrets, publisher, ready>>,
           quiet' = [p \in Publishers |-> FALSE]
    PROVE  PublisherInductive'
<1>1. \A p \in Publishers : SeenWas(p)'
  BY DEF PublisherInductive, SeenWas
<1> QED BY <1>1, EditKeepsTypes DEF PublisherInductive, PublisherRows

LEMMA PublisherStep ==
    ASSUME PublisherInductive, [PublisherNext]_<<publisherVars, credentialVars>>
    PROVE  PublisherInductive'
<1>1. ASSUME NEW p \in Publishers, SyncOnce(p) \/ FailItem(p), UNCHANGED credentialVars
      PROVE  PublisherInductive'
  BY <1>1, StartSyncKeeps, ListSecretsKeeps, ReadCredentialKeeps, GetSecretKeeps, WriteSecretKeeps, FailItemKeeps,
     FinishSyncKeeps DEF SyncOnce
<1>2. ASSUME NEW c \in Creds, Stranger(c), UNCHANGED credentialVars
      PROVE  PublisherInductive'
  BY <1>2, StrangerKeeps
<1>3. ASSUME CredentialEdit, quiet' = [p \in Publishers |-> FALSE],
             UNCHANGED <<secrets, publisher, ready, strangers, syncFaults>>
      PROVE  PublisherInductive'
  BY <1>3, EditDisturbs
<1>4. CASE UNCHANGED <<publisherVars, credentialVars>>
  <2>1. UNCHANGED <<secrets, publisher, ready, quiet, cred, granted, used, secretEdits>>
    BY <1>4 DEF publisherVars, credentialVars
  <2>2. \A p \in Publishers : (SeenWas(p)' <=> SeenWas(p)) /\ (PassHolds(p)' <=> PassHolds(p))
    BY <2>1 DEF SeenWas, PassHolds, Eligible, Delivered
  <2> QED BY <2>1, <2>2 DEF PublisherInductive, PublisherRows, CredentialsTypeOK
<1> QED BY <1>1, <1>2, <1>3, <1>4 DEF PublisherNext

\* Sync, Ready: a publisher that reports ready has delivered every eligible
\* credential and withdrawn every other, unless something has changed since.
THEOREM ReadyIsDelivered == PublisherSpec => []ReadyMeansDelivered
<1>1. PublisherInductive /\ [PublisherNext]_<<publisherVars, credentialVars>> => PublisherInductive'
  BY PublisherStep
<1>2. PublisherSpec => []PublisherInductive
  BY <1>1, PublisherStarts, PTL DEF PublisherSpec
<1> QED BY <1>2, PublisherInductiveIsEnough, PTL

StrangersTyped == strangers \in Nat

LEMMA StrangersCounted ==
    ASSUME StrangersTyped, [PublisherNext]_<<publisherVars, credentialVars>>
    PROVE  StrangersTyped'
<1>1. strangers' = strangers \/ \E c \in Creds : Stranger(c)
  BY DEF PublisherNext, publisherVars, SyncOnce, StartSync, ListSecrets, ReadCredential, GetSecret, WriteSecret,
         FinishSync, FailItem
<1> QED BY <1>1 DEF Stranger, StrangersTyped

LEMMA ForeignStays ==
    ASSUME PublisherInductive, StrangersTyped, [PublisherNext]_<<publisherVars, credentialVars>>,
           NEW c \in Creds, secrets[c].here, ~secrets[c].ours, strangers' = strangers
    PROVE  secrets'[c] = secrets[c]
<1>1. ASSUME NEW p \in Publishers, WriteSecret(p), UNCHANGED credentialVars
      PROVE  secrets'[c] = secrets[c]
  <2>1. publisher[p].phase \in Writing
    BY <1>1 DEF WriteSecret, Writing
  <2>2. PICK d \in Creds : publisher[p].item = {d}
    BY <2>1 DEF PublisherInductive, SeenWas
  <2> QED BY <1>1, <2>2, WriteDelivers
<1>2. ASSUME NEW d \in Creds, Stranger(d)
      PROVE  FALSE
  BY <1>2 DEF Stranger, StrangersTyped
<1>3. CASE secrets' = secrets
  BY <1>3
<1> QED BY <1>1, <1>2, <1>3
        DEF PublisherNext, publisherVars, SyncOnce, StartSync, ListSecrets, ReadCredential, GetSecret, FinishSync, FailItem

\* owns, the resourceVersion preconditions: no publisher writes or removes the
\* Secret of another owner, not even one that changed hands after it was read.
THEOREM ForeignSecretsStay == PublisherSpec => ForeignSecretsUntouched
<1>1. PublisherInductive /\ [PublisherNext]_<<publisherVars, credentialVars>> => PublisherInductive'
  BY PublisherStep
<1>2. PublisherInit => StrangersTyped
  BY DEF PublisherInit, StrangersTyped
<1>3. StrangersTyped /\ [PublisherNext]_<<publisherVars, credentialVars>> => StrangersTyped'
  BY StrangersCounted
<1>4. PublisherInductive /\ StrangersTyped /\ [PublisherNext]_<<publisherVars, credentialVars>> =>
          [\A c \in Creds :
             (secrets[c].here /\ ~secrets[c].ours /\ strangers' = strangers) => secrets'[c] = secrets[c]]_publisherVars
  BY ForeignStays
<1> QED BY <1>1, <1>2, <1>3, <1>4, PublisherStarts, PTL DEF PublisherSpec, ForeignSecretsUntouched


------------------------------------------------------------------------------
(* The cache of an agent host: the inductive invariant                     *)

CacheEntry == [rev : Nat, value : Nat]

\* The answers of listAgentCredentials: revisions of some credentials.
Lists == UNION {[D -> Nat] : D \in SUBSET Creds}

SyncRow == [floor : [Creds -> Nat], hidden : SUBSET Creds, seen : Nat, answered : BOOLEAN, list : Lists]
AskRow  == [by : Uses, of : Creds, rev : Nat, answered : BOOLEAN, ok : BOOLEAN, value : Nat]
UseRow  == [phase : {"sync", "synced", "wait", "done", "unavailable"}, of : Creds, floor : Nat, hidden : BOOLEAN,
            seen : Nat, ask : SUBSET Uses, value : Nat]

CacheRows ==
    /\ DOMAIN cache \subseteq Creds /\ \A c \in DOMAIN cache : cache[c] \in CacheEntry
    /\ metadata \in Lists
    /\ syncing = {} \/ \E s \in SyncRow : syncing = {s}
    /\ asks \subseteq AskRow
    /\ DOMAIN current \subseteq Creds /\ \A c \in DOMAIN current : current[c] \in Uses
    /\ uses \in [Uses -> UseRow \cup {NoUse}]

\* The material that is cached or answered under revision r of c is not older than f.
Suits(entries, answers, c, r, f) ==
    /\ (c \in DOMAIN entries /\ entries[c].rev = r) => entries[c].value >= f
    /\ \A a \in answers : (a.answered /\ a.ok /\ a.of = c /\ a.rev = r) => a.value >= f

\* What a synchronisation that began with value f of c, hidden or not, at edit n
\* may rely on: the value has only grown, and what was hidden is so or an edit has
\* followed.
Viewed(c, f, hid, n) ==
    /\ f <= secretEdits /\ n <= secretEdits
    /\ cred[c].here => cred[c].value >= f
    /\ hid /\ secretEdits = n => ~VisibleCredential(c)

\* What it may rely on once c is listed at revision r.
Listed(r, c, f, hid, n) == (hid => secretEdits > n) /\ Suits(cache, asks, c, r, f)

SyncOK(s) ==
    /\ \A c \in Creds : Viewed(c, s.floor[c], c \in s.hidden, s.seen)
    /\ s.answered => \A c \in DOMAIN s.list :
           s.list[c] <= secretEdits /\ Listed(s.list[c], c, s.floor[c], c \in s.hidden, s.seen)

UseOK(u) ==
    /\ uses[u].phase \in {"sync", "synced", "wait"} => Viewed(uses[u].of, uses[u].floor, uses[u].hidden, uses[u].seen)
    /\ uses[u].phase \in {"sync", "synced"} =>
           \A s \in syncing : (s.answered /\ uses[u].of \in DOMAIN s.list) =>
               Listed(s.list[uses[u].of], uses[u].of, uses[u].floor, uses[u].hidden, uses[u].seen)
    /\ (uses[u].phase = "synced" /\ uses[u].of \in DOMAIN metadata) =>
           Listed(metadata[uses[u].of], uses[u].of, uses[u].floor, uses[u].hidden, uses[u].seen)
    /\ uses[u].phase = "wait" =>
           /\ \E a \in asks : uses[u].ask = {a.by} /\ a.of = uses[u].of
           /\ \A a \in asks : (uses[u].ask = {a.by} /\ a.answered /\ a.ok) => a.value >= uses[u].floor
    /\ uses[u].phase \in {"wait", "done"} => (uses[u].hidden => secretEdits > uses[u].seen)
    /\ uses[u].phase = "done" => uses[u].value >= uses[u].floor

\* Material is as new as the credential is at its revision.
StoreOK ==
    /\ \A c \in Creds : cred[c].value <= secretEdits /\ cred[c].rev <= secretEdits
    /\ \A c \in DOMAIN cache :
           /\ cache[c].rev <= secretEdits
           /\ (cred[c].here /\ cred[c].rev = cache[c].rev) => cache[c].value >= cred[c].value
    /\ \A c \in DOMAIN metadata : metadata[c] <= secretEdits
    /\ \A a \in asks :
           /\ a.rev <= secretEdits
           /\ (a.answered /\ a.ok /\ cred[a.of].here /\ cred[a.of].rev = a.rev) => a.value >= cred[a.of].value

\* Every resolution is that of a use that waits for it.
AsksOK ==
    /\ \A a, b \in asks : a.by = b.by => a = b
    /\ \A a \in asks : uses[a.by].phase = "wait" /\ uses[a.by].ask = {a.by}
    /\ \A c \in DOMAIN current : \E a \in asks : a.by = current[c] /\ a.of = c

CacheInductive ==
    /\ CredentialsTypeOK /\ CacheRows /\ StoreOK /\ AsksOK
    /\ \A s \in syncing : SyncOK(s)
    /\ \A u \in Uses : UseOK(u)

LEMMA ListFacts == \A f \in Lists : DOMAIN f \subseteq Creds /\ \A c \in DOMAIN f : f[c] \in Nat
BY DEF Lists

LEMMA EmptyMap == DOMAIN <<>> = {} /\ <<>> \in Lists
<1>1. DOMAIN <<>> = {}
  OBVIOUS
<1>2. <<>> \in [{} -> Nat]
  OBVIOUS
<1> QED BY <1>1, <1>2 DEF Lists

LEMMA NoUseIdle == NoUse.phase = "idle"
BY DEF NoUse

LEMMA CacheInductiveIsEnough == CacheInductive => CredentialsTypeOK /\ UsesAreFresh
BY DEF CacheInductive, UseOK, UsesAreFresh

LEMMA CacheStarts == CacheInit => CacheInductive
<1> SUFFICES ASSUME CacheInit PROVE CacheInductive
    OBVIOUS
<1>1. CredentialsTypeOK
  BY CredentialsStart DEF CacheInit
<1>2. CacheRows
  BY EmptyMap DEF CacheInit, CacheRows
<1>3. StoreOK
  <2>1. \A c \in Creds : cred[c].value = 0 /\ cred[c].rev = 0
    BY DEF CacheInit, CredentialsInit, NoCred
  <2>2. secretEdits = 0
    BY DEF CacheInit, CredentialsInit
  <2> QED BY <2>1, <2>2, EmptyMap DEF CacheInit, StoreOK
<1>4. AsksOK
  BY EmptyMap DEF CacheInit, AsksOK
<1>5. \A u \in Uses : UseOK(u)
  BY NoUseIdle DEF CacheInit, UseOK
<1> QED BY <1>1, <1>2, <1>3, <1>4, <1>5 DEF CacheInit, CacheInductive

\* What the types say of a use that is not idle, and of the synchronisation.
LEMMA UseTypes ==
    ASSUME CacheInductive, NEW u \in Uses, uses[u].phase # "idle"
    PROVE  uses[u] \in UseRow /\ uses[u].of \in Creds /\ uses[u].floor \in Nat /\ uses[u].seen \in Nat
           /\ uses[u].hidden \in BOOLEAN
BY NoUseIdle DEF CacheInductive, CacheRows, UseRow

LEMMA SyncTypes ==
    ASSUME CacheInductive, NEW s \in syncing
    PROVE  /\ s \in SyncRow /\ syncing = {s} /\ s.floor \in [Creds -> Nat] /\ s.hidden \subseteq Creds
           /\ s.seen \in Nat /\ s.answered \in BOOLEAN /\ s.list \in Lists
           /\ DOMAIN s.list \subseteq Creds /\ \A c \in DOMAIN s.list : s.list[c] \in Nat
BY ListFacts DEF CacheInductive, CacheRows, SyncRow

\* No step of the cache makes material older than a view that is still good.
MaterialStays ==
    \A c \in Creds, r \in Nat, f \in Nat :
        (Suits(cache, asks, c, r, f) /\ (cred[c].here => cred[c].value >= f)) => Suits(cache', asks', c, r, f)

LEMMA MaterialShrinks ==
    ASSUME asks' = asks, DOMAIN cache' \subseteq DOMAIN cache, \A c \in DOMAIN cache' : cache'[c] = cache[c]
    PROVE  MaterialStays
BY DEF MaterialStays, Suits

LEMMA UseStays ==
    ASSUME CacheInductive, UNCHANGED credentialVars, MaterialStays,
           \A s \in syncing' : s \in syncing \/ ~s.answered,
           \A c \in DOMAIN metadata' : c \in DOMAIN metadata /\ metadata'[c] = metadata[c],
           NEW u \in Uses, uses'[u] = uses[u],
           uses[u].phase = "wait" =>
               /\ \E a \in asks' : uses[u].ask = {a.by} /\ a.of = uses[u].of
               /\ \A a \in asks' : (uses[u].ask = {a.by} /\ a.answered /\ a.ok) => a.value >= uses[u].floor
    PROVE  UseOK(u)'
<1> DEFINE row == uses[u]
<1>0. UseOK(u) /\ UNCHANGED <<cred, granted, secretEdits>>
  BY DEF CacheInductive, credentialVars
<1>1. row.phase \in {"sync", "synced", "wait"} => Viewed(row.of, row.floor, row.hidden, row.seen)'
  BY <1>0 DEF UseOK, Viewed, VisibleCredential
<1>2. ASSUME row.phase \in {"sync", "synced"}, NEW r \in Nat, Listed(r, row.of, row.floor, row.hidden, row.seen)
      PROVE  Listed(r, row.of, row.floor, row.hidden, row.seen)'
  <2>1. row.of \in Creds /\ row.floor \in Nat /\ (cred[row.of].here => cred[row.of].value >= row.floor)
    BY <1>0, <1>2, UseTypes DEF UseOK, Viewed
  <2>2. Suits(cache', asks', row.of, r, row.floor)
    BY <1>2, <2>1 DEF MaterialStays, Listed
  <2> QED BY <1>0, <1>2, <2>2 DEF Listed
<1>3. ASSUME row.phase \in {"sync", "synced"}, NEW s \in syncing', s.answered, row.of \in DOMAIN s.list
      PROVE  Listed(s.list[row.of], row.of, row.floor, row.hidden, row.seen)'
  <2>1. s \in syncing /\ s.list[row.of] \in Nat
    BY <1>3, SyncTypes
  <2>2. Listed(s.list[row.of], row.of, row.floor, row.hidden, row.seen)
    BY <1>0, <1>3, <2>1 DEF UseOK
  <2> QED BY <1>2, <1>3, <2>1, <2>2
<1>4. ASSUME row.phase = "synced", row.of \in DOMAIN metadata'
      PROVE  Listed(metadata[row.of], row.of, row.floor, row.hidden, row.seen)'
  <2>1. metadata'[row.of] = metadata[row.of] /\ metadata[row.of] \in Nat
    BY <1>4, ListFacts DEF CacheInductive, CacheRows
  <2>2. Listed(metadata[row.of], row.of, row.floor, row.hidden, row.seen)
    BY <1>0, <1>4 DEF UseOK
  <2> QED BY <1>2, <1>4, <2>1, <2>2
<1>5. row.phase \in {"wait", "done"} => (row.hidden => secretEdits' > row.seen)
  BY <1>0 DEF UseOK
<1>6. row.phase = "done" => row.value >= row.floor
  BY <1>0 DEF UseOK
<1> QED BY <1>1, <1>3, <1>4, <1>5, <1>6 DEF UseOK

LEMMA SyncStays ==
    ASSUME CacheInductive, UNCHANGED credentialVars, MaterialStays, NEW s \in syncing
    PROVE  SyncOK(s)'
<1>0. SyncOK(s) /\ UNCHANGED <<cred, granted, secretEdits>>
  BY DEF CacheInductive, credentialVars
<1>1. \A c \in Creds : Viewed(c, s.floor[c], c \in s.hidden, s.seen)'
  BY <1>0 DEF SyncOK, Viewed, VisibleCredential
<1>2. ASSUME s.answered, NEW c \in DOMAIN s.list
      PROVE  s.list[c] <= secretEdits' /\ Listed(s.list[c], c, s.floor[c], c \in s.hidden, s.seen)'
  <2>1. c \in Creds /\ s.list[c] \in Nat /\ s.floor[c] \in Nat
    BY SyncTypes
  <2>2. s.list[c] <= secretEdits /\ Listed(s.list[c], c, s.floor[c], c \in s.hidden, s.seen)
        /\ Viewed(c, s.floor[c], c \in s.hidden, s.seen)
    BY <1>0, <1>2, <2>1 DEF SyncOK
  <2>3. Suits(cache', asks', c, s.list[c], s.floor[c])
    BY <2>1, <2>2 DEF MaterialStays, Listed, Viewed
  <2> QED BY <1>0, <2>2, <2>3 DEF Listed
<1> QED BY <1>1, <1>2 DEF SyncOK

\* A step of the cache: what is left to be shown of it.
LEMMA CacheMoves ==
    ASSUME CacheInductive, UNCHANGED credentialVars, CacheRows', StoreOK', AsksOK',
           \A s \in syncing' : SyncOK(s)', \A u \in Uses : UseOK(u)'
    PROVE  CacheInductive'
BY DEF CacheInductive, CredentialsTypeOK, credentialVars

\* A use that waits, when the resolutions do not change.
LEMMA WaitsOn ==
    ASSUME CacheInductive, asks' = asks, NEW u \in Uses, uses[u].phase = "wait"
    PROVE  /\ \E a \in asks' : uses[u].ask = {a.by} /\ a.of = uses[u].of
           /\ \A a \in asks' : (uses[u].ask = {a.by} /\ a.answered /\ a.ok) => a.value >= uses[u].floor
BY DEF CacheInductive, UseOK

LEMMA ForgetKeeps ==
    ASSUME CacheInductive, UNCHANGED credentialVars, ClearCache \/ \E c \in Creds : ExpireEntry(c)
    PROVE  CacheInductive'
<1>1. /\ UNCHANGED <<syncing, asks, uses>>
      /\ DOMAIN cache' \subseteq DOMAIN cache /\ \A c \in DOMAIN cache' : cache'[c] = cache[c]
      /\ metadata' = metadata \/ metadata' = <<>>
      /\ current' = current \/ current' = <<>>
  BY EmptyMap DEF ClearCache, ExpireEntry, Dropped
<1>2. MaterialStays
  BY <1>1, MaterialShrinks
<1>3. /\ \A c \in DOMAIN metadata' : c \in DOMAIN metadata /\ metadata'[c] = metadata[c]
      /\ \A c \in DOMAIN current' : c \in DOMAIN current /\ current'[c] = current[c]
      /\ metadata' \in Lists
  BY <1>1, EmptyMap DEF CacheInductive, CacheRows
<1>4. \A u \in Uses : UseOK(u)'
  BY <1>1, <1>2, <1>3, WaitsOn, UseStays
<1>5. \A s \in syncing' : SyncOK(s)'
  BY <1>1, <1>2, SyncStays
<1>6. CacheRows'
  BY <1>1, <1>3 DEF CacheInductive, CacheRows
<1>7. StoreOK'
  BY <1>1, <1>3 DEF CacheInductive, StoreOK, credentialVars
<1>8. AsksOK'
  BY <1>1, <1>3 DEF CacheInductive, AsksOK
<1> QED BY <1>4, <1>5, <1>6, <1>7, <1>8, CacheMoves

LEMMA NextUseKeeps ==
    ASSUME CacheInductive, UNCHANGED credentialVars, NEW u \in Uses, NextUse(u)
    PROVE  CacheInductive'
<1>1. /\ UNCHANGED <<cache, metadata, syncing, asks, current>> /\ uses' = [uses EXCEPT ![u] = NoUse]
      /\ \A a \in asks : a.by # u
  BY DEF NextUse
<1>2. uses' \in [Uses -> UseRow \cup {NoUse}] /\ uses'[u] = NoUse /\ \A v \in Uses \ {u} : uses'[v] = uses[v]
  BY <1>1 DEF CacheInductive, CacheRows
<1>3. MaterialStays
  BY <1>1, MaterialShrinks
<1>4. \A v \in Uses : UseOK(v)'
  <2> SUFFICES ASSUME NEW v \in Uses PROVE UseOK(v)'
      OBVIOUS
  <2>1. CASE v = u
    BY <1>2, <2>1, NoUseIdle DEF UseOK
  <2>2. CASE v # u
    BY <1>1, <1>2, <1>3, <2>2, WaitsOn, UseStays
  <2> QED BY <2>1, <2>2
<1>5. \A s \in syncing' : SyncOK(s)'
  BY <1>1, <1>3, SyncStays
<1>6. CacheRows' /\ StoreOK'
  BY <1>1, <1>2 DEF CacheInductive, CacheRows, StoreOK, credentialVars
<1>7. AsksOK'
  BY <1>1, <1>2 DEF CacheInductive, AsksOK, CacheRows, AskRow
<1> QED BY <1>4, <1>5, <1>6, <1>7, CacheMoves

\* A use begins: it joins the synchronisation s, or s begins with it.
LEMMA StartUseKeeps ==
    ASSUME CacheInductive, UNCHANGED credentialVars, NEW u \in Uses, NEW c \in Creds, StartUse(u, c)
    PROVE  CacheInductive'
<1> DEFINE new   == [floor |-> [d \in Creds |-> cred[d].value], hidden |-> {d \in Creds : ~VisibleCredential(d)},
                     seen |-> secretEdits, answered |-> FALSE, list |-> <<>>]
           first == IF syncing # {} THEN CHOOSE t \in syncing : TRUE ELSE new
           Begun(s) == [phase |-> "sync", of |-> c, floor |-> s.floor[c], hidden |-> c \in s.hidden, seen |-> s.seen,
                        ask |-> {}, value |-> 0]
<1>0. UNCHANGED <<cred, granted, secretEdits>> /\ secretEdits \in Nat /\ \A d \in Creds : cred[d].value \in Nat
  BY CredentialAssumption DEF credentialVars, CacheInductive, CredentialsTypeOK
<1>1. /\ uses[u].phase = "idle" /\ syncing' = {first} /\ uses' = [uses EXCEPT ![u] = Begun(first)]
      /\ UNCHANGED <<cache, metadata, asks, current>>
  BY DEF StartUse
<1>2. /\ new \in SyncRow /\ ~new.answered /\ new.seen = secretEdits
      /\ \A d \in Creds : new.floor[d] = cred[d].value /\ (d \in new.hidden <=> ~VisibleCredential(d))
  BY <1>0, EmptyMap DEF SyncRow
<1> HIDE DEF new
<1>3. first = new \/ first \in syncing
  OBVIOUS
<1> HIDE DEF first
<1>p. PICK s : s = first
  OBVIOUS
<1>4. s \in SyncRow /\ syncing' = {s} /\ (s = new \/ s \in syncing)
  BY <1>1, <1>2, <1>3, <1>p, SyncTypes
<1>5. MaterialStays
  BY <1>1, MaterialShrinks
<1>6. SyncOK(s)'
  <2>1. CASE s \in syncing
    BY <1>5, <2>1, SyncStays
  <2>2. CASE s = new
    <3>1. \A d \in Creds : s.floor[d] = cred[d].value /\ (d \in s.hidden <=> ~VisibleCredential(d))
      BY <1>2, <2>2
    <3>2. \A d \in Creds : cred[d].value <= secretEdits
      BY DEF CacheInductive, StoreOK
    <3>3. s.seen = secretEdits /\ ~s.answered
      BY <1>2, <2>2
    <3>4. \A d \in Creds : Viewed(d, s.floor[d], d \in s.hidden, s.seen)'
      BY <1>0, <3>1, <3>2, <3>3 DEF Viewed, VisibleCredential
    <3> QED BY <3>3, <3>4 DEF SyncOK
  <2> QED BY <1>4, <2>1, <2>2
<1> DEFINE hid == c \in s.hidden
           new2 == [phase |-> "sync", of |-> c, floor |-> s.floor[c], hidden |-> hid, seen |-> s.seen,
                    ask |-> {}, value |-> 0]
<1>7. hid \in BOOLEAN /\ s.floor[c] \in Nat /\ s.seen \in Nat
  BY <1>4 DEF SyncRow
<1>8. s.list \in Lists /\ (c \in DOMAIN s.list => s.list[c] \in Nat)
  BY <1>4, ListFacts DEF SyncRow
<1>9. (hid <=> c \in s.hidden) /\ uses' = [uses EXCEPT ![u] = new2]
  BY <1>1, <1>p
<1> HIDE DEF hid
<1>10. /\ new2 \in UseRow /\ new2.phase = "sync" /\ new2.of = c /\ new2.floor = s.floor[c] /\ new2.hidden = hid
       /\ new2.seen = s.seen
  BY <1>7 DEF UseRow
<1> HIDE DEF new2
<1>11. uses' \in [Uses -> UseRow \cup {NoUse}] /\ uses'[u] = new2 /\ \A v \in Uses \ {u} : uses'[v] = uses[v]
  BY <1>9, <1>10 DEF CacheInductive, CacheRows
<1>12. UseOK(u)'
  <2>1. Viewed(c, s.floor[c], c \in s.hidden, s.seen)'
        /\ (s.answered /\ c \in DOMAIN s.list => Listed(s.list[c], c, s.floor[c], c \in s.hidden, s.seen)')
    BY <1>6 DEF SyncOK
  <2>2. Viewed(uses[u].of, uses[u].floor, uses[u].hidden, uses[u].seen)'
    BY <1>9, <1>10, <1>11, <2>1 DEF Viewed
  <2>3. ASSUME s.answered, c \in DOMAIN s.list
        PROVE  Listed(s.list[uses[u].of], uses[u].of, uses[u].floor, uses[u].hidden, uses[u].seen)'
    BY <1>9, <1>10, <1>11, <2>1, <2>3 DEF Listed
  <2> QED BY <1>4, <1>10, <1>11, <2>2, <2>3 DEF UseOK
<1>13. \A v \in Uses : UseOK(v)'
  <2> SUFFICES ASSUME NEW v \in Uses, v # u PROVE UseOK(v)'
      BY <1>12
  <2>1. \A t \in syncing' : t \in syncing \/ ~t.answered
    BY <1>2, <1>4
  <2> QED BY <1>1, <1>5, <1>11, <2>1, WaitsOn, UseStays
<1>14. CacheRows'
  BY <1>1, <1>4, <1>11 DEF CacheInductive, CacheRows
<1>15. StoreOK'
  BY <1>1 DEF CacheInductive, StoreOK, credentialVars
<1>16. AsksOK'
  BY <1>1, <1>11 DEF CacheInductive, AsksOK, CacheRows, AskRow
<1>17. \A t \in syncing' : SyncOK(t)'
  BY <1>4, <1>6
<1> QED BY <1>13, <1>14, <1>15, <1>16, <1>17, CacheMoves

\* The list the server answers, and what the material cached or resolved under
\* its revisions is worth.
LEMMA ListIsFresh ==
    ASSUME CacheInductive, NEW list, list = [c \in {d \in Creds : VisibleCredential(d)} |-> cred[c].rev]
    PROVE  /\ list \in Lists
           /\ \A c \in DOMAIN list : c \in Creds /\ list[c] <= secretEdits
           /\ \A c \in DOMAIN list, f \in Nat, n \in Nat, hid \in BOOLEAN :
                  Viewed(c, f, hid, n) => Listed(list[c], c, f, hid, n)
<1>0. secretEdits \in Nat /\ \A d \in Creds : cred[d].value \in Nat /\ cred[d].rev \in Nat
  BY CredentialAssumption DEF CacheInductive, CredentialsTypeOK
<1> DEFINE D == {d \in Creds : VisibleCredential(d)}
<1>1. D \in SUBSET Creds /\ DOMAIN list = D /\ list \in [D -> Nat]
  BY <1>0
<1>2. list \in Lists
  BY <1>1 DEF Lists
<1>3. \A c \in DOMAIN list : c \in Creds /\ VisibleCredential(c) /\ list[c] = cred[c].rev /\ cred[c].here
  BY <1>1 DEF VisibleCredential
<1>4. \A c \in DOMAIN list : list[c] <= secretEdits
  BY <1>3 DEF CacheInductive, StoreOK
<1>8. ASSUME NEW c \in DOMAIN list, NEW f \in Nat, cred[c].value >= f
      PROVE  Suits(cache, asks, c, list[c], f)
  <2>0. c \in Creds /\ cred[c].value \in Nat /\ cred[c].here /\ list[c] = cred[c].rev
    BY <1>0, <1>3
  <2>1. (c \in DOMAIN cache /\ cache[c].rev = list[c]) => cache[c].value >= f
    <3> SUFFICES ASSUME c \in DOMAIN cache, cache[c].rev = list[c] PROVE cache[c].value >= f
        OBVIOUS
    <3>1. cache[c].value >= cred[c].value /\ cache[c].value \in Nat
      BY <2>0 DEF CacheInductive, StoreOK, CacheRows, CacheEntry
    <3> QED BY <1>8, <2>0, <3>1
  <2>2. ASSUME NEW a \in asks, a.answered, a.ok, a.of = c, a.rev = list[c]
        PROVE  a.value >= f
    <3>1. a.value >= cred[c].value /\ a.value \in Nat
      BY <2>0, <2>2 DEF CacheInductive, StoreOK, CacheRows, AskRow
    <3> QED BY <1>8, <2>0, <3>1
  <2> QED BY <2>1, <2>2 DEF Suits
<1>9. ASSUME NEW c \in DOMAIN list, NEW f \in Nat, NEW n \in Nat, NEW hid \in BOOLEAN, Viewed(c, f, hid, n)
      PROVE  Listed(list[c], c, f, hid, n)
  <2>1. hid => secretEdits > n
    BY <1>0, <1>3, <1>9 DEF Viewed
  <2>2. Suits(cache, asks, c, list[c], f)
    BY <1>3, <1>8, <1>9 DEF Viewed
  <2> QED BY <2>1, <2>2 DEF Listed
<1> QED BY <1>2, <1>3, <1>4, <1>9

LEMMA AnswerListKeeps ==
    ASSUME CacheInductive, UNCHANGED credentialVars, AnswerList
    PROVE  CacheInductive'
<1>p. PICK list : list = [c \in {d \in Creds : VisibleCredential(d)} |-> cred[c].rev]
  OBVIOUS
<1>1. PICK s \in syncing :
          /\ ~s.answered
          /\ syncing' = {[s EXCEPT !.answered = TRUE, !.list = list]}
          /\ UNCHANGED <<cache, metadata, asks, current, uses>>
  BY <1>p DEF AnswerList
<1> DEFINE half == [s EXCEPT !.answered = TRUE]
           t    == [half EXCEPT !.list = list]
<1>0. UNCHANGED <<cred, granted, secretEdits>>
  BY DEF credentialVars
<1>2. syncing' = {t}
  BY <1>1
<1>3. /\ list \in Lists
      /\ \A c \in DOMAIN list : c \in Creds /\ list[c] <= secretEdits
      /\ \A c \in DOMAIN list, f \in Nat, n \in Nat, hid \in BOOLEAN :
             Viewed(c, f, hid, n) => Listed(list[c], c, f, hid, n)
  BY <1>p, ListIsFresh
<1>4. s \in SyncRow /\ SyncOK(s)
  BY SyncTypes DEF CacheInductive
<1>5. half \in SyncRow /\ half.answered /\ half.floor = s.floor /\ half.hidden = s.hidden /\ half.seen = s.seen
  BY <1>4 DEF SyncRow
<1> HIDE DEF half
<1>6. /\ t \in SyncRow /\ t.answered /\ t.floor = s.floor /\ t.hidden = s.hidden /\ t.seen = s.seen /\ t.list = list
  BY <1>3, <1>5 DEF SyncRow
<1> HIDE DEF t
<1>10. ASSUME NEW r \in syncing'
       PROVE  SyncOK(r)'
  <2>0. r.floor = s.floor /\ r.hidden = s.hidden /\ r.seen = s.seen /\ r.list = list
    BY <1>2, <1>6, <1>10
  <2>1. \A c \in Creds : Viewed(c, r.floor[c], c \in r.hidden, r.seen)'
    BY <1>0, <1>4, <2>0 DEF SyncOK, Viewed, VisibleCredential
  <2>2. ASSUME NEW c \in DOMAIN list
        PROVE  list[c] <= secretEdits' /\ Listed(list[c], c, s.floor[c], c \in s.hidden, s.seen)'
    <3>1. c \in Creds /\ s.floor[c] \in Nat /\ s.seen \in Nat
      BY <1>3, <1>4, <2>2 DEF SyncRow
    <3>2. Viewed(c, s.floor[c], c \in s.hidden, s.seen)
      BY <1>4, <3>1 DEF SyncOK
    <3>3. PICK h \in BOOLEAN : h <=> (c \in s.hidden)
      OBVIOUS
    <3>4. Viewed(c, s.floor[c], h, s.seen)
      BY <3>2, <3>3 DEF Viewed
    <3>5. Listed(list[c], c, s.floor[c], h, s.seen)
      BY <1>3, <2>2, <3>1, <3>4
    <3> QED BY <1>0, <1>1, <1>3, <3>3, <3>5 DEF Listed
  <2> QED BY <2>0, <2>1, <2>2 DEF SyncOK
<1>11. ASSUME NEW u \in Uses
       PROVE  UseOK(u)'
  <2>1. UseOK(u)
    BY DEF CacheInductive
  <2>2. ASSUME uses[u].phase \in {"sync", "synced"}, uses[u].of \in DOMAIN list
        PROVE  Listed(list[uses[u].of], uses[u].of, uses[u].floor, uses[u].hidden, uses[u].seen)
    <3>1. Viewed(uses[u].of, uses[u].floor, uses[u].hidden, uses[u].seen)
      BY <2>1, <2>2 DEF UseOK
    <3>2. uses[u].floor \in Nat /\ uses[u].seen \in Nat /\ uses[u].hidden \in BOOLEAN
      BY <2>2, UseTypes
    <3> QED BY <1>3, <2>2, <3>1, <3>2
  <2>3. \A r \in syncing' : r.answered => r.list = list
    BY <1>2, <1>6
  <2> QED BY <1>0, <1>1, <2>1, <2>2, <2>3 DEF UseOK, Listed, Viewed, VisibleCredential
<1>12. CacheRows'
  BY <1>1, <1>2, <1>6 DEF CacheInductive, CacheRows
<1>13. StoreOK' /\ AsksOK'
  BY <1>1 DEF CacheInductive, StoreOK, AsksOK, credentialVars
<1> QED BY <1>10, <1>11, <1>12, <1>13, CacheMoves

LEMMA SynchronizedKeeps ==
    ASSUME CacheInductive, UNCHANGED credentialVars, Synchronized
    PROVE  CacheInductive'
<1>1. PICK s \in syncing :
          /\ s.answered
          /\ cache' = [c \in {d \in DOMAIN cache : d \in DOMAIN s.list /\ s.list[d] = cache[d].rev} |-> cache[c]]
          /\ metadata' = s.list
          /\ syncing' = {}
          /\ uses' = [u \in Uses |-> IF uses[u].phase = "sync" THEN [uses[u] EXCEPT !.phase = "synced"] ELSE uses[u]]
          /\ UNCHANGED <<asks, current>>
  BY DEF Synchronized
<1>0. UNCHANGED <<cred, granted, secretEdits>>
  BY DEF credentialVars
<1>2. DOMAIN cache' \subseteq DOMAIN cache /\ \A c \in DOMAIN cache' : cache'[c] = cache[c]
  BY <1>1
<1>3. MaterialStays
  BY <1>1, <1>2, MaterialShrinks
<1>4. /\ SyncOK(s) /\ s.list \in Lists /\ DOMAIN s.list \subseteq Creds /\ \A c \in DOMAIN s.list : s.list[c] \in Nat
  BY SyncTypes DEF CacheInductive
<1>5. ASSUME NEW u \in Uses
      PROVE  /\ uses'[u] \in UseRow \cup {NoUse}
             /\ \/ uses'[u] = uses[u] /\ uses[u].phase # "sync"
                \/ /\ uses[u].phase = "sync" /\ uses'[u].phase = "synced" /\ uses'[u].of = uses[u].of
                   /\ uses'[u].floor = uses[u].floor /\ uses'[u].hidden = uses[u].hidden /\ uses'[u].seen = uses[u].seen
  <2>1. CASE uses[u].phase = "sync"
    <3>1. uses'[u] = [uses[u] EXCEPT !.phase = "synced"]
      BY <1>1, <2>1
    <3>2. uses[u] \in UseRow
      BY <2>1, UseTypes
    <3> QED BY <2>1, <3>1, <3>2 DEF UseRow
  <2>2. CASE uses[u].phase # "sync"
    BY <1>1, <2>2 DEF CacheInductive, CacheRows
  <2> QED BY <2>1, <2>2
<1>6. ASSUME NEW u \in Uses
      PROVE  UseOK(u)'
  <2>1. UseOK(u)
    BY DEF CacheInductive
  <2>2. CASE uses[u].phase \in {"sync", "synced"}
    <3>1. /\ uses'[u].phase = "synced" /\ uses'[u].of = uses[u].of
          /\ uses'[u].floor = uses[u].floor /\ uses'[u].hidden = uses[u].hidden /\ uses'[u].seen = uses[u].seen
      BY <1>5, <2>2
    <3>2. /\ Viewed(uses[u].of, uses[u].floor, uses[u].hidden, uses[u].seen)
          /\ uses[u].of \in Creds /\ uses[u].floor \in Nat
      BY <2>1, <2>2, UseTypes DEF UseOK
    <3>3. ASSUME uses[u].of \in DOMAIN s.list
          PROVE  /\ uses[u].hidden => secretEdits > uses[u].seen
                 /\ Suits(cache', asks', uses[u].of, s.list[uses[u].of], uses[u].floor)
      <4>1. Listed(s.list[uses[u].of], uses[u].of, uses[u].floor, uses[u].hidden, uses[u].seen)
        BY <1>1, <2>1, <2>2, <3>3 DEF UseOK
      <4> QED BY <1>3, <1>4, <3>2, <3>3, <4>1 DEF Listed, MaterialStays, Viewed
    <3>4. Viewed(uses[u].of, uses[u].floor, uses[u].hidden, uses[u].seen)'
      BY <1>0, <3>1, <3>2 DEF Viewed, VisibleCredential
    <3> QED BY <1>0, <1>1, <3>1, <3>3, <3>4 DEF UseOK, Listed
  <2>3. CASE uses[u].phase \notin {"sync", "synced"}
    <3>1. uses'[u] = uses[u]
      BY <1>5, <2>3
    <3> QED BY <1>0, <1>1, <2>1, <2>3, <3>1 DEF UseOK, Viewed, VisibleCredential
  <2> QED BY <2>2, <2>3
<1>7. CacheRows'
  <2>1. uses' \in [Uses -> UseRow \cup {NoUse}]
    BY <1>1, <1>5
  <2> QED BY <1>1, <1>2, <1>4, <2>1 DEF CacheInductive, CacheRows
<1>8. StoreOK'
  BY <1>0, <1>1, <1>2, <1>4 DEF CacheInductive, StoreOK, SyncOK
<1>9. AsksOK'
  BY <1>1, <1>5 DEF CacheInductive, AsksOK, CacheRows, AskRow
<1> QED BY <1>1, <1>6, <1>7, <1>8, <1>9, CacheMoves

\* A use whose material is decided: what each outcome must show.
LEMMA MaterialMoves ==
    ASSUME CacheInductive, UNCHANGED credentialVars, UNCHANGED <<metadata, syncing>>, NEW u \in Uses,
           uses[u].phase = "synced", NEW row \in UseRow, uses' = [uses EXCEPT ![u] = row], UseOK(u)',
           DOMAIN cache' \subseteq DOMAIN cache, \A c \in DOMAIN cache' : cache'[c] = cache[c],
           asks \subseteq asks', \A a \in asks' \ asks : a \in AskRow /\ ~a.answered /\ a.rev <= secretEdits,
           DOMAIN current' \subseteq Creds, \A c \in DOMAIN current' : current'[c] \in Uses, AsksOK'
    PROVE  CacheInductive'
<1>1. uses' \in [Uses -> UseRow \cup {NoUse}] /\ \A v \in Uses \ {u} : uses'[v] = uses[v]
  BY DEF CacheInductive, CacheRows
<1>2. MaterialStays
  BY DEF MaterialStays, Suits
<1>3. ASSUME NEW v \in Uses, v # u
      PROVE  UseOK(v)'
  <2>1. ASSUME uses[v].phase = "wait"
        PROVE  /\ \E a \in asks' : uses[v].ask = {a.by} /\ a.of = uses[v].of
               /\ \A a \in asks' : (uses[v].ask = {a.by} /\ a.answered /\ a.ok) => a.value >= uses[v].floor
    BY <2>1 DEF CacheInductive, UseOK
  <2> QED BY <1>1, <1>2, <1>3, <2>1, UseStays
<1>4. \A v \in Uses : UseOK(v)'
  BY <1>3
<1>5. \A s \in syncing' : SyncOK(s)'
  BY <1>2, SyncStays
<1>6. CacheRows'
  BY <1>1 DEF CacheInductive, CacheRows
<1>7. StoreOK'
  BY DEF CacheInductive, StoreOK, credentialVars
<1> QED BY <1>4, <1>5, <1>6, <1>7, CacheMoves

\* Nobody resolves for a use that has not begun to wait.
LEMMA NoAskYet ==
    ASSUME CacheInductive, NEW u \in Uses, uses[u].phase # "wait"
    PROVE  \A a \in asks : a.by # u
BY DEF CacheInductive, AsksOK

LEMMA MaterialEndsKeeps ==
    ASSUME CacheInductive, UNCHANGED credentialVars, UNCHANGED <<cache, metadata, syncing, asks, current>>,
           NEW u \in Uses, uses[u].phase = "synced", NEW value \in Nat, NEW phase \in {"done", "unavailable"},
           uses' = Ended(u, phase, value),
           phase = "done" => value >= uses[u].floor /\ (uses[u].hidden => secretEdits > uses[u].seen)
    PROVE  CacheInductive'
<1> DEFINE half == [uses[u] EXCEPT !.phase = phase]
           row  == [half EXCEPT !.value = value]
<1>0. uses \in [Uses -> UseRow \cup {NoUse}] /\ uses[u] \in UseRow
  BY UseTypes DEF CacheInductive, CacheRows
<1>1. uses' = [uses EXCEPT ![u] = row]
  BY <1>0 DEF Ended
<1>2. half \in UseRow /\ half.phase = phase /\ half.floor = uses[u].floor /\ half.hidden = uses[u].hidden
      /\ half.seen = uses[u].seen
  BY <1>0 DEF UseRow
<1> HIDE DEF half
<1>3. row \in UseRow /\ row.phase = phase /\ row.floor = uses[u].floor /\ row.hidden = uses[u].hidden
      /\ row.seen = uses[u].seen /\ row.value = value
  BY <1>2 DEF UseRow
<1> HIDE DEF row
<1>4. uses'[u] = row /\ \A v \in Uses \ {u} : uses'[v] = uses[v]
  BY <1>0, <1>1
<1>5. UseOK(u)'
  BY <1>3, <1>4 DEF UseOK, credentialVars
<1>6. AsksOK'
  BY <1>4, NoAskYet DEF CacheInductive, AsksOK, CacheRows, AskRow
<1>7. /\ DOMAIN cache' \subseteq DOMAIN cache /\ \A c \in DOMAIN cache' : cache'[c] = cache[c]
      /\ asks' = asks /\ DOMAIN current' \subseteq Creds /\ \A c \in DOMAIN current' : current'[c] \in Uses
  BY DEF CacheInductive, CacheRows
<1> QED BY <1>1, <1>3, <1>5, <1>6, <1>7, MaterialMoves

LEMMA MaterialWaitsKeeps ==
    ASSUME CacheInductive, UNCHANGED credentialVars, UNCHANGED <<metadata, syncing>>,
           NEW u \in Uses, uses[u].phase = "synced", NEW w \in Uses,
           uses' = [uses EXCEPT ![u].phase = "wait", ![u].ask = {w}],
           uses[u].of \in DOMAIN metadata, cache' = Dropped(cache, uses[u].of),
           asks \subseteq asks', \A a \in asks' \ asks : a \in AskRow /\ ~a.answered /\ a.rev <= secretEdits /\ a.by = u,
           asks' = asks \/ w = u,
           \A a, b \in asks' \ asks : a = b,
           \E a \in asks' : a.by = w /\ a.of = uses[u].of,
           \A a \in asks' : (a.by = w /\ a.answered) => (a.of = uses[u].of /\ a.rev = metadata[uses[u].of]),
           DOMAIN current' \subseteq Creds,
           \A c \in DOMAIN current' : current'[c] \in Uses /\ \E a \in asks' : a.by = current'[c] /\ a.of = c
    PROVE  CacheInductive'
<1> DEFINE half == [uses[u] EXCEPT !.phase = "wait"]
           row  == [half EXCEPT !.ask = {w}]
<1>0. uses \in [Uses -> UseRow \cup {NoUse}] /\ uses[u] \in UseRow
  BY UseTypes DEF CacheInductive, CacheRows
<1>1. uses' = [uses EXCEPT ![u] = row]
  BY <1>0
<1>2. half \in UseRow /\ half.phase = "wait" /\ half.floor = uses[u].floor /\ half.hidden = uses[u].hidden
      /\ half.seen = uses[u].seen /\ half.of = uses[u].of
  BY <1>0 DEF UseRow
<1> HIDE DEF half
<1>3. row \in UseRow /\ row.phase = "wait" /\ row.floor = uses[u].floor /\ row.hidden = uses[u].hidden
      /\ row.seen = uses[u].seen /\ row.of = uses[u].of /\ row.ask = {w}
  BY <1>2 DEF UseRow
<1> HIDE DEF row
<1>4. uses'[u] = row /\ \A v \in Uses \ {u} : uses'[v] = uses[v]
  BY <1>0, <1>1
<1>5. Viewed(uses[u].of, uses[u].floor, uses[u].hidden, uses[u].seen)
      /\ Listed(metadata[uses[u].of], uses[u].of, uses[u].floor, uses[u].hidden, uses[u].seen)
  BY DEF CacheInductive, UseOK
<1>6. UseOK(u)'
  <2>1. Viewed(uses[u].of, uses[u].floor, uses[u].hidden, uses[u].seen)'
    BY <1>3, <1>4, <1>5 DEF Viewed, VisibleCredential, credentialVars
  <2>2. \A a \in asks' : (a.by = w /\ a.answered /\ a.ok) => a.value >= uses[u].floor
    BY <1>5 DEF Listed, Suits
  <2>3. uses[u].hidden => secretEdits > uses[u].seen
    BY <1>5 DEF Listed
  <2>4. /\ \E a \in asks' : uses'[u].ask = {a.by} /\ a.of = uses'[u].of
        /\ \A a \in asks' : (uses'[u].ask = {a.by} /\ a.answered /\ a.ok) => a.value >= uses'[u].floor
    <3>1. uses'[u].ask = {w} /\ uses'[u].of = uses[u].of /\ uses'[u].floor = uses[u].floor
      BY <1>3, <1>4
    <3>2. \A a \in asks' : uses'[u].ask = {a.by} <=> a.by = w
      BY <3>1
    <3> QED BY <2>2, <3>1, <3>2
  <2> QED BY <1>3, <1>4, <2>1, <2>3, <2>4 DEF UseOK, credentialVars
<1>7. AsksOK'
  <2>1. \A a \in asks : a.by # u /\ a.by \in Uses
    BY NoAskYet DEF CacheInductive, CacheRows, AskRow
  <2>2. \A a, b \in asks' : a.by = b.by => a = b
    BY <2>1 DEF CacheInductive, AsksOK
  <2>3. \A a \in asks' : uses'[a.by].phase = "wait" /\ uses'[a.by].ask = {a.by}
    <3> SUFFICES ASSUME NEW a \in asks' PROVE uses'[a.by].phase = "wait" /\ uses'[a.by].ask = {a.by}
        OBVIOUS
    <3>1. CASE a \in asks
      <4>1. uses'[a.by] = uses[a.by]
        BY <1>4, <2>1, <3>1
      <4>2. uses[a.by].phase = "wait" /\ uses[a.by].ask = {a.by}
        BY <3>1 DEF CacheInductive, AsksOK
      <4> QED BY <4>1, <4>2
    <3>2. CASE a \notin asks
      <4>1. a.by = u /\ w = u
        BY <3>2
      <4> QED BY <1>3, <1>4, <4>1
    <3> QED BY <3>1, <3>2
  <2> QED BY <2>2, <2>3 DEF AsksOK
<1>8. DOMAIN cache' \subseteq DOMAIN cache /\ \A c \in DOMAIN cache' : cache'[c] = cache[c]
  BY DEF Dropped
<1> QED BY <1>1, <1>3, <1>6, <1>7, <1>8, MaterialMoves

LEMMA MaterialKeeps ==
    ASSUME CacheInductive, UNCHANGED credentialVars, NEW u \in Uses, Material(u)
    PROVE  CacheInductive'
<1> DEFINE c == uses[u].of
<1>0. uses[u].phase = "synced" /\ UNCHANGED <<metadata, syncing>> /\ c \in Creds /\ UseOK(u)
  BY UseTypes DEF Material, CacheInductive
<1>1. CASE c \notin DOMAIN metadata /\ uses' = Ended(u, "unavailable", 0) /\ UNCHANGED <<cache, asks, current>>
  BY <1>0, <1>1, MaterialEndsKeeps
<1>2. CASE c \in DOMAIN metadata /\ CacheHit(c) /\ uses' = Ended(u, "done", cache[c].value) /\ UNCHANGED <<cache, asks, current>>
  <2>1. Listed(metadata[c], c, uses[u].floor, uses[u].hidden, uses[u].seen)
    BY <1>0, <1>2 DEF UseOK
  <2>2. cache[c].value >= uses[u].floor /\ (uses[u].hidden => secretEdits > uses[u].seen)
    BY <1>2, <2>1 DEF CacheHit, Listed, Suits
  <2>3. cache[c].value \in Nat
    BY <1>2 DEF CacheHit, CacheInductive, CacheRows, CacheEntry
  <2> QED BY <1>0, <1>2, <2>2, <2>3, MaterialEndsKeeps
<1>3. CASE /\ c \in DOMAIN metadata /\ Joinable(c)
           /\ uses' = [uses EXCEPT ![u].phase = "wait", ![u].ask = {current[c]}]
           /\ cache' = Dropped(cache, c) /\ UNCHANGED <<asks, current>>
  <2>1. PICK a \in asks : a.by = current[c] /\ a.rev = metadata[c] /\ c \in DOMAIN current
    BY <1>3 DEF Joinable
  <2>2. PICK b \in asks : b.by = current[c] /\ b.of = c
    BY <2>1 DEF CacheInductive, AsksOK
  <2>3. a = b /\ \A d \in asks : d.by = current[c] => d = a
    BY <2>1, <2>2 DEF CacheInductive, AsksOK
  <2>4. /\ DOMAIN current' \subseteq Creds /\ asks' = asks
        /\ \A d \in DOMAIN current' : current'[d] \in Uses /\ \E e \in asks' : e.by = current'[d] /\ e.of = d
    BY <1>3 DEF CacheInductive, CacheRows, AsksOK
  <2>5. current[c] \in Uses
    BY <2>1, <2>4, <1>3
  <2>6. PICK w \in Uses : w = current[c]
    BY <2>5
  <2>7. \A d \in asks' : (d.by = w /\ d.answered) => (d.of = c /\ d.rev = metadata[c])
    BY <2>1, <2>2, <2>3, <2>4, <2>6
  <2>8. \E d \in asks' : d.by = w /\ d.of = c
    BY <2>2, <2>4, <2>6
  <2> QED BY <1>0, <1>3, <2>4, <2>6, <2>7, <2>8, MaterialWaitsKeeps
<1>4. CASE /\ c \in DOMAIN metadata
           /\ uses' = [uses EXCEPT ![u].phase = "wait", ![u].ask = {u}]
           /\ cache' = Dropped(cache, c) /\ current' = Set(current, c, u)
           /\ asks' = asks \cup {[by |-> u, of |-> c, rev |-> metadata[c], answered |-> FALSE, ok |-> FALSE, value |-> 0]}
  <2> DEFINE ask == [by |-> u, of |-> c, rev |-> metadata[c], answered |-> FALSE, ok |-> FALSE, value |-> 0]
  <2>1. metadata[c] \in Nat /\ metadata[c] <= secretEdits
    BY <1>4, ListFacts DEF CacheInductive, CacheRows, StoreOK
  <2>2. ask \in AskRow /\ ask.by = u /\ ask.of = c /\ ask.rev = metadata[c] /\ ~ask.answered
    BY <1>0, <2>1 DEF AskRow
  <2>3. asks' = asks \cup {ask}
    BY <1>4
  <2> HIDE DEF ask
  <2>4. \A a \in asks : a.by # u
    BY <1>0, NoAskYet
  <2>5. /\ DOMAIN current' \subseteq Creds
        /\ \A d \in DOMAIN current' : current'[d] \in Uses /\ \E e \in asks' : e.by = current'[d] /\ e.of = d
    <3>1. DOMAIN current' = DOMAIN current \cup {c} /\ current'[c] = u
          /\ \A d \in DOMAIN current \ {c} : current'[d] = current[d]
      BY <1>4 DEF Set
    <3> QED BY <1>0, <2>2, <2>3, <3>1 DEF CacheInductive, CacheRows, AsksOK
  <2>6. \A a \in asks' \ asks : a \in AskRow /\ ~a.answered /\ a.rev <= secretEdits /\ a.by = u
    BY <2>1, <2>2, <2>3
  <2>7. \A a, b \in asks' \ asks : a = b
    BY <2>3
  <2>8. \E a \in asks' : a.by = u /\ a.of = c
    BY <2>2, <2>3
  <2>9. \A a \in asks' : (a.by = u /\ a.answered) => (a.of = c /\ a.rev = metadata[c])
    BY <2>2, <2>3, <2>4
  <2>10. asks \subseteq asks'
    BY <2>3
  <2>11. PICK w \in Uses : w = u
    OBVIOUS
  <2>12. /\ uses' = [uses EXCEPT ![u].phase = "wait", ![u].ask = {w}]
         /\ \E a \in asks' : a.by = w /\ a.of = c
         /\ \A a \in asks' : (a.by = w /\ a.answered) => (a.of = c /\ a.rev = metadata[c])
    BY <1>4, <2>8, <2>9, <2>11
  <2>13. c \in DOMAIN metadata /\ cache' = Dropped(cache, c) /\ (asks' = asks \/ w = u)
    BY <1>4, <2>11
  <2> HIDE <1>4, <2>3
  <2> QED BY <1>0, <2>5, <2>6, <2>7, <2>10, <2>12, <2>13, MaterialWaitsKeeps
<1> QED BY <1>1, <1>2, <1>3, <1>4 DEF Material

\* The server answers a resolution: the answer b takes the place of a.
LEMMA AnswerResolveKeeps ==
    ASSUME CacheInductive, UNCHANGED credentialVars, NEW a, AnswerResolve(a)
    PROVE  CacheInductive'
<1> DEFINE ok   == VisibleCredential(a.of)
           one  == [a EXCEPT !.answered = TRUE]
           two  == [one EXCEPT !.ok = ok]
           full == [two EXCEPT !.value = cred[a.of].value]
<1>0. UNCHANGED <<cred, granted, secretEdits>>
  BY DEF credentialVars
<1>1. a \in asks /\ ~a.answered /\ asks' = (asks \ {a}) \cup {full} /\ UNCHANGED <<cache, metadata, syncing, current, uses>>
  BY DEF AnswerResolve
<1>2. a \in AskRow /\ a.of \in Creds /\ a.by \in Uses /\ a.rev \in Nat /\ cred[a.of].value \in Nat
  BY <1>1, CredentialAssumption DEF CacheInductive, CacheRows, AskRow, CredentialsTypeOK
<1>3. ok => cred[a.of].here
  BY DEF VisibleCredential
<1>4. ok \in BOOLEAN
  BY <1>2 DEF VisibleCredential, CacheInductive, CredentialsTypeOK
<1> HIDE DEF ok
<1>5. one \in AskRow /\ one.answered /\ one.by = a.by /\ one.of = a.of /\ one.rev = a.rev
  BY <1>2 DEF AskRow
<1> HIDE DEF one
<1>6. two \in AskRow /\ two.answered /\ two.by = a.by /\ two.of = a.of /\ two.rev = a.rev /\ two.ok = ok
  BY <1>4, <1>5 DEF AskRow
<1> HIDE DEF two
<1>7. /\ full \in AskRow /\ full.answered /\ full.by = a.by /\ full.of = a.of /\ full.rev = a.rev /\ full.ok = ok
      /\ full.value = cred[a.of].value
  BY <1>2, <1>6 DEF AskRow
<1> HIDE DEF full
<1>p. PICK b : b = full
  OBVIOUS
<1>8. /\ asks' = (asks \ {a}) \cup {b} /\ b \in AskRow /\ b.by = a.by /\ b.of = a.of /\ b.rev = a.rev
      /\ (b.ok => cred[a.of].here) /\ b.value = cred[a.of].value
  BY <1>1, <1>3, <1>7, <1>p
<1>9. MaterialStays
  <2> SUFFICES ASSUME NEW c \in Creds, NEW r \in Nat, NEW f \in Nat, Suits(cache, asks, c, r, f),
                      cred[c].here => cred[c].value >= f
               PROVE  Suits(cache', asks', c, r, f)
      BY DEF MaterialStays
  <2>1. (b.ok /\ b.of = c) => b.value >= f
    BY <1>8
  <2> QED BY <1>1, <1>8, <2>1 DEF Suits
<1>10. ASSUME NEW u \in Uses
       PROVE  UseOK(u)'
  <2>1. UseOK(u)
    BY DEF CacheInductive
  <2>2. ASSUME uses[u].phase = "wait"
        PROVE  /\ \E e \in asks' : uses[u].ask = {e.by} /\ e.of = uses[u].of
               /\ \A e \in asks' : (uses[u].ask = {e.by} /\ e.answered /\ e.ok) => e.value >= uses[u].floor
    <3>1. PICK d \in asks : uses[u].ask = {d.by} /\ d.of = uses[u].of
      BY <2>1, <2>2 DEF UseOK
    <3>2. \A e \in asks : (uses[u].ask = {e.by} /\ e.answered /\ e.ok) => e.value >= uses[u].floor
      BY <2>1, <2>2 DEF UseOK
    <3>3. cred[uses[u].of].here => cred[uses[u].of].value >= uses[u].floor
      BY <2>1, <2>2 DEF UseOK, Viewed
    <3>4. CASE d = a
      <4>1. uses[u].ask = {b.by} /\ b.of = uses[u].of /\ (b.ok => b.value >= uses[u].floor)
        BY <1>8, <3>1, <3>3, <3>4
      <4> QED BY <1>8, <3>2, <4>1
    <3>5. CASE d # a
      <4>1. d.by # a.by
        BY <1>1, <3>5 DEF CacheInductive, AsksOK
      <4>2. uses[u].ask # {b.by}
        BY <1>8, <3>1, <4>1
      <4>3. d \in asks'
        BY <1>8, <3>5
      <4> QED BY <1>8, <3>1, <3>2, <4>2, <4>3
    <3> QED BY <3>4, <3>5
  <2>3. /\ uses'[u] = uses[u] /\ \A s \in syncing' : s \in syncing \/ ~s.answered
        /\ \A c \in DOMAIN metadata' : c \in DOMAIN metadata /\ metadata'[c] = metadata[c]
    BY <1>1
  <2> QED BY <1>9, <2>2, <2>3, UseStays
<1>11. \A s \in syncing' : SyncOK(s)'
  BY <1>1, <1>9, SyncStays
<1>12. CacheRows'
  BY <1>1, <1>8 DEF CacheInductive, CacheRows
<1>13. StoreOK'
  <2>1. \A e \in asks' :
           /\ e.rev <= secretEdits
           /\ (e.answered /\ e.ok /\ cred[e.of].here /\ cred[e.of].rev = e.rev) => e.value >= cred[e.of].value
    <3>1. b.rev <= secretEdits
      BY <1>1, <1>8 DEF CacheInductive, StoreOK
    <3>2. b.value >= cred[b.of].value
      BY <1>2, <1>8
    <3> QED BY <1>8, <3>1, <3>2 DEF CacheInductive, StoreOK
  <2> QED BY <1>0, <1>1, <2>1 DEF CacheInductive, StoreOK
<1>14. AsksOK'
  <2>1. \A d, e \in asks' : d.by = e.by => d = e
    BY <1>1, <1>8 DEF CacheInductive, AsksOK
  <2>2. \A d \in asks' : uses[d.by].phase = "wait" /\ uses[d.by].ask = {d.by}
    BY <1>1, <1>8 DEF CacheInductive, AsksOK
  <2>3. \A c \in DOMAIN current : \E d \in asks' : d.by = current[c] /\ d.of = c
    BY <1>1, <1>8 DEF CacheInductive, AsksOK
  <2> QED BY <1>1, <2>1, <2>2, <2>3 DEF AsksOK
<1> QED BY <1>10, <1>11, <1>12, <1>13, <1>14, CacheMoves

\* A resolution ends: its value is cached, and taken by whoever waits for it.
LEMMA ResolvedKeeps ==
    ASSUME CacheInductive, UNCHANGED credentialVars, NEW a, Resolved(a)
    PROVE  CacheInductive'
<1>0. UNCHANGED <<cred, granted, secretEdits>>
  BY DEF credentialVars
<1>1. a \in asks /\ a.answered /\ asks' = asks \ {a} /\ UNCHANGED <<metadata, syncing>>
  BY DEF Resolved
<1>2. a \in AskRow /\ a.of \in Creds /\ a.by \in Uses /\ a.rev \in Nat /\ a.value \in Nat /\ a.ok \in BOOLEAN
  BY <1>1 DEF CacheInductive, CacheRows, AskRow
<1>3. /\ DOMAIN cache' \subseteq Creds
      /\ \A c \in DOMAIN cache' :
            \/ c \in DOMAIN cache /\ cache'[c] = cache[c]
            \/ a.ok /\ c = a.of /\ cache'[c] \in CacheEntry /\ cache'[c].rev = a.rev /\ cache'[c].value = a.value
  <2>1. CASE ~a.ok
    BY <2>1 DEF Resolved, CacheInductive, CacheRows
  <2>2. CASE a.ok
    <3> DEFINE e == [rev |-> a.rev, value |-> a.value]
    <3>1. e \in CacheEntry /\ e.rev = a.rev /\ e.value = a.value
      BY <1>2 DEF CacheEntry
    <3>2. cache' = Set(cache, a.of, e)
      BY <2>2 DEF Resolved
    <3> HIDE DEF e
    <3>3. DOMAIN cache' = DOMAIN cache \cup {a.of} /\ \A c \in DOMAIN cache' : cache'[c] = IF c = a.of THEN e ELSE cache[c]
      BY <3>2 DEF Set
    <3>4. DOMAIN cache \subseteq Creds
      BY DEF CacheInductive, CacheRows
    <3> QED BY <1>2, <2>2, <3>1, <3>3, <3>4
  <2> QED BY <2>1, <2>2
<1>4. MaterialStays
  BY <1>1, <1>3 DEF MaterialStays, Suits
<1>5. ASSUME NEW u \in Uses
      PROVE  \/ uses'[u] = uses[u] /\ ~(uses[u].phase = "wait" /\ uses[u].ask = {a.by})
             \/ /\ uses[u].phase = "wait" /\ uses[u].ask = {a.by} /\ uses'[u] \in UseRow
                /\ uses'[u].phase \in {"done", "unavailable"} /\ (uses'[u].phase = "done" => a.ok)
                /\ uses'[u].value = a.value /\ uses'[u].floor = uses[u].floor
                /\ uses'[u].hidden = uses[u].hidden /\ uses'[u].seen = uses[u].seen
  <2>1. CASE uses[u].phase = "wait" /\ uses[u].ask = {a.by}
    <3> DEFINE ph   == IF a.ok THEN "done" ELSE "unavailable"
               half == [uses[u] EXCEPT !.phase = ph]
               row  == [half EXCEPT !.value = a.value]
    <3>1. uses'[u] = row
      BY <2>1 DEF Resolved
    <3>2. ph \in {"done", "unavailable"} /\ (ph = "done" => a.ok)
      OBVIOUS
    <3> HIDE DEF ph
    <3>3. uses[u] \in UseRow
      BY <2>1, UseTypes
    <3>4. half \in UseRow /\ half.phase = ph /\ half.floor = uses[u].floor /\ half.hidden = uses[u].hidden
          /\ half.seen = uses[u].seen
      BY <3>2, <3>3 DEF UseRow
    <3> HIDE DEF half
    <3>5. row \in UseRow /\ row.phase = ph /\ row.floor = uses[u].floor /\ row.hidden = uses[u].hidden
          /\ row.seen = uses[u].seen /\ row.value = a.value
      BY <1>2, <3>4 DEF UseRow
    <3> HIDE DEF row
    <3> QED BY <2>1, <3>1, <3>2, <3>5
  <2>2. CASE ~(uses[u].phase = "wait" /\ uses[u].ask = {a.by})
    BY <2>2 DEF Resolved
  <2> QED BY <2>1, <2>2
<1>6. ASSUME NEW u \in Uses
      PROVE  UseOK(u)'
  <2>1. UseOK(u)
    BY DEF CacheInductive
  <2>2. CASE uses[u].phase = "wait" /\ uses[u].ask = {a.by}
    <3>1. a.ok => a.value >= uses[u].floor
      BY <1>1, <2>1, <2>2 DEF UseOK
    <3>2. uses[u].hidden => secretEdits > uses[u].seen
      BY <2>1, <2>2 DEF UseOK
    <3>3. /\ uses'[u].phase \in {"done", "unavailable"} /\ (uses'[u].phase = "done" => a.ok)
          /\ uses'[u].value = a.value /\ uses'[u].floor = uses[u].floor
          /\ uses'[u].hidden = uses[u].hidden /\ uses'[u].seen = uses[u].seen
      BY <1>5, <2>2
    <3> QED BY <1>0, <3>1, <3>2, <3>3 DEF UseOK
  <2>3. CASE ~(uses[u].phase = "wait" /\ uses[u].ask = {a.by})
    <3>1. uses'[u] = uses[u]
      BY <1>5, <2>3
    <3>2. ASSUME uses[u].phase = "wait"
          PROVE  /\ \E e \in asks' : uses[u].ask = {e.by} /\ e.of = uses[u].of
                 /\ \A e \in asks' : (uses[u].ask = {e.by} /\ e.answered /\ e.ok) => e.value >= uses[u].floor
      BY <1>1, <2>1, <2>3, <3>2 DEF UseOK
    <3>3. /\ \A s \in syncing' : s \in syncing \/ ~s.answered
          /\ \A c \in DOMAIN metadata' : c \in DOMAIN metadata /\ metadata'[c] = metadata[c]
      BY <1>1
    <3> QED BY <1>4, <3>1, <3>2, <3>3, UseStays
  <2> QED BY <2>2, <2>3
<1>7. \A s \in syncing' : SyncOK(s)'
  BY <1>1, <1>4, SyncStays
<1>8. \A c \in DOMAIN current' : c \in DOMAIN current /\ current'[c] = current[c] /\ ~(c = a.of /\ current[c] = a.by)
  BY DEF Resolved, Dropped
<1>9. CacheRows'
  <2>1. uses' = [u \in Uses |-> uses'[u]]
    BY DEF Resolved
  <2>2. \A u \in Uses : uses'[u] \in UseRow \cup {NoUse}
    BY <1>5 DEF CacheInductive, CacheRows
  <2>3. uses' \in [Uses -> UseRow \cup {NoUse}]
    BY <2>1, <2>2
  <2>4. DOMAIN cache' \subseteq Creds /\ \A c \in DOMAIN cache' : cache'[c] \in CacheEntry
    BY <1>3 DEF CacheInductive, CacheRows
  <2> QED BY <1>1, <1>8, <2>3, <2>4 DEF CacheInductive, CacheRows
<1>10. StoreOK'
  <2>1. a.rev <= secretEdits
        /\ (a.ok /\ cred[a.of].here /\ cred[a.of].rev = a.rev => a.value >= cred[a.of].value)
    BY <1>1 DEF CacheInductive, StoreOK
  <2>2. \A c \in DOMAIN cache' :
           /\ cache'[c].rev <= secretEdits
           /\ (cred[c].here /\ cred[c].rev = cache'[c].rev) => cache'[c].value >= cred[c].value
    BY <1>3, <2>1 DEF CacheInductive, StoreOK
  <2> QED BY <1>0, <1>1, <2>2 DEF CacheInductive, StoreOK
<1>11. AsksOK'
  <2>1. \A b \in asks' : b \in asks /\ b.by # a.by /\ b.by \in Uses
    BY <1>1 DEF CacheInductive, AsksOK, CacheRows, AskRow
  <2>2. \A b \in asks' : uses'[b.by].phase = "wait" /\ uses'[b.by].ask = {b.by}
    <3> SUFFICES ASSUME NEW b \in asks' PROVE uses'[b.by].phase = "wait" /\ uses'[b.by].ask = {b.by}
        OBVIOUS
    <3>1. uses[b.by].phase = "wait" /\ uses[b.by].ask = {b.by}
      BY <2>1 DEF CacheInductive, AsksOK
    <3>2. uses[b.by].ask # {a.by}
      BY <2>1, <3>1
    <3> QED BY <1>5, <2>1, <3>1, <3>2
  <2>3. \A c \in DOMAIN current' : \E b \in asks' : b.by = current'[c] /\ b.of = c
    BY <1>1, <1>8 DEF CacheInductive, AsksOK
  <2>4. \A b, d \in asks' : b.by = d.by => b = d
    BY <1>1 DEF CacheInductive, AsksOK
  <2> QED BY <2>2, <2>3, <2>4 DEF AsksOK
<1> QED BY <1>6, <1>7, <1>9, <1>10, <1>11, CacheMoves

\* A credential changes: what a view relies on stays, for the value only grows
\* and no revision comes back.
LEMMA ViewStays ==
    ASSUME CredentialsTypeOK, CredentialEdit, NEW c \in Creds, NEW f \in Nat, NEW hid, NEW n \in Nat, Viewed(c, f, hid, n)
    PROVE  Viewed(c, f, hid, n)' /\ secretEdits' > n
<1>1. secretEdits \in Nat /\ cred[c].value \in Nat
  BY CredentialAssumption DEF CredentialsTypeOK
<1>2. /\ secretEdits' = secretEdits + 1
      /\ \/ cred'[c] = cred[c]
         \/ ~cred'[c].here
         \/ cred'[c].value = secretEdits + 1 \/ (cred[c].here /\ cred'[c].value = cred[c].value)
  BY EditWritesOne
<1> QED BY <1>1, <1>2 DEF Viewed

LEMMA EditAges ==
    ASSUME CacheInductive, CredentialEdit, UNCHANGED cacheVars
    PROVE  CacheInductive'
<1>0. UNCHANGED <<cache, metadata, syncing, asks, current, uses>> /\ secretEdits \in Nat /\ CredentialsTypeOK
  BY CredentialAssumption DEF cacheVars, CacheInductive, CredentialsTypeOK
<1>1. /\ secretEdits' = secretEdits + 1
      /\ \A c \in Creds :
            \/ cred'[c] = cred[c]
            \/ ~cred'[c].here /\ cred'[c].value = 0 /\ cred'[c].rev = 0
            \/ /\ cred'[c].rev = secretEdits + 1
               /\ cred'[c].value = secretEdits + 1 \/ (cred[c].here /\ cred'[c].value = cred[c].value)
  BY <1>0, EditWritesOne
<1>2. CredentialsTypeOK'
  BY <1>0, EditKeepsTypes
<1>3. CacheRows' /\ AsksOK'
  BY <1>0 DEF CacheInductive, CacheRows, AsksOK
<1>4. StoreOK'
  <2>1. \A c \in Creds : cred'[c].value <= secretEdits' /\ cred'[c].rev <= secretEdits'
    <3> SUFFICES ASSUME NEW c \in Creds PROVE cred'[c].value <= secretEdits' /\ cred'[c].rev <= secretEdits'
        OBVIOUS
    <3>1. cred[c].value <= secretEdits /\ cred[c].rev <= secretEdits /\ cred[c].value \in Nat /\ cred[c].rev \in Nat
      BY <1>0, CredentialAssumption DEF CacheInductive, StoreOK, CredentialsTypeOK
    <3> QED BY <1>0, <1>1, <3>1
  <2>2. ASSUME NEW c \in DOMAIN cache
        PROVE  /\ cache[c].rev <= secretEdits'
               /\ (cred'[c].here /\ cred'[c].rev = cache[c].rev) => cache[c].value >= cred'[c].value
    <3>1. c \in Creds /\ cache[c].rev \in Nat /\ cache[c].rev <= secretEdits
          /\ (cred[c].here /\ cred[c].rev = cache[c].rev => cache[c].value >= cred[c].value)
      BY <2>2 DEF CacheInductive, CacheRows, CacheEntry, StoreOK
    <3> QED BY <1>0, <1>1, <3>1
  <2>3. ASSUME NEW a \in asks
        PROVE  /\ a.rev <= secretEdits'
               /\ (a.answered /\ a.ok /\ cred'[a.of].here /\ cred'[a.of].rev = a.rev) => a.value >= cred'[a.of].value
    <3>1. a.of \in Creds /\ a.rev \in Nat /\ a.rev <= secretEdits
          /\ (a.answered /\ a.ok /\ cred[a.of].here /\ cred[a.of].rev = a.rev => a.value >= cred[a.of].value)
      BY <2>3 DEF CacheInductive, CacheRows, AskRow, StoreOK
    <3> QED BY <1>0, <1>1, <3>1
  <2>4. \A c \in DOMAIN metadata : metadata[c] <= secretEdits'
    <3> SUFFICES ASSUME NEW c \in DOMAIN metadata PROVE metadata[c] <= secretEdits'
        OBVIOUS
    <3>1. metadata[c] \in Nat /\ metadata[c] <= secretEdits
      BY ListFacts DEF CacheInductive, CacheRows, StoreOK
    <3> QED BY <1>0, <1>1, <3>1
  <2> QED BY <1>0, <2>1, <2>2, <2>3, <2>4 DEF StoreOK
<1>5. ASSUME NEW s \in syncing'
      PROVE  SyncOK(s)'
  <2>0. /\ s \in syncing /\ s.floor \in [Creds -> Nat] /\ s.seen \in Nat /\ DOMAIN s.list \subseteq Creds
        /\ \A c \in DOMAIN s.list : s.list[c] \in Nat
    BY <1>0, <1>5, SyncTypes
  <2>1. SyncOK(s)
    BY <2>0 DEF CacheInductive
  <2>2. ASSUME NEW c \in Creds PROVE Viewed(c, s.floor[c], c \in s.hidden, s.seen)' /\ secretEdits' > s.seen
    BY <1>0, <2>0, <2>1, ViewStays DEF SyncOK
  <2>3. ASSUME s.answered, NEW c \in DOMAIN s.list
        PROVE  s.list[c] <= secretEdits' /\ Listed(s.list[c], c, s.floor[c], c \in s.hidden, s.seen)'
    <3>1. s.list[c] <= secretEdits /\ Listed(s.list[c], c, s.floor[c], c \in s.hidden, s.seen)
      BY <2>1, <2>3 DEF SyncOK
    <3> QED BY <1>0, <1>1, <2>0, <2>2, <2>3, <3>1 DEF Listed
  <2> QED BY <2>2, <2>3 DEF SyncOK
<1>6. ASSUME NEW u \in Uses
      PROVE  UseOK(u)'
  <2>0. UseOK(u) /\ uses'[u] = uses[u]
    BY <1>0 DEF CacheInductive
  <2>1. CASE uses[u].phase \in {"sync", "synced", "wait"}
    <3>1. uses[u].of \in Creds /\ uses[u].floor \in Nat /\ uses[u].seen \in Nat
          /\ Viewed(uses[u].of, uses[u].floor, uses[u].hidden, uses[u].seen)
      BY <2>0, <2>1, UseTypes DEF UseOK
    <3>2. PICK c, f, hid, n : c = uses[u].of /\ f = uses[u].floor /\ hid = uses[u].hidden /\ n = uses[u].seen
      OBVIOUS
    <3>3. Viewed(c, f, hid, n)' /\ secretEdits' > n
      BY <1>0, <3>1, <3>2, ViewStays
    <3>4. Viewed(uses[u].of, uses[u].floor, uses[u].hidden, uses[u].seen)' /\ secretEdits' > uses[u].seen
      BY <2>0, <3>2, <3>3 DEF Viewed
    <3> QED BY <1>0, <2>0, <2>1, <3>4 DEF UseOK, Listed
  <2>2. CASE uses[u].phase \notin {"sync", "synced", "wait"}
    <3>1. uses[u].phase = "done" => uses[u].seen \in Nat
      BY UseTypes
    <3> QED BY <1>0, <1>1, <2>0, <2>2, <3>1 DEF UseOK
  <2> QED BY <2>1, <2>2
<1> QED BY <1>2, <1>3, <1>4, <1>5, <1>6 DEF CacheInductive

LEMMA CacheKeeps ==
    ASSUME CacheInductive, [CacheNext]_<<cacheVars, credentialVars>>
    PROVE  CacheInductive'
<1>1. CASE CacheStep /\ UNCHANGED credentialVars
  <2>1. CASE AnswerList \/ Synchronized \/ ClearCache
    BY <1>1, <2>1, AnswerListKeeps, SynchronizedKeeps, ForgetKeeps
  <2>2. CASE \E u \in Uses : Material(u) \/ NextUse(u) \/ \E c \in Creds : StartUse(u, c)
    BY <1>1, <2>2, MaterialKeeps, NextUseKeeps, StartUseKeeps
  <2>3. CASE \E a \in asks : AnswerResolve(a) \/ Resolved(a)
    BY <1>1, <2>3, AnswerResolveKeeps, ResolvedKeeps
  <2>4. CASE \E c \in Creds : ExpireEntry(c)
    BY <1>1, <2>4, ForgetKeeps
  <2> QED BY <1>1, <2>1, <2>2, <2>3, <2>4 DEF CacheStep
<1>2. CASE CredentialEdit /\ UNCHANGED cacheVars
  BY <1>2, EditAges
<1>3. CASE UNCHANGED <<cacheVars, credentialVars>>
  <2>1. UNCHANGED <<cache, metadata, syncing, asks, current, uses, cred, granted, used, secretEdits>>
    BY <1>3 DEF cacheVars, credentialVars
  <2> QED BY <2>1 DEF CacheInductive, CredentialsTypeOK, CacheRows, StoreOK, AsksOK, SyncOK, UseOK, Viewed, Listed, VisibleCredential
<1> QED BY <1>1, <1>2, <1>3 DEF CacheNext

THEOREM CachedUsesAreFresh == CacheSpec => []UsesAreFresh
<1>1. CacheInductive /\ [CacheNext]_<<cacheVars, credentialVars>> => CacheInductive'
  BY CacheKeeps
<1>2. CacheInductive => UsesAreFresh
  BY CacheInductiveIsEnough
<1> QED BY CacheStarts, <1>1, <1>2, PTL DEF CacheSpec

------------------------------------------------------------------------------
(* The parts together.                                                     *)

\* Outside its part the publisher rests, and is never undisturbed.
CredentialsSafe ==
    /\ CacheInductive /\ PublisherInductive
    /\ part # "secrets" => quiet = [p \in Publishers |-> FALSE]

\* Every step of every part is a step of the publisher and of the cache, or none.
LEMMA ResourceStepsAreTheirs ==
    ASSUME part # "secrets" => quiet = [p \in Publishers |-> FALSE], ResourcesNext
    PROVE  /\ [PublisherNext]_<<publisherVars, credentialVars>>
           /\ [CacheNext]_<<cacheVars, credentialVars>>
           /\ part' # "secrets" => quiet' = [p \in Publishers |-> FALSE]
<1>0. part' = part
  BY DEF ResourcesNext
<1>1. CASE UNCHANGED <<publisherVars, cacheVars, credentialVars>>
  BY <1>0, <1>1 DEF publisherVars
<1>2. CASE part # "secrets" /\ UNCHANGED <<publisherVars, cacheVars>> /\ CredentialEdit
  <2>1. UNCHANGED <<secrets, publisher, ready, strangers, syncFaults>> /\ quiet' = quiet
    BY <1>2 DEF publisherVars
  <2> QED BY <1>0, <1>2, <2>1 DEF PublisherNext, CacheNext
<1>3. CASE part = "secrets" /\ PublisherNext /\ UNCHANGED cacheVars
  <2>1. CredentialEdit \/ UNCHANGED credentialVars
    BY <1>3 DEF PublisherNext
  <2> QED BY <1>0, <1>3, <2>1 DEF CacheNext
<1>4. CASE part = "cache" /\ CacheNext /\ UNCHANGED publisherVars
  <2>1. CASE CacheStep /\ UNCHANGED credentialVars
    <3>1. quiet' = quiet
      BY <1>4 DEF publisherVars
    <3> QED BY <1>0, <1>4, <2>1, <3>1
  <2>2. CASE CredentialEdit /\ UNCHANGED cacheVars
    BY <1>2, <1>4, <2>2
  <2> QED BY <1>4, <2>1, <2>2 DEF CacheNext
<1>5. CASE part = "assets" /\ AssetNext /\ UNCHANGED <<publisherVars, cacheVars>>
  <2>1. CredentialEdit \/ UNCHANGED credentialVars
    BY <1>5 DEF AssetNext
  <2> QED BY <1>1, <1>2, <1>5, <2>1
<1> QED BY <1>1, <1>3, <1>4, <1>5 DEF ResourcesNext

\* Credentials, in every part of the deployment: rows have their types, a publisher
\* that reports ready has delivered, and a client uses material that is no older
\* than the synchronisation it waited for.
THEOREM CredentialsAreSafe == ResourcesSpec => []CredentialInvariant
<1>1. ResourcesInit => CredentialsSafe
  BY CacheStarts, PublisherStarts DEF ResourcesInit, CredentialsSafe, PublisherInit
<1>2. CredentialsSafe /\ ResourcesNext => CredentialsSafe'
  BY ResourceStepsAreTheirs, CacheKeeps, PublisherStep DEF CredentialsSafe
<1>3. CredentialsSafe /\ UNCHANGED <<part, delegationVars, agentVars, assetVars, skillVars, inboxVars, publisherVars,
                           cacheVars, credentialVars, gatewayVars>> => CredentialsSafe'
  <2> SUFFICES ASSUME CredentialsSafe, UNCHANGED <<part, publisherVars, cacheVars, credentialVars>> PROVE CredentialsSafe'
      OBVIOUS
  <2>1. CacheInductive' /\ PublisherInductive'
    BY CacheKeeps, PublisherStep DEF CredentialsSafe
  <2> QED BY <2>1 DEF CredentialsSafe, publisherVars
<1>4. CredentialsSafe => CredentialInvariant
  BY CacheInductiveIsEnough, PublisherInductiveIsEnough DEF CredentialsSafe, CredentialInvariant
<1> QED BY <1>1, <1>2, <1>3, <1>4, PTL DEF ResourcesSpec

------------------------------------------------------------------------------
(* Numbers: a set of numbers has a least one.                              *)

------------------------------------------------------------------------------
(* Skills: the inductive invariant.                                        *)

VersionRow    == [key : Keys3, rank : Nat]
WithdrawalRow == [of : SkillIds \X Versions, key : Keys3, gone : BOOLEAN]
Of(k)         == <<k[1], k[2]>>

RegistryTyped ==
    /\ skills \in [SkillIds -> [here : BOOLEAN, enabled : BOOLEAN]]
    /\ versionRows \in [DOMAIN versionRows -> VersionRow] /\ DOMAIN versionRows \subseteq SkillIds \X Versions
    /\ blobs \subseteq Keys3 /\ uploads \subseteq Keys3 /\ clashed \subseteq Keys3
    /\ assigned \in [SkillIds -> {"none", "live", "expired"}]
    /\ withdrawals \subseteq WithdrawalRow
    /\ edits \in 0 .. MaxEdits /\ publishes \in 0 .. edits

\* A key names its version.
KeysName ==
    /\ \A x \in DOMAIN versionRows : Of(versionRows[x].key) = x /\ versionRows[x].rank <= publishes
    /\ \A w \in withdrawals : w.of = Of(w.key)

\* A package is missing or about to go only where an upload met a withdrawal.
PackagesKept ==
    /\ \A x \in DOMAIN versionRows : versionRows[x].key \in blobs \cup clashed
    /\ uploads \subseteq blobs \cup clashed
    /\ \A w \in withdrawals : w.key \in uploads => w.key \in clashed
    /\ \A w \in withdrawals : w.gone => \A x \in DOMAIN versionRows : versionRows[x].key = w.key => w.key \in clashed

RegistryInductive == RegistryTyped /\ KeysName /\ PackagesKept

\* What maps skills to packages of their own.
Listings ==
    {f \in UNION {[D -> Keys3] : D \in SUBSET SkillIds} : \A s \in DOMAIN f : f[s][1] = s}

Placing    == {"staged", "aside", "placed"}
PassPhases == {"idle", "install", "remove"} \cup Placing
PassRow    ==
    [phase : PassPhases, listed : Listings, todo : SUBSET SkillIds, failed : BOOLEAN, skill : SUBSET Keys3]

\* A pass q over the rows m: what it has tried is installed unless something failed,
\* and what is installed is listed or still to be removed.
PassOK(q, m, b) ==
    /\ q.phase # "idle" => b
    /\ q.phase \notin Placing => q.skill = {}
    /\ q.phase \in {"install"} \cup Placing =>
          /\ q.todo \subseteq DOMAIN q.listed
          /\ ~q.failed => \A s \in DOMAIN q.listed \ q.todo : s \in DOMAIN m /\ m[s] = q.listed[s]
    /\ q.phase \in Placing => \E s \in q.todo : q.skill = {q.listed[s]}
    /\ q.phase = "remove" =>
          /\ q.todo \subseteq DOMAIN m \ DOMAIN q.listed
          /\ ~q.failed => /\ \A s \in DOMAIN q.listed : s \in DOMAIN m /\ m[s] = q.listed[s]
                          /\ DOMAIN m \subseteq DOMAIN q.listed \cup q.todo

\* Without trouble the directories d follow the rows.
DirsOK(q, m, d) ==
    /\ q.phase \in {"idle", "install", "staged"} => d = m
    /\ q.phase = "aside"  => \A k \in q.skill : d = Without(m, k[1])
    /\ q.phase = "placed" => \A k \in q.skill : d = Put(m, k[1], k)
    /\ q.phase = "remove" => /\ DOMAIN m \ q.todo \subseteq DOMAIN d /\ DOMAIN d \subseteq DOMAIN m
                             /\ \A s \in DOMAIN d : d[s] = m[s]

EtagOK(e, m, b) == (e = {} \/ \E x : e = {x}) /\ ((e # {} /\ ~b) => e = {m})

SyncTyped ==
    /\ pass \in PassRow /\ managed \in Listings /\ dirs \in Listings
    /\ behind \in BOOLEAN /\ troubles \in 0 .. MaxTroubles

SyncInductive ==
    /\ RegistryInductive /\ SyncTyped
    /\ PassOK(pass, managed, behind)
    /\ troubles = 0 => DirsOK(pass, managed, dirs)
    /\ EtagOK(etag, managed, behind)

LEMMA KeyFacts ==
    ASSUME NEW k \in Keys3
    PROVE  Of(k) \in SkillIds \X Versions /\ k[1] \in SkillIds /\ k[2] \in Versions
  BY DEF Keys3, Of

LEMMA InitRegistry == RegistryInit => RegistryInductive
<1> SUFFICES ASSUME RegistryInit PROVE RegistryInductive
    OBVIOUS
<1>1. RegistryTyped
  BY RegistryAssumption DEF RegistryInit, RegistryTyped
<1>2. KeysName
  BY DEF RegistryInit, KeysName
<1>3. PackagesKept
  BY DEF RegistryInit, PackagesKept
<1> QED BY <1>1, <1>2, <1>3 DEF RegistryInductive

LEMMA EditCounts ==
    ASSUME RegistryTyped, Edit
    PROVE  edits' \in 0 .. MaxEdits /\ edits' = edits + 1 /\ publishes \in 0 .. edits' /\ publishes + 1 \in 0 .. edits'
  BY RegistryAssumption DEF RegistryTyped, Edit

\* Writes that leave versions and packages alone.
LEMMA GrantsAndSwitches ==
    ASSUME RegistryInductive, Edit,
           skills' \in [SkillIds -> [here : BOOLEAN, enabled : BOOLEAN]],
           assigned' \in [SkillIds -> {"none", "live", "expired"}],
           UNCHANGED <<versionRows, blobs, uploads, withdrawals, publishes, clashed>>
    PROVE  RegistryInductive'
<1>1. RegistryTyped'
  BY EditCounts DEF RegistryInductive, RegistryTyped
<1> QED BY <1>1 DEF RegistryInductive, KeysName, PackagesKept

\* Fewer rows.
LEMMA RowsGo ==
    ASSUME RegistryInductive, NEW D \in SUBSET DOMAIN versionRows,
           versionRows' = [x \in D |-> versionRows[x]]
    PROVE  /\ versionRows' \in [DOMAIN versionRows' -> VersionRow] /\ DOMAIN versionRows' \subseteq SkillIds \X Versions
           /\ DOMAIN versionRows' = D /\ \A x \in D : versionRows'[x] = versionRows[x]
  BY DEF RegistryInductive, RegistryTyped

LEMMA DeleteSkillPreserves ==
    ASSUME RegistryInductive, NEW s \in SkillIds, NEW force \in BOOLEAN, DeleteSkill(s, force)
    PROVE  RegistryInductive'
<1> DEFINE D == {y \in DOMAIN versionRows : y[1] # s}
<1>1. /\ versionRows' \in [DOMAIN versionRows' -> VersionRow] /\ DOMAIN versionRows' \subseteq SkillIds \X Versions
      /\ DOMAIN versionRows' = D /\ \A x \in D : versionRows'[x] = versionRows[x]
  <2>1. versionRows' = [x \in D |-> versionRows[x]] /\ D \in SUBSET DOMAIN versionRows
    BY DEF DeleteSkill
  <2> HIDE DEF D
  <2> QED BY <2>1, RowsGo
<1>2. RegistryTyped /\ KeysName /\ PackagesKept
  BY DEF RegistryInductive
<1>3. D \subseteq DOMAIN versionRows
  OBVIOUS
<1>4. Edit /\ UNCHANGED <<blobs, uploads, withdrawals, publishes, clashed>>
  BY DEF DeleteSkill
<1>5. /\ skills' \in [SkillIds -> [here : BOOLEAN, enabled : BOOLEAN]]
      /\ assigned' \in [SkillIds -> {"none", "live", "expired"}]
  BY <1>2 DEF DeleteSkill, RegistryTyped, NoSkill
<1> HIDE DEF D
<1>6. RegistryTyped'
  BY <1>1, <1>2, <1>4, <1>5, EditCounts DEF RegistryTyped
<1>7. KeysName'
  BY <1>1, <1>2, <1>3, <1>4 DEF KeysName
<1>8. PackagesKept'
  BY <1>1, <1>2, <1>3, <1>4 DEF PackagesKept
<1> QED BY <1>6, <1>7, <1>8 DEF RegistryInductive

LEMMA PutPackagePreserves ==
    ASSUME RegistryInductive, NEW k \in Keys3, PutPackage(k)
    PROVE  RegistryInductive'
<1>1. RegistryTyped /\ KeysName /\ PackagesKept
  BY DEF RegistryInductive
<1>2. /\ Edit /\ blobs' = blobs \cup {k} /\ uploads' = uploads \cup {k}
      /\ UNCHANGED <<skills, versionRows, assigned, withdrawals, publishes>>
  BY DEF PutPackage
<1>3. /\ clashed' \subseteq Keys3 /\ clashed \subseteq clashed'
      /\ \A w \in withdrawals : w.key \in uploads' => w.key \in clashed'
  BY <1>1, <1>2 DEF PutPackage, Clash, RegistryTyped, WithdrawalRow
<1>4. RegistryTyped'
  BY <1>1, <1>2, <1>3, EditCounts DEF RegistryTyped
<1>5. KeysName'
  BY <1>1, <1>2 DEF KeysName
<1>6. PackagesKept'
  BY <1>1, <1>2, <1>3 DEF PackagesKept
<1> QED BY <1>4, <1>5, <1>6 DEF RegistryInductive

LEMMA UpsertPreserves ==
    ASSUME RegistryInductive, NEW k \in Keys3, UpsertSkillVersion(k)
    PROVE  RegistryInductive'
<1>1. RegistryTyped /\ KeysName /\ PackagesKept
  BY DEF RegistryInductive
<1>2. /\ k \in uploads /\ uploads' = uploads \ {k}
      /\ UNCHANGED <<skills, blobs, assigned, withdrawals, publishes, clashed, edits>>
  BY DEF UpsertSkillVersion
<1>3. /\ versionRows' \in [DOMAIN versionRows' -> VersionRow] /\ DOMAIN versionRows' \subseteq SkillIds \X Versions
      /\ \A x \in DOMAIN versionRows' :
             \/ x \in DOMAIN versionRows /\ versionRows'[x] = versionRows[x]
             \/ x = Of(k) /\ versionRows'[x].key = k /\ versionRows'[x].rank <= publishes
  <2>1. CASE skills[k[1]].here
    <3>1. PICK o \in SkillIds \X Versions : o = <<k[1], k[2]>>
      BY KeyFacts DEF Of
    <3>2. PICK row \in VersionRow : row.key = k /\ row.rank <= publishes
                                    /\ row = IF o \in DOMAIN versionRows THEN [versionRows[o] EXCEPT !.key = k]
                                             ELSE [key |-> k, rank |-> 0]
      <4>1. CASE o \in DOMAIN versionRows
        <5>1. PICK old \in VersionRow : old = versionRows[o]
          BY <1>1, <4>1 DEF RegistryTyped
        <5>2. old.rank <= publishes
          BY <1>1, <4>1, <5>1 DEF KeysName
        <5>3. PICK row \in VersionRow : row = [old EXCEPT !.key = k]
          BY DEF VersionRow
        <5>4. row.key = k /\ row.rank = old.rank
          BY <5>3 DEF VersionRow
        <5> QED BY <4>1, <5>1, <5>2, <5>3, <5>4
      <4>2. CASE o \notin DOMAIN versionRows
        <5> DEFINE fresh == [key |-> k, rank |-> 0]
        <5>1. fresh \in VersionRow /\ fresh.key = k /\ fresh.rank = 0
          BY DEF VersionRow
        <5>2. 0 <= publishes
          BY <1>1 DEF RegistryTyped
        <5>3. fresh = IF o \in DOMAIN versionRows THEN [versionRows[o] EXCEPT !.key = k] ELSE [key |-> k, rank |-> 0]
          BY <4>2
        <5> HIDE DEF fresh
        <5>4. fresh.rank <= publishes
          BY <5>1, <5>2
        <5> QED BY <5>1, <5>3, <5>4
      <4> QED BY <4>1, <4>2
    <3>3. versionRows' = [x \in DOMAIN versionRows \cup {o} |-> IF x # o THEN versionRows[x] ELSE row]
      BY <2>1, <3>1, <3>2 DEF UpsertSkillVersion, Upserted
    <3>4. DOMAIN versionRows' = DOMAIN versionRows \cup {o}
      BY <3>3
    <3>5. \A x \in DOMAIN versionRows' : versionRows'[x] \in VersionRow
      BY <1>1, <3>2, <3>3 DEF RegistryTyped
    <3>6. versionRows' \in [DOMAIN versionRows' -> VersionRow]
      BY <3>3, <3>5
    <3> QED BY <1>1, <3>1, <3>2, <3>3, <3>4, <3>6 DEF RegistryTyped, Of
  <2>2. CASE ~skills[k[1]].here
    BY <1>1, <2>2 DEF UpsertSkillVersion, RegistryTyped
  <2> QED BY <2>1, <2>2
<1>4. RegistryTyped'
  BY <1>1, <1>2, <1>3 DEF RegistryTyped
<1>5. KeysName'
  BY <1>1, <1>2, <1>3 DEF KeysName
<1>6. PackagesKept'
  BY <1>1, <1>2, <1>3 DEF PackagesKept
<1> QED BY <1>4, <1>5, <1>6 DEF RegistryInductive

LEMMA PublishPreserves ==
    ASSUME RegistryInductive, NEW s \in SkillIds, NEW v \in Versions, PublishSkillVersion(s, v)
    PROVE  RegistryInductive'
<1>1. RegistryTyped /\ KeysName /\ PackagesKept
  BY DEF RegistryInductive
<1>2. /\ Edit /\ publishes' = publishes + 1
      /\ UNCHANGED <<skills, blobs, assigned, uploads, withdrawals, clashed>>
  BY DEF PublishSkillVersion
<1>3. PICK x \in DOMAIN versionRows : versionRows' = [versionRows EXCEPT ![x].rank = publishes + 1]
  BY DEF PublishSkillVersion, Stored
<1>4. publishes \in Nat /\ publishes + 1 \in Nat
  BY <1>1, RegistryAssumption DEF RegistryTyped
<1>5. /\ versionRows' \in [DOMAIN versionRows' -> VersionRow] /\ DOMAIN versionRows' = DOMAIN versionRows
      /\ \A y \in DOMAIN versionRows : versionRows'[y].key = versionRows[y].key /\ versionRows'[y].rank <= publishes + 1
  BY <1>1, <1>3, <1>4 DEF RegistryTyped, VersionRow, KeysName
<1>6. RegistryTyped'
  BY <1>1, <1>2, <1>5, EditCounts DEF RegistryTyped
<1>7. KeysName'
  BY <1>1, <1>2, <1>5 DEF KeysName
<1>8. PackagesKept'
  BY <1>1, <1>2, <1>5 DEF PackagesKept
<1> QED BY <1>6, <1>7, <1>8 DEF RegistryInductive

LEMMA ReadVersionPreserves ==
    ASSUME RegistryInductive, NEW s \in SkillIds, NEW v \in Versions, ReadVersion(s, v)
    PROVE  RegistryInductive'
<1>1. RegistryTyped /\ KeysName /\ PackagesKept
  BY DEF RegistryInductive
<1>2. Edit /\ UNCHANGED <<skills, versionRows, blobs, assigned, uploads, publishes>>
  BY DEF ReadVersion
<1>3. PICK x \in DOMAIN versionRows : x = <<s, v>>
  BY DEF ReadVersion, Stored
<1>4. PICK w \in WithdrawalRow : w = [of |-> x, key |-> versionRows[x].key, gone |-> FALSE]
  BY <1>1, <1>3 DEF RegistryTyped, VersionRow, WithdrawalRow
<1>5. withdrawals' = withdrawals \cup {w}
  BY <1>3, <1>4 DEF ReadVersion
<1>6. /\ clashed' \subseteq Keys3 /\ clashed \subseteq clashed'
      /\ \A z \in withdrawals' : z.key \in uploads => z.key \in clashed'
  BY <1>1, <1>2, <1>5 DEF ReadVersion, Clash, RegistryTyped, WithdrawalRow
<1>7. RegistryTyped'
  BY <1>1, <1>2, <1>5, <1>6, EditCounts DEF RegistryTyped
<1>8. KeysName'
  BY <1>1, <1>2, <1>4, <1>5 DEF KeysName
<1>9. PackagesKept'
  BY <1>1, <1>2, <1>4, <1>5, <1>6 DEF PackagesKept
<1> QED BY <1>7, <1>8, <1>9 DEF RegistryInductive

LEMMA DeleteVersionRowPreserves ==
    ASSUME RegistryInductive, NEW w \in withdrawals, DeleteVersionRow(w)
    PROVE  RegistryInductive'
<1> DEFINE D == DOMAIN versionRows \ {w.of}
<1>1. RegistryTyped /\ KeysName /\ PackagesKept
  BY DEF RegistryInductive
<1>2. UNCHANGED <<skills, blobs, assigned, uploads, publishes, clashed, edits>>
  BY DEF DeleteVersionRow
<1>3. /\ versionRows' \in [DOMAIN versionRows' -> VersionRow] /\ DOMAIN versionRows' \subseteq SkillIds \X Versions
      /\ DOMAIN versionRows' = D /\ \A x \in D : versionRows'[x] = versionRows[x]
  <2>1. versionRows' = [x \in D |-> versionRows[x]] /\ D \in SUBSET DOMAIN versionRows
    BY DEF DeleteVersionRow
  <2> HIDE DEF D
  <2> QED BY <2>1, RowsGo
<1>4. PICK z \in WithdrawalRow : z = [w EXCEPT !.gone = TRUE] /\ z.of = w.of /\ z.key = w.key
  <2>1. w \in WithdrawalRow
    BY <1>1 DEF RegistryTyped
  <2>2. [w EXCEPT !.gone = TRUE] \in WithdrawalRow
    BY <2>1 DEF WithdrawalRow
  <2>3. [w EXCEPT !.gone = TRUE].of = w.of /\ [w EXCEPT !.gone = TRUE].key = w.key
    BY <2>1 DEF WithdrawalRow
  <2> QED BY <2>2, <2>3
<1>5. withdrawals' \subseteq withdrawals \cup {z}
  BY <1>4 DEF DeleteVersionRow
<1>6. RegistryTyped'
  BY <1>1, <1>2, <1>3, <1>4, <1>5 DEF RegistryTyped
<1>7. KeysName'
  BY <1>1, <1>2, <1>3, <1>4, <1>5 DEF KeysName
<1>8. PackagesKept'
  <2>1. \A x \in DOMAIN versionRows' : versionRows'[x].key # z.key
    BY <1>1, <1>3, <1>4 DEF KeysName
  <2> QED BY <1>1, <1>2, <1>3, <1>4, <1>5, <2>1 DEF PackagesKept
<1> QED BY <1>6, <1>7, <1>8 DEF RegistryInductive

LEMMA DeletePackagePreserves ==
    ASSUME RegistryInductive, NEW w \in withdrawals, NEW ok \in BOOLEAN, DeletePackage(w, ok)
    PROVE  RegistryInductive'
<1>1. RegistryTyped /\ KeysName /\ PackagesKept
  BY DEF RegistryInductive
<1>2. /\ w.gone /\ withdrawals' = withdrawals \ {w} /\ blobs \ {w.key} \subseteq blobs' /\ blobs' \subseteq blobs
      /\ UNCHANGED <<skills, versionRows, assigned, uploads, publishes, clashed, edits>>
  BY DEF DeletePackage, RowGone
<1>3. RegistryTyped'
  BY <1>1, <1>2 DEF RegistryTyped
<1>4. KeysName'
  BY <1>1, <1>2 DEF KeysName
<1>5. PackagesKept'
  BY <1>1, <1>2 DEF PackagesKept
<1> QED BY <1>3, <1>4, <1>5 DEF RegistryInductive

LEMMA RegistrySteps == RegistryInductive /\ RegistryNext => RegistryInductive'
<1> SUFFICES ASSUME RegistryInductive, RegistryNext PROVE RegistryInductive'
    OBVIOUS
<1>1. ASSUME NEW s \in SkillIds, CreateSkill(s) \/ \E b \in BOOLEAN : UpdateSkill(s, b) PROVE RegistryInductive'
  <2>1. /\ Edit /\ UNCHANGED <<versionRows, blobs, assigned, uploads, withdrawals, publishes, clashed>>
        /\ skills' \in [SkillIds -> [here : BOOLEAN, enabled : BOOLEAN]]
    <3>1. skills \in [SkillIds -> [here : BOOLEAN, enabled : BOOLEAN]]
      BY DEF RegistryInductive, RegistryTyped
    <3>2. CASE CreateSkill(s)
      BY <3>1, <3>2 DEF CreateSkill
    <3>3. CASE \E b \in BOOLEAN : UpdateSkill(s, b)
      <4>1. PICK b \in BOOLEAN : UpdateSkill(s, b)
        BY <3>3
      <4>2. skills' = [skills EXCEPT ![s] = [skills[s] EXCEPT !.enabled = b]]
        BY <4>1 DEF UpdateSkill
      <4>3. [skills[s] EXCEPT !.enabled = b] \in [here : BOOLEAN, enabled : BOOLEAN]
        BY <3>1
      <4> QED BY <3>1, <4>1, <4>2, <4>3 DEF UpdateSkill
    <3> QED BY <1>1, <3>2, <3>3
  <2> QED BY <2>1, GrantsAndSwitches DEF RegistryInductive, RegistryTyped
<1>2. ASSUME NEW s \in SkillIds,
             \/ CreateSkillAssignment(s) \/ DeleteSkillAssignment(s)
             \/ \E g \in {"live", "expired"} : UpdateSkillAssignment(s, g)
      PROVE  RegistryInductive'
  <2>1. /\ Edit /\ UNCHANGED <<skills, versionRows, blobs, uploads, withdrawals, publishes, clashed>>
        /\ assigned' \in [SkillIds -> {"none", "live", "expired"}]
    BY <1>2 DEF CreateSkillAssignment, DeleteSkillAssignment, UpdateSkillAssignment, RegistryInductive, RegistryTyped
  <2> QED BY <2>1, GrantsAndSwitches DEF RegistryInductive, RegistryTyped
<1>3. CASE \E s \in SkillIds : \E b \in BOOLEAN : DeleteSkill(s, b)
  BY <1>3, DeleteSkillPreserves
<1>4. CASE \E s \in SkillIds : \E v \in Versions : PublishSkillVersion(s, v) \/ ReadVersion(s, v)
  BY <1>4, PublishPreserves, ReadVersionPreserves
<1>5. CASE \E k \in Keys3 : PutPackage(k) \/ UpsertSkillVersion(k)
  BY <1>5, PutPackagePreserves, UpsertPreserves
<1>6. CASE \E w \in withdrawals : DeleteVersionRow(w) \/ \E ok \in BOOLEAN : DeletePackage(w, ok)
  BY <1>6, DeleteVersionRowPreserves, DeletePackagePreserves
<1> QED BY <1>1, <1>2, <1>3, <1>4, <1>5, <1>6 DEF RegistryNext

------------------------------------------------------------------------------

LEMMA ListingFacts ==
    \A f : f \in Listings <=> /\ f \in [DOMAIN f -> Keys3] /\ DOMAIN f \in SUBSET SkillIds
                              /\ \A s \in DOMAIN f : f[s][1] = s
  BY DEF Listings

LEMMA EmptyListing == <<>> \in Listings /\ DOMAIN <<>> = {}
<1>1. <<>> \in [{} -> Keys3] /\ DOMAIN <<>> = {}
  OBVIOUS
<1> QED BY <1>1, ListingFacts

LEMMA PutFacts ==
    ASSUME NEW f \in Listings, NEW k \in Keys3
    PROVE  /\ Put(f, k[1], k) \in Listings /\ DOMAIN Put(f, k[1], k) = DOMAIN f \cup {k[1]}
           /\ Put(f, k[1], k)[k[1]] = k
           /\ \A t \in DOMAIN f \ {k[1]} : Put(f, k[1], k)[t] = f[t]
<1>1. k[1] \in SkillIds
  BY KeyFacts
<1>2. PICK s \in SkillIds : s = k[1]
  BY <1>1
<1> DEFINE g == [t \in DOMAIN f \cup {s} |-> IF t = s THEN k ELSE f[t]]
<1>3. /\ f \in [DOMAIN f -> Keys3] /\ DOMAIN f \in SUBSET SkillIds
      /\ \A t \in DOMAIN f : f[t][1] = t
  BY ListingFacts
<1>4. /\ DOMAIN g = DOMAIN f \cup {s} /\ g[s] = k /\ \A t \in DOMAIN f \ {s} : g[t] = f[t]
      /\ g \in [DOMAIN g -> Keys3]
  BY <1>3
<1> HIDE DEF g
<1>5. \A t \in DOMAIN g : g[t][1] = t
  BY <1>2, <1>3, <1>4
<1>6. g \in Listings
  BY <1>3, <1>4, <1>5, ListingFacts
<1>7. Put(f, k[1], k) = g
  BY <1>2 DEF Put, g
<1> QED BY <1>2, <1>4, <1>6, <1>7

LEMMA WithoutFacts ==
    ASSUME NEW f \in Listings, NEW s
    PROVE  /\ Without(f, s) \in Listings /\ DOMAIN Without(f, s) = DOMAIN f \ {s}
           /\ \A t \in DOMAIN f \ {s} : Without(f, s)[t] = f[t]
<1> DEFINE g == [t \in DOMAIN f \ {s} |-> f[t]]
<1>1. /\ f \in [DOMAIN f -> Keys3] /\ DOMAIN f \in SUBSET SkillIds
      /\ \A t \in DOMAIN f : f[t][1] = t
  BY ListingFacts
<1>2. /\ DOMAIN g = DOMAIN f \ {s} /\ \A t \in DOMAIN f \ {s} : g[t] = f[t]
      /\ g \in [DOMAIN g -> Keys3]
  BY <1>1
<1> HIDE DEF g
<1>3. g \in Listings
  BY <1>1, <1>2, ListingFacts
<1>4. Without(f, s) = g
  BY DEF Without, g
<1> QED BY <1>2, <1>3, <1>4

\* Listings that agree are the same.
LEMMA SameListing ==
    ASSUME NEW f \in Listings, NEW g \in Listings, DOMAIN f = DOMAIN g, \A s \in DOMAIN f : f[s] = g[s]
    PROVE  f = g
<1>1. f \in [DOMAIN f -> Keys3] /\ g \in [DOMAIN g -> Keys3]
  BY ListingFacts
<1> QED BY <1>1

\* The manifest lists for a skill the package of one of its effective versions.
LEMMA ManifestLists ==
    ASSUME RegistryInductive
    PROVE  SkillManifest \in Listings
<1> DEFINE here == {t \in SkillIds : \E v \in Versions : Effective(t, v)}
<1>1. ASSUME NEW s \in here
      PROVE  /\ versionRows[<<s, Latest(s)>>].key \in Keys3 /\ versionRows[<<s, Latest(s)>>].key[1] = s
  <2> DEFINE found == {v \in Versions : Effective(s, v)}
             gap(v) == publishes - versionRows[<<s, v>>].rank
  <2>1. \A v \in found : /\ <<s, v>> \in DOMAIN versionRows /\ versionRows[<<s, v>>] \in VersionRow
                         /\ versionRows[<<s, v>>].rank \in Nat /\ publishes \in Nat /\ gap(v) \in Nat
    BY DEF Effective, Stored, RegistryInductive, RegistryTyped, KeysName, VersionRow
  <2>2. found # {}
    OBVIOUS
  <2> DEFINE gaps == {gap(v) : v \in found}
  <2>3. gaps \in SUBSET Nat /\ gaps # {}
    BY <2>1, <2>2
  <2> HIDE DEF gaps
  <2>4. PICK n \in gaps : \A y \in gaps : n <= y
    BY <2>3, LeastExists
  <2>5. PICK v \in found : n = gap(v)
    BY <2>4 DEF gaps
  <2>6. ASSUME NEW u \in found PROVE versionRows[<<s, u>>].rank <= versionRows[<<s, v>>].rank
    <3>1. gap(v) <= gap(u)
      BY <2>4, <2>5 DEF gaps
    <3> QED BY <2>1, <3>1
  <2>7. v \in Versions /\ Effective(s, v)
        /\ \A u \in Versions : Effective(s, u) => versionRows[<<s, u>>].rank <= versionRows[<<s, v>>].rank
    BY <2>6
  <2>8. Latest(s) \in Versions /\ Effective(s, Latest(s))
    BY <2>7 DEF Latest
  <2>9. Latest(s) \in found
    BY <2>8
  <2> HIDE DEF found
  <2>10. /\ <<s, Latest(s)>> \in DOMAIN versionRows /\ versionRows[<<s, Latest(s)>>] \in VersionRow
    BY <2>1, <2>9
  <2>11. Of(versionRows[<<s, Latest(s)>>].key) = <<s, Latest(s)>>
    BY <2>10 DEF RegistryInductive, KeysName
  <2> QED BY <2>10, <2>11 DEF VersionRow, Of
<1>2. /\ DOMAIN SkillManifest = here /\ \A s \in here : SkillManifest[s] = versionRows[<<s, Latest(s)>>].key
      /\ SkillManifest \in [here -> Keys3]
  <2>1. SkillManifest = [s \in here |-> versionRows[<<s, Latest(s)>>].key]
    BY DEF SkillManifest
  <2> HIDE DEF here
  <2> QED BY <1>1, <2>1
<1>3. here \in SUBSET SkillIds
  OBVIOUS
<1> HIDE DEF here
<1> QED BY <1>1, <1>2, <1>3, ListingFacts

LEMMA RegistryRests ==
    ASSUME RegistryInductive, UNCHANGED registryVars
    PROVE  RegistryInductive'
  BY DEF registryVars, RegistryInductive, RegistryTyped, KeysName, PackagesKept

LEMMA IdleFacts ==
    /\ IdlePass \in PassRow /\ IdlePass.phase = "idle" /\ IdlePass.skill = {} /\ IdlePass.failed = FALSE
    /\ IdlePass = [phase |-> "idle", listed |-> <<>>, todo |-> {}, failed |-> FALSE, skill |-> {}]
  BY EmptyListing DEF IdlePass, PassRow, PassPhases

LEMMA InitSync == SyncInit => SyncInductive
<1> SUFFICES ASSUME SyncInit PROVE SyncInductive
    OBVIOUS
<1>1. RegistryInductive
  BY InitRegistry DEF SyncInit
<1>2. SyncTyped
  <2>1. pass \in PassRow
    BY IdleFacts DEF SyncInit
  <2>2. managed \in Listings /\ dirs \in Listings
    BY EmptyListing DEF SyncInit
  <2>3. behind \in BOOLEAN
    BY DEF SyncInit
  <2>4. troubles \in 0 .. MaxTroubles
    BY SyncAssumption DEF SyncInit
  <2> QED BY <2>1, <2>2, <2>3, <2>4 DEF SyncTyped
<1>3. PassOK(pass, managed, behind) /\ DirsOK(pass, managed, dirs) /\ EtagOK(etag, managed, behind)
  BY IdleFacts DEF SyncInit, PassOK, DirsOK, EtagOK, Placing
<1> QED BY <1>1, <1>2, <1>3 DEF SyncInductive

LEMMA TroubleCounts ==
    ASSUME SyncTyped, Trouble
    PROVE  troubles' \in 0 .. MaxTroubles /\ troubles' # 0
  BY SyncAssumption DEF SyncTyped, Trouble

\* The package being installed.
LEMMA StagedFacts ==
    ASSUME SyncInductive, pass.phase \in Placing
    PROVE  /\ Staged \in Keys3 /\ pass.skill = {Staged} /\ Staged[1] \in pass.todo
           /\ Staged[1] \in DOMAIN pass.listed /\ Staged = pass.listed[Staged[1]]
<1>1. PICK s \in pass.todo : pass.skill = {pass.listed[s]}
  BY DEF SyncInductive, PassOK
<1>2. Staged = pass.listed[s]
  BY <1>1 DEF Staged
<1>3. s \in DOMAIN pass.listed /\ pass.listed \in Listings
  BY DEF SyncInductive, PassOK, SyncTyped, PassRow
<1>4. pass.listed[s] \in Keys3 /\ pass.listed[s][1] = s
  BY <1>3, ListingFacts
<1> QED BY <1>1, <1>2, <1>3, <1>4

\* What a step of the host leaves to show.
LEMMA SyncMoves ==
    ASSUME SyncInductive, UNCHANGED registryVars, NEW q \in PassRow, pass' = q,
           managed' \in Listings, dirs' \in Listings, behind' \in BOOLEAN, troubles' \in 0 .. MaxTroubles,
           PassOK(q, managed', behind'), troubles' = 0 => DirsOK(q, managed', dirs'),
           EtagOK(etag', managed', behind')
    PROVE  SyncInductive'
<1>1. RegistryInductive'
  BY RegistryRests DEF SyncInductive
<1>2. SyncTyped'
  BY DEF SyncTyped
<1> QED BY <1>1, <1>2 DEF SyncInductive

LEMMA FetchManifestPreserves ==
    ASSUME SyncInductive, FetchManifest, UNCHANGED registryVars
    PROVE  SyncInductive'
<1>1. PICK m \in Listings : m = SkillManifest
  BY ManifestLists DEF SyncInductive
<1>2. PICK todo \in SUBSET DOMAIN m : todo = Differing(m)
  BY DEF Differing
<1>3. \A s \in DOMAIN m \ todo : s \in DOMAIN managed /\ managed[s] = m[s]
  BY <1>2 DEF Differing
<1> DEFINE q == [IdlePass EXCEPT !.phase = "install", !.listed = m, !.todo = todo]
<1>4. /\ q \in PassRow /\ q.phase = "install" /\ q.listed = m /\ q.todo = todo /\ q.failed = FALSE /\ q.skill = {}
  <2>1. todo \in SUBSET SkillIds
    BY ListingFacts
  <2> QED BY <2>1, IdleFacts DEF PassRow, PassPhases
<1>5. pass' = q /\ behind' = TRUE /\ UNCHANGED <<etag, managed, dirs, troubles>> /\ pass.phase = "idle"
  BY <1>1, <1>2 DEF FetchManifest
<1> HIDE DEF q
<1>6. SyncTyped /\ (troubles = 0 => DirsOK(pass, managed, dirs)) /\ EtagOK(etag, managed, behind)
  BY DEF SyncInductive
<1>7. PassOK(q, managed, TRUE)
  BY <1>3, <1>4 DEF PassOK, Placing
<1>8. troubles = 0 => DirsOK(q, managed, dirs)
  BY <1>4, <1>5, <1>6 DEF DirsOK
<1>9. EtagOK(etag, managed, TRUE)
  BY <1>6 DEF EtagOK
<1> QED BY <1>4, <1>5, <1>6, <1>7, <1>8, <1>9, SyncMoves DEF SyncTyped

\* A step of a pass that changes nothing but the pass and its troubles.
LEMMA PassGoesOn ==
    ASSUME SyncInductive, UNCHANGED registryVars, NEW q \in PassRow, pass' = q,
           UNCHANGED <<etag, managed, dirs, behind>>, troubles' \in 0 .. MaxTroubles,
           PassOK(q, managed, behind), troubles' = 0 => DirsOK(q, managed, dirs)
    PROVE  SyncInductive'
<1>1. SyncTyped /\ EtagOK(etag, managed, behind)
  BY DEF SyncInductive
<1>2. /\ managed' \in Listings /\ dirs' \in Listings /\ behind' \in BOOLEAN
      /\ PassOK(q, managed', behind') /\ (troubles' = 0 => DirsOK(q, managed', dirs'))
      /\ EtagOK(etag', managed', behind')
  BY <1>1 DEF SyncTyped
<1> QED BY <1>2, SyncMoves

LEMMA StageSkillPreserves ==
    ASSUME SyncInductive, NEW s \in SkillIds, StageSkill(s), UNCHANGED registryVars
    PROVE  SyncInductive'
<1>1. /\ SyncTyped /\ PassOK(pass, managed, behind) /\ (troubles = 0 => DirsOK(pass, managed, dirs))
      /\ pass.phase = "install" /\ s \in pass.todo /\ Archive(s) # {}
  BY DEF SyncInductive, StageSkill
<1>2. Archive(s) = {pass.listed[s]}
  BY <1>1 DEF Archive
<1>3. pass \in PassRow /\ pass.listed[s] \in Keys3
  <2>1. pass.listed \in Listings /\ s \in DOMAIN pass.listed
    BY <1>1 DEF SyncTyped, PassRow, PassOK
  <2> QED BY <1>1, <2>1, ListingFacts DEF SyncTyped
<1> DEFINE q == [pass EXCEPT !.phase = "staged", !.skill = {pass.listed[s]}]
<1>4. /\ q \in PassRow /\ q.phase = "staged" /\ q.skill = {pass.listed[s]}
      /\ q.listed = pass.listed /\ q.todo = pass.todo /\ q.failed = pass.failed
  BY <1>3 DEF PassRow, PassPhases, Placing
<1>5. pass' = q /\ UNCHANGED <<etag, managed, dirs, behind, troubles>>
  BY <1>2 DEF StageSkill
<1> HIDE DEF q
<1>6. PassOK(q, managed, behind)
  BY <1>1, <1>4 DEF PassOK, Placing
<1>7. troubles = 0 => DirsOK(q, managed, dirs)
  BY <1>1, <1>4 DEF DirsOK
<1> QED BY <1>1, <1>4, <1>5, <1>6, <1>7, PassGoesOn DEF SyncTyped

\* A skill that could not be installed or removed is left as it is.
LEMMA LeftBehind ==
    ASSUME SyncInductive, UNCHANGED registryVars, NEW s \in SkillIds, pass.phase \in {"install", "remove"},
           pass' = [pass EXCEPT !.todo = @ \ {s}, !.failed = TRUE],
           UNCHANGED <<etag, managed, dirs, behind>>, troubles' \in 0 .. MaxTroubles,
           troubles' = 0 => troubles = 0 /\ pass.phase = "install"
    PROVE  SyncInductive'
<1>1. SyncTyped /\ PassOK(pass, managed, behind) /\ (troubles = 0 => DirsOK(pass, managed, dirs))
  BY DEF SyncInductive
<1> DEFINE q == [pass EXCEPT !.todo = pass.todo \ {s}, !.failed = TRUE]
<1>2. /\ q \in PassRow /\ q.phase = pass.phase /\ q.skill = pass.skill
      /\ q.listed = pass.listed /\ q.todo = pass.todo \ {s} /\ q.failed = TRUE
  BY <1>1 DEF PassRow, SyncTyped
<1>3. pass' = q
  OBVIOUS
<1> HIDE DEF q
<1>4. PassOK(q, managed, behind)
  BY <1>1, <1>2 DEF PassOK, Placing
<1>5. troubles' = 0 => DirsOK(q, managed, dirs)
  BY <1>1, <1>2 DEF DirsOK
<1> QED BY <1>2, <1>3, <1>4, <1>5, PassGoesOn

LEMMA FailToStagePreserves ==
    ASSUME SyncInductive, NEW s \in SkillIds, FailToStage(s), UNCHANGED registryVars
    PROVE  SyncInductive'
<1>1. SyncTyped /\ troubles \in 0 .. MaxTroubles
  BY DEF SyncInductive, SyncTyped
<1>2. troubles' \in 0 .. MaxTroubles /\ (troubles' = 0 => troubles = 0)
  BY <1>1, TroubleCounts DEF FailToStage
<1> QED BY <1>2, LeftBehind DEF FailToStage

LEMMA FailToRemovePreserves ==
    ASSUME SyncInductive, NEW s \in SkillIds, FailToRemove(s), UNCHANGED registryVars
    PROVE  SyncInductive'
<1>1. SyncTyped
  BY DEF SyncInductive
<1>2. troubles' \in 0 .. MaxTroubles /\ troubles' # 0
  BY <1>1, TroubleCounts DEF FailToRemove
<1> QED BY <1>2, LeftBehind DEF FailToRemove

LEMMA MoveAsidePreserves ==
    ASSUME SyncInductive, MoveAside, UNCHANGED registryVars
    PROVE  SyncInductive'
<1>1. /\ SyncTyped /\ PassOK(pass, managed, behind) /\ (troubles = 0 => DirsOK(pass, managed, dirs))
      /\ EtagOK(etag, managed, behind) /\ pass.phase = "staged"
  BY DEF SyncInductive, MoveAside
<1>2. pass.skill = {Staged}
  BY <1>1, StagedFacts DEF Placing
<1> DEFINE q == [pass EXCEPT !.phase = "aside"]
<1>3. /\ q \in PassRow /\ q.phase = "aside" /\ q.skill = pass.skill
      /\ q.listed = pass.listed /\ q.todo = pass.todo /\ q.failed = pass.failed
  BY <1>1 DEF PassRow, PassPhases, Placing, SyncTyped
<1>4. pass' = q /\ dirs' = Without(dirs, Staged[1]) /\ UNCHANGED <<etag, managed, behind, troubles>>
  BY DEF MoveAside
<1> HIDE DEF q
<1>5. dirs' \in Listings
  BY <1>1, <1>4, WithoutFacts DEF SyncTyped
<1>6. PassOK(q, managed, behind)
  BY <1>1, <1>3 DEF PassOK, Placing
<1>7. troubles = 0 => DirsOK(q, managed, dirs')
  BY <1>1, <1>2, <1>3, <1>4 DEF DirsOK
<1>8. /\ managed' \in Listings /\ behind' \in BOOLEAN /\ troubles' \in 0 .. MaxTroubles
      /\ PassOK(q, managed', behind') /\ (troubles' = 0 => DirsOK(q, managed', dirs')) /\ EtagOK(etag', managed', behind')
  BY <1>1, <1>4, <1>6, <1>7 DEF SyncTyped
<1> QED BY <1>3, <1>4, <1>5, <1>8, SyncMoves

LEMMA MoveInPreserves ==
    ASSUME SyncInductive, MoveIn, UNCHANGED registryVars
    PROVE  SyncInductive'
<1>1. /\ SyncTyped /\ PassOK(pass, managed, behind) /\ (troubles = 0 => DirsOK(pass, managed, dirs))
      /\ EtagOK(etag, managed, behind) /\ pass.phase = "aside"
  BY DEF SyncInductive, MoveIn
<1>2. pass.skill = {Staged} /\ Staged \in Keys3
  BY <1>1, StagedFacts DEF Placing
<1> DEFINE q == [pass EXCEPT !.phase = "placed"]
<1>3. /\ q \in PassRow /\ q.phase = "placed" /\ q.skill = pass.skill
      /\ q.listed = pass.listed /\ q.todo = pass.todo /\ q.failed = pass.failed
  BY <1>1 DEF PassRow, PassPhases, Placing, SyncTyped
<1>4. pass' = q /\ dirs' = Put(dirs, Staged[1], Staged) /\ UNCHANGED <<etag, managed, behind, troubles>>
  BY DEF MoveIn
<1> HIDE DEF q
<1>5. dirs' \in Listings
  BY <1>1, <1>2, <1>4, PutFacts DEF SyncTyped
<1>6. PassOK(q, managed, behind)
  BY <1>1, <1>3 DEF PassOK, Placing
<1>7. ASSUME troubles = 0 PROVE dirs' = Put(managed, Staged[1], Staged)
  <2>1. dirs = Without(managed, Staged[1])
    BY <1>1, <1>2, <1>7 DEF DirsOK
  <2>2. PICK k \in Keys3 : k = Staged
    BY <1>2
  <2>3. /\ DOMAIN dirs = DOMAIN managed \ {k[1]} /\ \A t \in DOMAIN managed \ {k[1]} : dirs[t] = managed[t]
    <3>1. PICK x : x = k[1]
      OBVIOUS
    <3>2. dirs = Without(managed, x) /\ managed \in Listings
      BY <1>1, <2>1, <2>2, <3>1 DEF SyncTyped
    <3>3. DOMAIN Without(managed, x) = DOMAIN managed \ {x} /\ \A t \in DOMAIN managed \ {x} : Without(managed, x)[t] = managed[t]
      BY <3>2, WithoutFacts
    <3> QED BY <3>1, <3>2, <3>3
  <2>4. /\ DOMAIN Put(dirs, k[1], k) = DOMAIN dirs \cup {k[1]} /\ Put(dirs, k[1], k)[k[1]] = k
        /\ \A t \in DOMAIN dirs \ {k[1]} : Put(dirs, k[1], k)[t] = dirs[t]
        /\ Put(dirs, k[1], k) \in Listings
    BY <1>1, PutFacts DEF SyncTyped
  <2>5. /\ DOMAIN Put(managed, k[1], k) = DOMAIN managed \cup {k[1]} /\ Put(managed, k[1], k)[k[1]] = k
        /\ \A t \in DOMAIN managed \ {k[1]} : Put(managed, k[1], k)[t] = managed[t]
        /\ Put(managed, k[1], k) \in Listings
    BY <1>1, PutFacts DEF SyncTyped
  <2>6. Put(dirs, k[1], k) = Put(managed, k[1], k)
    <3>1. DOMAIN Put(dirs, k[1], k) = DOMAIN Put(managed, k[1], k)
      BY <2>3, <2>4, <2>5
    <3>2. \A t \in DOMAIN Put(dirs, k[1], k) : Put(dirs, k[1], k)[t] = Put(managed, k[1], k)[t]
      BY <2>3, <2>4, <2>5
    <3> QED BY <2>4, <2>5, <3>1, <3>2, SameListing
  <2> QED BY <1>4, <2>2, <2>6
<1>8. troubles = 0 => DirsOK(q, managed, dirs')
  BY <1>2, <1>3, <1>7 DEF DirsOK
<1>9. /\ managed' \in Listings /\ behind' \in BOOLEAN /\ troubles' \in 0 .. MaxTroubles
      /\ PassOK(q, managed', behind') /\ (troubles' = 0 => DirsOK(q, managed', dirs')) /\ EtagOK(etag', managed', behind')
  BY <1>1, <1>4, <1>6, <1>8 DEF SyncTyped
<1> QED BY <1>3, <1>4, <1>5, <1>9, SyncMoves

LEMMA RecordSkillPreserves ==
    ASSUME SyncInductive, NEW ok \in BOOLEAN, RecordSkill(ok), UNCHANGED registryVars
    PROVE  SyncInductive'
<1>1. /\ SyncTyped /\ PassOK(pass, managed, behind) /\ (troubles = 0 => DirsOK(pass, managed, dirs))
      /\ EtagOK(etag, managed, behind) /\ pass.phase = "placed"
  BY DEF SyncInductive, RecordSkill
<1>2. PICK k \in Keys3 : /\ k = Staged /\ pass.skill = {k} /\ k[1] \in pass.todo
                         /\ k[1] \in DOMAIN pass.listed /\ k = pass.listed[k[1]]
  BY <1>1, StagedFacts DEF Placing
<1>3. PICK b \in BOOLEAN : b = (pass.failed \/ ~ok)
  OBVIOUS
<1> DEFINE q == [pass EXCEPT !.phase = "install", !.todo = pass.todo \ {k[1]}, !.failed = b, !.skill = {}]
<1>4. pass' = q
  BY <1>2, <1>3 DEF RecordSkill
<1>5. /\ q \in PassRow /\ q.phase = "install" /\ q.skill = {}
      /\ q.listed = pass.listed /\ q.todo = pass.todo \ {k[1]} /\ q.failed = b
  BY <1>1 DEF PassRow, PassPhases, Placing, SyncTyped
<1> HIDE DEF q
<1>6. UNCHANGED <<etag, dirs, behind>> /\ dirs' \in Listings /\ behind' \in BOOLEAN /\ behind'
  BY <1>1 DEF RecordSkill, SyncTyped, PassOK
<1>7. EtagOK(etag', managed', behind')
  BY <1>1, <1>6 DEF EtagOK
<1>8. CASE ok
  <2>1. managed' = Put(managed, k[1], k) /\ troubles' = troubles
    BY <1>2, <1>8 DEF RecordSkill
  <2>2. /\ managed' \in Listings /\ DOMAIN managed' = DOMAIN managed \cup {k[1]} /\ managed'[k[1]] = k
        /\ \A t \in DOMAIN managed \ {k[1]} : managed'[t] = managed[t]
    <3>1. PICK f \in Listings : f = managed
      BY <1>1 DEF SyncTyped
    <3>2. PICK g : g = Put(f, k[1], k)
      OBVIOUS
    <3>3. g \in Listings /\ DOMAIN g = DOMAIN f \cup {k[1]} /\ g[k[1]] = k /\ \A t \in DOMAIN f \ {k[1]} : g[t] = f[t]
      BY <3>2, PutFacts
    <3>4. managed' = g
      BY <2>1, <3>1, <3>2
    <3> QED BY <3>1, <3>3, <3>4
  <2>3. PassOK(q, managed', behind')
    <3>1. ~b => ~pass.failed
      BY <1>3
    <3>2. ~b => \A s \in DOMAIN pass.listed \ (pass.todo \ {k[1]}) : s \in DOMAIN managed' /\ managed'[s] = pass.listed[s]
      BY <1>1, <1>2, <2>2, <3>1 DEF PassOK, Placing
    <3>3. pass.todo \subseteq DOMAIN pass.listed
      BY <1>1 DEF PassOK, Placing
    <3> QED BY <1>5, <1>6, <3>2, <3>3 DEF PassOK, Placing
  <2>4. troubles' = 0 => DirsOK(q, managed', dirs')
    BY <1>1, <1>2, <1>5, <1>6, <2>1 DEF DirsOK
  <2> QED BY <1>1, <1>4, <1>5, <1>6, <1>7, <2>1, <2>2, <2>3, <2>4, SyncMoves DEF SyncTyped
<1>9. CASE ~ok
  <2>1. managed' = managed /\ troubles' \in 0 .. MaxTroubles /\ troubles' # 0
    BY <1>1, <1>9, TroubleCounts DEF RecordSkill
  <2>2. PassOK(q, managed', behind')
    <3>1. b
      BY <1>3, <1>9
    <3>2. pass.todo \subseteq DOMAIN pass.listed
      BY <1>1 DEF PassOK, Placing
    <3> QED BY <1>5, <1>6, <3>1, <3>2 DEF PassOK, Placing
  <2> QED BY <1>1, <1>4, <1>5, <1>6, <1>7, <2>1, <2>2, SyncMoves DEF SyncTyped
<1> QED BY <1>8, <1>9

LEMMA StartRemovingPreserves ==
    ASSUME SyncInductive, StartRemoving, UNCHANGED registryVars
    PROVE  SyncInductive'
<1>1. /\ SyncTyped /\ PassOK(pass, managed, behind) /\ (troubles = 0 => DirsOK(pass, managed, dirs))
      /\ pass.phase = "install" /\ pass.todo = {}
  BY DEF SyncInductive, StartRemoving
<1> DEFINE q == [pass EXCEPT !.phase = "remove", !.todo = DOMAIN managed \ DOMAIN pass.listed]
<1>2. DOMAIN managed \in SUBSET SkillIds
  BY <1>1, ListingFacts DEF SyncTyped
<1>3. /\ q \in PassRow /\ q.phase = "remove" /\ q.skill = pass.skill
      /\ q.listed = pass.listed /\ q.todo = DOMAIN managed \ DOMAIN pass.listed /\ q.failed = pass.failed
  BY <1>1, <1>2 DEF PassRow, PassPhases, Placing, SyncTyped
<1>4. pass' = q /\ UNCHANGED <<etag, managed, dirs, behind, troubles>>
  BY DEF StartRemoving
<1> HIDE DEF q
<1>5. PassOK(q, managed, behind)
  BY <1>1, <1>3 DEF PassOK, Placing
<1>6. troubles = 0 => DirsOK(q, managed, dirs)
  BY <1>1, <1>3 DEF DirsOK
<1> QED BY <1>1, <1>3, <1>4, <1>5, <1>6, PassGoesOn DEF SyncTyped

LEMMA RemoveDirectoryPreserves ==
    ASSUME SyncInductive, NEW s \in SkillIds, RemoveDirectory(s), UNCHANGED registryVars
    PROVE  SyncInductive'
<1>1. /\ SyncTyped /\ PassOK(pass, managed, behind) /\ (troubles = 0 => DirsOK(pass, managed, dirs))
      /\ EtagOK(etag, managed, behind) /\ pass.phase = "remove" /\ s \in pass.todo /\ pass \in PassRow
  BY DEF SyncInductive, RemoveDirectory, SyncTyped
<1>2. dirs' = Without(dirs, s) /\ UNCHANGED <<etag, managed, pass, behind, troubles>>
  BY DEF RemoveDirectory
<1>3. dirs' \in Listings /\ DOMAIN dirs' = DOMAIN dirs \ {s} /\ \A t \in DOMAIN dirs \ {s} : dirs'[t] = dirs[t]
  BY <1>1, <1>2, WithoutFacts DEF SyncTyped
<1>4. troubles = 0 => DirsOK(pass, managed, dirs')
  BY <1>1, <1>3 DEF DirsOK
<1>5. /\ managed' \in Listings /\ behind' \in BOOLEAN /\ troubles' \in 0 .. MaxTroubles
      /\ PassOK(pass, managed', behind') /\ (troubles' = 0 => DirsOK(pass, managed', dirs'))
      /\ EtagOK(etag', managed', behind') /\ pass' = pass
  BY <1>1, <1>2, <1>4 DEF SyncTyped
<1> QED BY <1>1, <1>3, <1>5, SyncMoves

LEMMA RemoveManagedPreserves ==
    ASSUME SyncInductive, NEW s \in SkillIds, RemoveManagedSkill(s), UNCHANGED registryVars
    PROVE  SyncInductive'
<1>1. /\ SyncTyped /\ PassOK(pass, managed, behind) /\ (troubles = 0 => DirsOK(pass, managed, dirs))
      /\ EtagOK(etag, managed, behind) /\ pass.phase = "remove" /\ s \in pass.todo /\ s \notin DOMAIN dirs
  BY DEF SyncInductive, RemoveManagedSkill
<1> DEFINE q == [pass EXCEPT !.todo = pass.todo \ {s}]
<1>2. /\ q \in PassRow /\ q.phase = "remove" /\ q.skill = pass.skill
      /\ q.listed = pass.listed /\ q.todo = pass.todo \ {s} /\ q.failed = pass.failed
  BY <1>1 DEF PassRow, SyncTyped
<1>3. pass' = q /\ managed' = Without(managed, s) /\ UNCHANGED <<etag, dirs, behind, troubles>>
  BY DEF RemoveManagedSkill
<1> HIDE DEF q
<1>4. managed' \in Listings /\ DOMAIN managed' = DOMAIN managed \ {s} /\ \A t \in DOMAIN managed \ {s} : managed'[t] = managed[t]
  BY <1>1, <1>3, WithoutFacts DEF SyncTyped
<1>5. behind /\ s \notin DOMAIN pass.listed
  BY <1>1 DEF PassOK
<1>6. PassOK(q, managed', behind)
  BY <1>1, <1>2, <1>4, <1>5 DEF PassOK, Placing
<1>7. troubles = 0 => DirsOK(q, managed', dirs)
  BY <1>1, <1>2, <1>4 DEF DirsOK
<1>8. EtagOK(etag, managed', behind)
  BY <1>1, <1>5 DEF EtagOK
<1>9. /\ dirs' \in Listings /\ behind' \in BOOLEAN /\ troubles' \in 0 .. MaxTroubles
      /\ PassOK(q, managed', behind') /\ (troubles' = 0 => DirsOK(q, managed', dirs')) /\ EtagOK(etag', managed', behind')
  BY <1>1, <1>3, <1>6, <1>7, <1>8 DEF SyncTyped
<1> QED BY <1>2, <1>3, <1>4, <1>9, SyncMoves

LEMMA FinishPassPreserves ==
    ASSUME SyncInductive, FinishPass, UNCHANGED registryVars
    PROVE  SyncInductive'
<1>1. /\ SyncTyped /\ PassOK(pass, managed, behind) /\ (troubles = 0 => DirsOK(pass, managed, dirs))
      /\ EtagOK(etag, managed, behind) /\ pass.phase = "remove" /\ pass.todo = {}
  BY DEF SyncInductive, FinishPass
<1>2. pass.listed \in Listings /\ pass.failed \in BOOLEAN /\ managed \in Listings /\ dirs \in Listings
  BY <1>1 DEF SyncTyped, PassRow
<1>3. pass' = IdlePass /\ UNCHANGED <<managed, dirs, troubles>> /\ behind' = ~Complete(pass) /\ etag' = NextEtag(pass)
  BY DEF FinishPass
<1>4. ASSUME ~pass.failed PROVE managed = pass.listed
  <2>1. DOMAIN managed = DOMAIN pass.listed /\ \A s \in DOMAIN managed : managed[s] = pass.listed[s]
    BY <1>1, <1>4 DEF PassOK
  <2> QED BY <1>2, <2>1, SameListing
<1>5. EtagOK(etag', managed, behind') /\ behind' \in BOOLEAN
  <2>1. CASE pass.failed
    <3>1. etag' = etag /\ behind' = TRUE
      BY <1>3, <2>1 DEF Complete, NextEtag
    <3> QED BY <1>1, <3>1 DEF EtagOK
  <2>2. CASE ~pass.failed
    <3>1. etag' = {managed} /\ behind' = FALSE
      BY <1>3, <1>4, <2>2 DEF Complete, NextEtag
    <3> QED BY <3>1 DEF EtagOK
  <2> QED BY <2>1, <2>2
<1>6. PassOK(IdlePass, managed, behind')
  BY IdleFacts DEF PassOK, Placing
<1>7. ASSUME troubles = 0 PROVE dirs = managed
  <2>1. DOMAIN dirs = DOMAIN managed /\ \A s \in DOMAIN dirs : dirs[s] = managed[s]
    BY <1>1, <1>7 DEF DirsOK
  <2> QED BY <1>2, <2>1, SameListing
<1>8. troubles = 0 => DirsOK(IdlePass, managed, dirs)
  BY <1>7, IdleFacts DEF DirsOK
<1>9. /\ managed' \in Listings /\ dirs' \in Listings /\ troubles' \in 0 .. MaxTroubles
      /\ PassOK(IdlePass, managed', behind') /\ (troubles' = 0 => DirsOK(IdlePass, managed', dirs'))
      /\ EtagOK(etag', managed', behind')
  BY <1>1, <1>2, <1>3, <1>5, <1>6, <1>8 DEF SyncTyped
<1> QED BY <1>3, <1>5, <1>9, IdleFacts, SyncMoves

LEMMA RestartPreserves ==
    ASSUME SyncInductive, Restart, UNCHANGED registryVars
    PROVE  SyncInductive'
<1>1. SyncTyped
  BY DEF SyncInductive
<1>2. troubles' \in 0 .. MaxTroubles /\ troubles' # 0 /\ pass' = IdlePass /\ UNCHANGED <<etag, managed, dirs, behind>>
  BY <1>1, TroubleCounts DEF Restart
<1>3. PassOK(IdlePass, managed, behind)
  BY IdleFacts DEF PassOK, Placing
<1> QED BY <1>2, <1>3, IdleFacts, PassGoesOn

LEMMA SyncRests ==
    ASSUME SyncInductive, UNCHANGED <<etag, managed, dirs, pass, behind, troubles>>, RegistryInductive'
    PROVE  SyncInductive'
<1>1. SyncTyped' /\ PassOK(pass, managed, behind)' /\ (troubles = 0 => DirsOK(pass, managed, dirs))' /\ EtagOK(etag, managed, behind)'
  BY DEF SyncInductive, SyncTyped
<1> QED BY <1>1 DEF SyncInductive

LEMMA StepsKeepSync == SyncInductive /\ [SyncNext]_<<registryVars, syncVars>> => SyncInductive'
<1> SUFFICES ASSUME SyncInductive, [SyncNext]_<<registryVars, syncVars>> PROVE SyncInductive'
    OBVIOUS
<1>1. CASE RegistryNext /\ UNCHANGED syncVars
  <2>1. RegistryInductive'
    BY <1>1, RegistrySteps DEF SyncInductive
  <2> QED BY <1>1, <2>1, SyncRests DEF syncVars
<1>2. CASE SyncStep /\ UNCHANGED registryVars
  <2>1. CASE NotModified
    <3>1. RegistryInductive'
      BY <1>2, RegistryRests DEF SyncInductive
    <3> QED BY <2>1, <3>1, SyncRests DEF NotModified
  <2>2. CASE FetchManifest \/ MoveAside \/ MoveIn \/ StartRemoving \/ FinishPass \/ Restart
    BY <1>2, <2>2, FetchManifestPreserves, MoveAsidePreserves, MoveInPreserves, StartRemovingPreserves,
       FinishPassPreserves, RestartPreserves
  <2>3. CASE \E ok \in BOOLEAN : RecordSkill(ok)
    BY <1>2, <2>3, RecordSkillPreserves
  <2>4. CASE \E s \in SkillIds : \/ StageSkill(s) \/ FailToStage(s)
                                 \/ RemoveDirectory(s) \/ RemoveManagedSkill(s) \/ FailToRemove(s)
    BY <1>2, <2>4, StageSkillPreserves, FailToStagePreserves, RemoveDirectoryPreserves, RemoveManagedPreserves,
       FailToRemovePreserves
  <2> QED BY <1>2, <2>1, <2>2, <2>3, <2>4 DEF SyncStep
<1>3. CASE UNCHANGED <<registryVars, syncVars>>
  <2>1. RegistryInductive'
    BY <1>3, RegistryRests DEF SyncInductive
  <2> QED BY <1>3, <2>1, SyncRests DEF syncVars
<1> QED BY <1>1, <1>2, <1>3 DEF SyncNext

LEMMA SyncInductiveIsEnough == SyncInductive => SkillInvariant
<1> SUFFICES ASSUME SyncInductive PROVE SkillInvariant
    OBVIOUS
<1>1. /\ RegistryTyped /\ KeysName /\ PackagesKept /\ SyncTyped /\ PassOK(pass, managed, behind)
      /\ (troubles = 0 => DirsOK(pass, managed, dirs)) /\ EtagOK(etag, managed, behind)
  BY DEF SyncInductive, RegistryInductive
<1>2. managed \in Listings /\ dirs \in Listings /\ pass.listed \in Listings /\ pass.phase \in PassPhases
  BY <1>1 DEF SyncTyped, PassRow
<1>3. RegistryTypeOK
  BY <1>1, RegistryAssumption DEF RegistryTyped, RegistryTypeOK, KeysName, VersionRow, WithdrawalRow
<1>4. SyncTypeOK
  <2>1. Cardinality(etag) <= 1
    <3>1. CASE etag = {}
      BY <3>1, FS_EmptySet
    <3>2. CASE \E x : etag = {x}
      <4>1. PICK x : etag = {x}
        BY <3>2
      <4>2. Cardinality({x}) = 1
        BY FS_Singleton
      <4> QED BY <4>1, <4>2
    <3> QED BY <1>1, <3>1, <3>2 DEF EtagOK
  <2>2. DOMAIN managed \subseteq SkillIds /\ DOMAIN dirs \subseteq SkillIds
    BY <1>2, ListingFacts
  <2> QED BY <1>1, <1>2, <1>3, <2>1, <2>2 DEF SyncTypeOK, SyncTyped, PassPhases, Placing
<1>5. PackagesStored
  BY <1>1 DEF PackagesStored, PackagesKept
<1>6. EtagTellsWhatIsInstalled
  <2>1. ~behind => pass.phase = "idle"
    BY <1>1 DEF PassOK
  <2> QED BY <1>1, <2>1 DEF EtagTellsWhatIsInstalled, EtagOK, DirsOK
<1>7. DirectoriesAreListed
  <2> SUFFICES ASSUME troubles = 0, NEW s \in DOMAIN dirs
               PROVE  (s \in DOMAIN managed /\ dirs[s] = managed[s]) \/ (s \in DOMAIN pass.listed /\ dirs[s] = pass.listed[s])
      BY DEF DirectoriesAreListed
  <2>1. DirsOK(pass, managed, dirs)
    BY <1>1
  <2>2. CASE pass.phase \in {"idle", "install", "staged"}
    BY <2>1, <2>2 DEF DirsOK
  <2>3. CASE pass.phase = "remove"
    BY <2>1, <2>3 DEF DirsOK
  <2>4. CASE pass.phase \in {"aside", "placed"}
    <3>1. PICK k \in Keys3 : pass.skill = {k} /\ k[1] \in DOMAIN pass.listed /\ k = pass.listed[k[1]]
      BY <2>4, StagedFacts DEF Placing
    <3>2. dirs = Without(managed, k[1]) \/ dirs = Put(managed, k[1], k)
      BY <2>1, <2>4, <3>1 DEF DirsOK
    <3>3. PICK x : x = k[1]
      OBVIOUS
    <3>4. PICK f \in Listings : f = managed
      BY <1>2
    <3>5. CASE dirs = Without(managed, x)
      <4>1. PICK g : g = Without(f, x)
        OBVIOUS
      <4>2. DOMAIN g = DOMAIN f \ {x} /\ \A t \in DOMAIN f \ {x} : g[t] = f[t]
        BY <4>1, WithoutFacts
      <4>3. dirs = g
        BY <3>4, <3>5, <4>1
      <4> QED BY <3>4, <4>2, <4>3
    <3>6. CASE dirs = Put(managed, k[1], k)
      <4>1. PICK g : g = Put(f, k[1], k)
        OBVIOUS
      <4>2. DOMAIN g = DOMAIN f \cup {k[1]} /\ g[k[1]] = k /\ \A t \in DOMAIN f \ {k[1]} : g[t] = f[t]
        BY <4>1, PutFacts
      <4>3. dirs = g
        BY <3>4, <3>6, <4>1
      <4> QED BY <3>4, <3>1, <4>2, <4>3
    <3> QED BY <3>2, <3>3, <3>5, <3>6
  <2> QED BY <1>2, <2>2, <2>3, <2>4 DEF PassPhases, Placing
<1> QED BY <1>4, <1>5, <1>6, <1>7 DEF SkillInvariant

\* The package of every version row is stored unless an upload met a withdrawal, the stored
\* ETag tells what is installed, and directories hold listed packages (uploadSkillVersion,
\* deleteSkillVersion, reconcile, install).
THEOREM SkillsAreInstalled == SyncSpec => []SkillInvariant
<1>1. SyncInit => SyncInductive
  BY InitSync
<1>2. SyncInductive /\ [SyncNext]_<<registryVars, syncVars>> => SyncInductive'
  BY StepsKeepSync
<1>3. SyncInductive => SkillInvariant
  BY SyncInductiveIsEnough
<1> QED BY <1>1, <1>2, <1>3, PTL DEF SyncSpec

------------------------------------------------------------------------------
(* The host's inbox: the inductive invariant                               *)

\* The phases in which a run has a delivery in hand, the others, and those of resumeInbox.
ItemPhases ==
    {"ready", "running", "execute", "report", "reportFailed", "keepSucceeded", "keepFailed", "queue", "acknowledge"}
FreePhases == {"idle", "first", "resume", "items", "heartbeat", "list", "persist", "flush"}
WorkPhases == (ItemPhases \ {"acknowledge"}) \cup {"items"}

RunRow == [phase : ItemPhases \cup FreePhases, todo : SUBSET Deliveries, item : SUBSET Deliveries, again : BOOLEAN]

InboxRows ==
    /\ delivered \in [Deliveries -> {"none", "pending", "received", "running"} \cup Withdrawn \cup Results]
    /\ inbox \in [Deliveries -> {"none", "received", "running"} \cup Results]
    /\ unsent \subseteq Deliveries \X Results /\ telemetry \subseteq Deliveries \X Results
    /\ executed \subseteq Deliveries
    /\ breaks \in 0 .. MaxBreaks
    /\ run \in RunRow

\* A run has one delivery in hand exactly where it works on one, and works only on
\* deliveries that are on disk.
RunTakesKept ==
    /\ run.phase \in ItemPhases => \E d \in Deliveries : run.item = {d}
    /\ run.phase \in FreePhases => run.item = {}
    /\ \A d \in run.item : inbox[d] # "none"
    /\ run.phase \in WorkPhases => \A d \in run.todo : inbox[d] # "none"

\* A success is reported after the execution and kept after the server has recorded it.
RunReportsReal ==
    /\ run.phase = "report" => run.item \subseteq executed
    /\ run.phase = "keepSucceeded" => \A d \in run.item : delivered[d] = "succeeded"
    /\ run.phase = "queue" => \A d \in run.item : inbox[d] \in Results

InboxInductive == InboxRows /\ AcknowledgedIsKept /\ SuccessIsReal /\ RunTakesKept /\ RunReportsReal

LEMMA InboxInductiveIsEnough == InboxInductive => InboxInvariant
<1> SUFFICES ASSUME InboxInductive PROVE InboxInvariant
    OBVIOUS
<1>1. Cardinality(run.item) <= 1
  <2>1. CASE run.item = {}
    BY <2>1, FS_EmptySet
  <2>2. CASE \E d \in Deliveries : run.item = {d}
    <3>1. PICK d \in Deliveries : run.item = {d}
      BY <2>2
    <3>2. Cardinality({d}) = 1
      BY FS_Singleton
    <3> QED BY <3>1, <3>2
  <2> QED BY <2>1, <2>2 DEF InboxInductive, InboxRows, RunRow, RunTakesKept
<1>2. run.todo \subseteq Deliveries /\ run.item \subseteq Deliveries
  BY DEF InboxInductive, InboxRows, RunRow
<1> QED BY <1>1, <1>2 DEF InboxInductive, InboxInvariant, InboxRows, InboxTypeOK

LEMMA RestingFields ==
    Resting \in RunRow /\ Resting.phase = "idle" /\ Resting.todo = {} /\ Resting.item = {}
BY DEF Resting, RunRow, ItemPhases, FreePhases

LEMMA InboxStarts == InboxInit => InboxInductive
BY RestingFields, InboxAssumption
   DEF InboxInit, InboxInductive, InboxRows, AcknowledgedIsKept, SuccessIsReal, RunTakesKept, RunReportsReal,
       ItemPhases, WorkPhases, Withdrawn, Results

\* The delivery in hand.
LEMMA ItemInHand ==
    ASSUME InboxInductive, run.phase \in ItemPhases
    PROVE  ItemAtHand \in Deliveries /\ run.item = {ItemAtHand} /\ inbox[ItemAtHand] # "none"
BY DEF InboxInductive, InboxRows, RunTakesKept, ItemAtHand, RunRow

\* A run that rests asks nothing of the rest.
LEMMA RunRests ==
    ASSUME InboxInductive, run' = Resting, InboxRows', AcknowledgedIsKept', SuccessIsReal'
    PROVE  InboxInductive'
BY RestingFields DEF InboxInductive, RunTakesKept, RunReportsReal, ItemPhases, WorkPhases, FreePhases

\* The steps that change nothing but the run.
LEMMA RunMoves ==
    ASSUME InboxInductive, UNCHANGED <<delivered, inbox, unsent, telemetry, executed, breaks>>,
           RunOnce \/ ResumeInbox \/ ItemsDone \/ Heartbeat \/ ListControlEvents \/ PageDone
    PROVE  InboxInductive'
<1> USE DEF InboxInductive, ItemPhases, FreePhases, WorkPhases
<1>0. AcknowledgedIsKept' /\ SuccessIsReal'
  BY DEF AcknowledgedIsKept, SuccessIsReal
<1>1. CASE RunOnce
  <2>1. run' \in RunRow /\ run'.phase = "first" /\ run'.item = {}
    BY <1>1, RestingFields DEF RunOnce, RunRow
  <2> QED BY <1>0, <2>1 DEF InboxRows, RunTakesKept, RunReportsReal
<1>2. CASE ResumeInbox
  <2>1. run' \in RunRow /\ run'.phase = "items" /\ run'.item = {} /\ run'.todo = PendingInbox
    BY <1>2 DEF ResumeInbox, RunRow, InboxRows, PendingInbox, RunTakesKept
  <2> QED BY <1>0, <2>1 DEF InboxRows, RunTakesKept, RunReportsReal, PendingInbox
<1>3. CASE ItemsDone
  <2>1. run' \in RunRow /\ run'.phase \in {"flush", "heartbeat"} /\ run'.item = {}
    BY <1>3 DEF ItemsDone, RunRow, InboxRows
  <2> QED BY <1>0, <2>1 DEF InboxRows, RunTakesKept, RunReportsReal
<1>4. CASE Heartbeat
  <2>1. run' \in RunRow /\ run'.phase \in {"list", "resume"} /\ run'.item = {}
    BY <1>4 DEF Heartbeat, RunRow, InboxRows, RunTakesKept
  <2> QED BY <1>0, <2>1 DEF InboxRows, RunTakesKept, RunReportsReal
<1>5. CASE ListControlEvents
  <2>1. run' \in RunRow /\ run'.phase = "persist" /\ run'.item = {}
    BY <1>5 DEF ListControlEvents, RunRow, InboxRows, RunTakesKept, PendingForSession
  <2> QED BY <1>0, <2>1 DEF InboxRows, RunTakesKept, RunReportsReal
<1>6. CASE PageDone
  <2>1. run' \in RunRow /\ run'.phase = "resume" /\ run'.item = {}
    BY <1>6 DEF PageDone, RunRow, InboxRows, RunTakesKept
  <2> QED BY <1>0, <2>1 DEF InboxRows, RunTakesKept, RunReportsReal
<1> QED BY <1>1, <1>2, <1>3, <1>4, <1>5, <1>6

\* What the acknowledgement makes of a delivery that is kept.
LEMMA AcknowledgementKeeps ==
    ASSUME InboxInductive, NEW d \in Deliveries, inbox[d] # "none", UNCHANGED <<inbox, executed>>,
           delivered' = [delivered EXCEPT ![d] = AcknowledgedState(@)]
    PROVE  /\ delivered' \in [Deliveries -> {"none", "pending", "received", "running"} \cup Withdrawn \cup Results]
           /\ AcknowledgedIsKept' /\ SuccessIsReal'
BY DEF InboxInductive, InboxRows, AcknowledgedIsKept, SuccessIsReal, AcknowledgedState, Withdrawn, Results

LEMMA AcknowledgeAgainKeeps ==
    ASSUME InboxInductive, NEW d \in Deliveries, AcknowledgeAgain(d)
    PROVE  InboxInductive'
<1>1. run.phase = "items" /\ d \in run.todo /\ inbox[d] # "none"
  BY DEF AcknowledgeAgain, InboxInductive, RunTakesKept, WorkPhases
<1>2. UNCHANGED <<inbox, unsent, telemetry, executed, breaks>>
  BY DEF AcknowledgeAgain
<1>3. /\ delivered' \in [Deliveries -> {"none", "pending", "received", "running"} \cup Withdrawn \cup Results]
      /\ AcknowledgedIsKept' /\ SuccessIsReal'
  BY <1>1, <1>2, AcknowledgementKeeps DEF AcknowledgeAgain
<1>4. CASE AckConflict(delivered[d])
  <2>1. run' = Resting
    BY <1>4 DEF AcknowledgeAgain
  <2> QED BY <1>2, <1>3, <2>1, RunRests, RestingFields DEF InboxInductive, InboxRows
<1>5. CASE ~AckConflict(delivered[d])
  <2>1. run' \in RunRow /\ run'.phase = "ready" /\ run'.item = {d} /\ run'.todo = run.todo \ {d}
    BY <1>5 DEF AcknowledgeAgain, InboxInductive, InboxRows, RunRow, ItemPhases
  <2> QED BY <1>1, <1>2, <1>3, <2>1
          DEF InboxInductive, InboxRows, RunTakesKept, RunReportsReal, ItemPhases, FreePhases, WorkPhases
<1> QED BY <1>4, <1>5

LEMMA AcknowledgeReceivedKeeps ==
    ASSUME InboxInductive, AcknowledgeReceived
    PROVE  InboxInductive'
<1> DEFINE d == ItemAtHand
<1>1. d \in Deliveries /\ run.item = {d} /\ inbox[d] # "none"
  BY ItemInHand DEF AcknowledgeReceived, ItemPhases
<1>2. UNCHANGED <<inbox, unsent, telemetry, executed, breaks>>
  BY DEF AcknowledgeReceived
<1>3. /\ delivered' \in [Deliveries -> {"none", "pending", "received", "running"} \cup Withdrawn \cup Results]
      /\ AcknowledgedIsKept' /\ SuccessIsReal'
  BY <1>1, <1>2, AcknowledgementKeeps DEF AcknowledgeReceived
<1>4. CASE AckConflict(delivered[d])
  <2>1. run' = Resting
    BY <1>4 DEF AcknowledgeReceived
  <2> QED BY <1>2, <1>3, <2>1, RunRests, RestingFields DEF InboxInductive, InboxRows
<1>5. CASE ~AckConflict(delivered[d])
  <2>1. run' \in RunRow /\ run'.phase = "persist" /\ run'.item = {}
    BY <1>5 DEF AcknowledgeReceived, InboxInductive, InboxRows, RunRow, FreePhases
  <2> QED BY <1>2, <1>3, <2>1
          DEF InboxInductive, InboxRows, RunTakesKept, RunReportsReal, ItemPhases, FreePhases, WorkPhases
<1> QED BY <1>4, <1>5

LEMMA PersistInboxKeeps ==
    ASSUME InboxInductive, NEW d \in Deliveries, PersistInbox(d)
    PROVE  InboxInductive'
<1>1. UNCHANGED <<delivered, unsent, telemetry, executed, breaks>>
  BY DEF PersistInbox
<1>2. /\ inbox' \in [Deliveries -> {"none", "received", "running"} \cup Results]
      /\ inbox'[d] # "none"
      /\ \A e \in Deliveries : inbox[e] # "none" => inbox'[e] = inbox[e]
      /\ \A e \in Deliveries : inbox'[e] = "succeeded" => inbox[e] = "succeeded"
  BY DEF PersistInbox, Kept, InboxInductive, InboxRows, Results
<1>3. run' \in RunRow /\ run'.phase = "acknowledge" /\ run'.item = {d}
  BY DEF PersistInbox, InboxInductive, InboxRows, RunRow, ItemPhases
<1>4. AcknowledgedIsKept' /\ SuccessIsReal'
  BY <1>1, <1>2 DEF InboxInductive, AcknowledgedIsKept, SuccessIsReal
<1> QED BY <1>1, <1>2, <1>3, <1>4
        DEF InboxInductive, InboxRows, RunTakesKept, RunReportsReal, ItemPhases, FreePhases, WorkPhases

\* What a report makes of the delivery in hand.
LEMMA ReportKeeps ==
    ASSUME InboxInductive, NEW d \in Deliveries, inbox[d] # "none", UNCHANGED <<inbox, executed>>,
           NEW status \in {"running", "succeeded", "failed"}, status = "succeeded" => d \in executed,
           delivered' = [delivered EXCEPT ![d] = Reported(@, status)]
    PROVE  /\ delivered' \in [Deliveries -> {"none", "pending", "received", "running"} \cup Withdrawn \cup Results]
           /\ AcknowledgedIsKept' /\ SuccessIsReal'
           /\ status = "succeeded" /\ ~ReportConflict(delivered[d]) => delivered'[d] = "succeeded"
BY DEF InboxInductive, InboxRows, AcknowledgedIsKept, SuccessIsReal, Reported, ReportConflict, Withdrawn, Results

\* The run goes on with the delivery in hand, for which nothing but the rows of
\* the server has changed.
LEMMA RunGoesOn ==
    ASSUME InboxInductive, UNCHANGED <<inbox, unsent, telemetry>>,
           InboxRows', AcknowledgedIsKept', SuccessIsReal', RunReportsReal',
           run.phase \in ItemPhases \ {"acknowledge"}, run'.phase \in ItemPhases \ {"acknowledge"},
           run'.item = run.item, run'.todo = run.todo
    PROVE  InboxInductive'
BY DEF InboxInductive, RunTakesKept, ItemPhases, FreePhases, WorkPhases

LEMMA ReportRunningKeeps ==
    ASSUME InboxInductive, ReportRunning
    PROVE  InboxInductive'
<1> DEFINE d == ItemAtHand
<1>1. d \in Deliveries /\ run.item = {d} /\ inbox[d] # "none"
  BY ItemInHand DEF ReportRunning, ItemPhases
<1>2. UNCHANGED <<inbox, unsent, telemetry, executed, breaks>>
  BY DEF ReportRunning
<1>3. /\ delivered' \in [Deliveries -> {"none", "pending", "received", "running"} \cup Withdrawn \cup Results]
      /\ AcknowledgedIsKept' /\ SuccessIsReal'
  BY <1>1, <1>2, ReportKeeps DEF ReportRunning
<1>4. CASE ReportConflict(delivered[d])
  <2>1. run' = Resting
    BY <1>4 DEF ReportRunning
  <2> QED BY <1>2, <1>3, <2>1, RunRests, RestingFields DEF InboxInductive, InboxRows
<1>5. CASE ~ReportConflict(delivered[d])
  <2>1. run' \in RunRow /\ run'.phase = "execute" /\ run'.item = run.item /\ run'.todo = run.todo
    BY <1>5 DEF ReportRunning, InboxInductive, InboxRows, RunRow, ItemPhases
  <2>2. InboxRows'
    BY <1>2, <1>3, <2>1 DEF InboxInductive, InboxRows
  <2>3. RunReportsReal'
    BY <2>1 DEF RunReportsReal
  <2> QED BY <1>2, <1>3, <2>1, <2>2, <2>3, RunGoesOn DEF ReportRunning, ItemPhases
<1> QED BY <1>4, <1>5

LEMMA ReportFailedKeeps ==
    ASSUME InboxInductive, ReportFailed
    PROVE  InboxInductive'
<1> DEFINE d == ItemAtHand
<1>1. d \in Deliveries /\ run.item = {d} /\ inbox[d] # "none"
  BY ItemInHand DEF ReportFailed, ItemPhases
<1>2. UNCHANGED <<inbox, unsent, telemetry, executed, breaks>>
  BY DEF ReportFailed
<1>3. /\ delivered' \in [Deliveries -> {"none", "pending", "received", "running"} \cup Withdrawn \cup Results]
      /\ AcknowledgedIsKept' /\ SuccessIsReal'
  BY <1>1, <1>2, ReportKeeps DEF ReportFailed
<1>4. CASE ReportConflict(delivered[d])
  <2>1. run' = Resting
    BY <1>4 DEF ReportFailed
  <2> QED BY <1>2, <1>3, <2>1, RunRests, RestingFields DEF InboxInductive, InboxRows
<1>5. CASE ~ReportConflict(delivered[d])
  <2>1. run' \in RunRow /\ run'.phase = "keepFailed" /\ run'.item = run.item /\ run'.todo = run.todo
    BY <1>5 DEF ReportFailed, InboxInductive, InboxRows, RunRow, ItemPhases
  <2>2. InboxRows'
    BY <1>2, <1>3, <2>1 DEF InboxInductive, InboxRows
  <2>3. RunReportsReal'
    BY <2>1 DEF RunReportsReal
  <2> QED BY <1>2, <1>3, <2>1, <2>2, <2>3, RunGoesOn DEF ReportFailed, ItemPhases
<1> QED BY <1>4, <1>5

LEMMA ReportSucceededKeeps ==
    ASSUME InboxInductive, ReportSucceeded
    PROVE  InboxInductive'
<1> DEFINE d == ItemAtHand
<1>1. d \in Deliveries /\ run.item = {d} /\ inbox[d] # "none"
  BY ItemInHand DEF ReportSucceeded, ItemPhases
<1>2. UNCHANGED <<inbox, unsent, telemetry, executed>>
  BY DEF ReportSucceeded
<1>3. d \in executed
  BY <1>1 DEF ReportSucceeded, InboxInductive, RunReportsReal
<1>4. /\ delivered' \in [Deliveries -> {"none", "pending", "received", "running"} \cup Withdrawn \cup Results]
      /\ AcknowledgedIsKept' /\ SuccessIsReal'
      /\ ~ReportConflict(delivered[d]) => delivered'[d] = "succeeded"
  BY <1>1, <1>2, <1>3, ReportKeeps DEF ReportSucceeded
<1>5. /\ run' \in RunRow /\ run'.item = run.item /\ run'.todo = run.todo
      /\ run'.phase \in {"keepSucceeded", "reportFailed"}
      /\ run'.phase = "keepSucceeded" => ~ReportConflict(delivered[d])
      /\ breaks' \in 0 .. MaxBreaks
  BY InboxAssumption DEF ReportSucceeded, Break, InboxInductive, InboxRows, RunRow, ItemPhases
<1>6. InboxRows'
  BY <1>2, <1>4, <1>5 DEF InboxInductive, InboxRows
<1>7. RunReportsReal'
  BY <1>1, <1>4, <1>5 DEF RunReportsReal
<1> QED BY <1>2, <1>4, <1>5, <1>6, <1>7, RunGoesOn DEF ReportSucceeded, ItemPhases

LEMMA ExecuteKeeps ==
    ASSUME InboxInductive, NEW ok \in BOOLEAN, Execute(ok)
    PROVE  InboxInductive'
<1>1. UNCHANGED <<delivered, inbox, unsent, telemetry>>
  BY DEF Execute
<1>2. /\ run' \in RunRow /\ run'.item = run.item /\ run'.todo = run.todo
      /\ run'.phase = IF ok THEN "report" ELSE "reportFailed"
  BY DEF Execute, InboxInductive, InboxRows, RunRow, ItemPhases
<1>3. breaks' \in 0 .. MaxBreaks
  BY InboxAssumption DEF Execute, Break, InboxInductive, InboxRows
<1>4. /\ executed \subseteq executed' /\ executed' \subseteq Deliveries
      /\ run'.phase = "report" => run'.item \subseteq executed'
  BY <1>2 DEF Execute, InboxInductive, InboxRows, RunRow
<1>5. InboxRows' /\ AcknowledgedIsKept' /\ SuccessIsReal'
  BY <1>1, <1>2, <1>3, <1>4 DEF InboxInductive, InboxRows, AcknowledgedIsKept, SuccessIsReal
<1>6. RunReportsReal'
  BY <1>2, <1>4 DEF RunReportsReal
<1> QED BY <1>1, <1>2, <1>5, <1>6, RunGoesOn DEF Execute, ItemPhases

\* setInboxState on the delivery in hand.
LEMMA InboxStateKeeps ==
    ASSUME InboxInductive, run.phase \in ItemPhases \ {"acknowledge"}, run'.phase \in ItemPhases \ {"acknowledge"},
           NEW status \in {"running", "succeeded", "failed"},
           status = "succeeded" => delivered[ItemAtHand] = "succeeded",
           inbox' = [inbox EXCEPT ![ItemAtHand] = status],
           UNCHANGED <<delivered, unsent, telemetry, executed, breaks>>,
           run' \in RunRow, run'.item = run.item, run'.todo = run.todo,
           run'.phase \in {"running", "queue"}, run'.phase = "queue" => status \in Results
    PROVE  InboxInductive'
<1> DEFINE d == ItemAtHand
<1>1. d \in Deliveries /\ run.item = {d}
  BY ItemInHand
<1>2. /\ inbox' \in [Deliveries -> {"none", "received", "running"} \cup Results]
      /\ inbox'[d] = status
      /\ \A e \in Deliveries \ {d} : inbox'[e] = inbox[e]
  BY <1>1 DEF InboxInductive, InboxRows, Results
<1>3. AcknowledgedIsKept' /\ SuccessIsReal'
  BY <1>1, <1>2 DEF InboxInductive, AcknowledgedIsKept, SuccessIsReal
<1>4. InboxRows' /\ RunReportsReal'
  BY <1>1, <1>2 DEF InboxInductive, InboxRows, RunReportsReal
<1>5. RunTakesKept'
  BY <1>1, <1>2 DEF InboxInductive, InboxRows, RunRow, RunTakesKept, ItemPhases, FreePhases, WorkPhases
<1> QED BY <1>3, <1>4, <1>5 DEF InboxInductive

LEMMA SetRunningKeeps ==
    ASSUME InboxInductive, SetRunning
    PROVE  InboxInductive'
<1>1. run' \in RunRow /\ run'.phase = "running" /\ run'.item = run.item /\ run'.todo = run.todo
  BY DEF SetRunning, InboxInductive, InboxRows, RunRow, ItemPhases
<1> QED BY <1>1, InboxStateKeeps DEF SetRunning, ItemPhases

LEMMA KeepResultKeeps ==
    ASSUME InboxInductive, NEW phase, NEW status, KeepResult(phase, status),
           <<phase, status>> \in {<<"keepSucceeded", "succeeded">>, <<"keepFailed", "failed">>}
    PROVE  InboxInductive'
<1>1. run' \in RunRow /\ run'.phase = "queue" /\ run'.item = run.item /\ run'.todo = run.todo
  BY DEF KeepResult, InboxInductive, InboxRows, RunRow, ItemPhases
<1>2. run.phase \in ItemPhases \ {"acknowledge"} /\ status \in Results
  BY DEF KeepResult, ItemPhases, Results
<1>3. status = "succeeded" => delivered[ItemAtHand] = "succeeded"
  BY <1>2, ItemInHand DEF KeepResult, InboxInductive, RunReportsReal
<1> QED BY <1>1, <1>2, <1>3, InboxStateKeeps DEF KeepResult, ItemPhases, Results

LEMMA QueueTelemetryKeeps ==
    ASSUME InboxInductive, QueueTelemetry
    PROVE  InboxInductive'
<1> DEFINE d == ItemAtHand
<1>1. d \in Deliveries /\ inbox[d] \in Results
  BY ItemInHand DEF QueueTelemetry, ItemPhases, InboxInductive, RunReportsReal
<1>2. unsent' \subseteq Deliveries \X Results
  BY <1>1 DEF QueueTelemetry, InboxInductive, InboxRows
<1>3. run' \in RunRow /\ run'.phase = "items" /\ run'.item = {} /\ run'.todo = run.todo
  BY DEF QueueTelemetry, InboxInductive, InboxRows, RunRow, FreePhases
<1>4. UNCHANGED <<delivered, inbox, telemetry, executed, breaks>>
  BY DEF QueueTelemetry
<1>5. InboxRows' /\ AcknowledgedIsKept' /\ SuccessIsReal'
  BY <1>2, <1>3, <1>4 DEF InboxInductive, InboxRows, AcknowledgedIsKept, SuccessIsReal
<1> QED BY <1>3, <1>4, <1>5
        DEF QueueTelemetry, InboxInductive, RunTakesKept, RunReportsReal, ItemPhases, FreePhases, WorkPhases

LEMMA FlushTelemetryKeeps ==
    ASSUME InboxInductive, NEW from \in FreePhases, NEW to \in FreePhases \ {"items"}, NEW stored \in BOOLEAN,
           FlushTelemetry(from, to, stored)
    PROVE  InboxInductive'
<1>1. /\ unsent' \subseteq Deliveries \X Results /\ telemetry' \subseteq Deliveries \X Results
      /\ breaks' \in 0 .. MaxBreaks
  BY InboxAssumption DEF FlushTelemetry, StoredTelemetry, Break, InboxInductive, InboxRows
<1>2. UNCHANGED <<delivered, inbox, executed>>
  BY DEF FlushTelemetry
<1>3. AcknowledgedIsKept' /\ SuccessIsReal'
  BY <1>2 DEF InboxInductive, AcknowledgedIsKept, SuccessIsReal
<1>4. CASE run' = Resting
  BY <1>1, <1>2, <1>3, <1>4, RunRests, RestingFields DEF InboxInductive, InboxRows
<1>5. CASE run' = [run EXCEPT !.phase = to]
  <2>1. run' \in RunRow /\ run'.phase = to /\ run'.item = {}
    BY <1>5 DEF FlushTelemetry, InboxInductive, InboxRows, RunRow, RunTakesKept, FreePhases
  <2> QED BY <1>1, <1>2, <1>3, <2>1
          DEF InboxInductive, InboxRows, RunTakesKept, RunReportsReal, ItemPhases, FreePhases, WorkPhases
<1> QED BY <1>4, <1>5 DEF FlushTelemetry

LEMMA StopRunKeeps ==
    ASSUME InboxInductive, StopRun
    PROVE  InboxInductive'
<1>1. breaks' \in 0 .. MaxBreaks
  BY InboxAssumption DEF StopRun, Break, InboxInductive, InboxRows
<1>2. AcknowledgedIsKept' /\ SuccessIsReal'
  BY DEF StopRun, InboxInductive, AcknowledgedIsKept, SuccessIsReal
<1> QED BY <1>1, <1>2, RunRests, RestingFields DEF StopRun, InboxInductive, InboxRows

\* The server delivers, or takes back what nobody has received.
LEMMA ServerKeeps ==
    ASSUME InboxInductive, NEW d \in Deliveries, NEW state \in Withdrawn, Deliver(d) \/ WithdrawDelivery(d, state)
    PROVE  InboxInductive'
<1>1. UNCHANGED <<inbox, unsent, telemetry, run, executed, breaks>>
  BY DEF Deliver, WithdrawDelivery
<1>2. /\ delivered' \in [Deliveries -> {"none", "pending", "received", "running"} \cup Withdrawn \cup Results]
      /\ delivered[d] \in {"none", "pending"} /\ delivered'[d] \in {"pending"} \cup Withdrawn
      /\ \A e \in Deliveries \ {d} : delivered'[e] = delivered[e]
  BY DEF Deliver, WithdrawDelivery, InboxInductive, InboxRows
<1>3. AcknowledgedIsKept' /\ SuccessIsReal'
  BY <1>1, <1>2 DEF InboxInductive, AcknowledgedIsKept, SuccessIsReal, Withdrawn, Results
<1>4. RunReportsReal'
  BY <1>1, <1>2 DEF InboxInductive, RunReportsReal, InboxRows, RunRow
<1> QED BY <1>1, <1>2, <1>3, <1>4 DEF InboxInductive, InboxRows, RunTakesKept

LEMMA InboxStep ==
    ASSUME InboxInductive, [InboxNext]_inboxVars
    PROVE  InboxInductive'
<1>1. ASSUME RunOnce \/ ResumeInbox \/ ItemsDone \/ Heartbeat \/ ListControlEvents \/ PageDone
      PROVE  InboxInductive'
  <2>1. UNCHANGED <<delivered, inbox, unsent, telemetry, executed, breaks>>
    BY <1>1 DEF RunOnce, ResumeInbox, ItemsDone, Heartbeat, ListControlEvents, PageDone
  <2> QED BY <1>1, <2>1, RunMoves
<1>2. ASSUME NEW stored \in BOOLEAN,
             FlushTelemetry("first", "resume", stored) \/ FlushTelemetry("flush", "idle", stored)
      PROVE  InboxInductive'
  BY <1>2, FlushTelemetryKeeps DEF FreePhases
<1>3. ASSUME NEW d \in Deliveries, AcknowledgeAgain(d) \/ PersistInbox(d)
      PROVE  InboxInductive'
  BY <1>3, AcknowledgeAgainKeeps, PersistInboxKeeps
<1>4. ASSUME KeepResult("keepSucceeded", "succeeded") \/ KeepResult("keepFailed", "failed")
      PROVE  InboxInductive'
  BY <1>4, KeepResultKeeps
<1>5. ASSUME NEW d \in Deliveries, Deliver(d)
      PROVE  InboxInductive'
  BY <1>5, ServerKeeps DEF Withdrawn
<1>6. ASSUME NEW d \in Deliveries, NEW state \in Withdrawn, WithdrawDelivery(d, state)
      PROVE  InboxInductive'
  BY <1>6, ServerKeeps
<1>7. CASE UNCHANGED inboxVars
  BY <1>7 DEF inboxVars, InboxInductive, InboxRows, AcknowledgedIsKept, SuccessIsReal, RunTakesKept, RunReportsReal
<1> QED
  BY <1>1, <1>2, <1>3, <1>4, <1>5, <1>6, <1>7, SetRunningKeeps, ReportRunningKeeps, ExecuteKeeps, ReportSucceededKeeps,
     ReportFailedKeeps, QueueTelemetryKeeps, AcknowledgeReceivedKeeps, StopRunKeeps
     DEF InboxNext, AgentStep

\* The inductive invariant holds throughout.
THEOREM InboxSafe == InboxSpec => []InboxInductive
BY InboxStarts, InboxStep, PTL DEF InboxSpec

\* receiveControlEvents, execute: whatever calls are lost and wherever the process
\* stops, a delivery the server takes as received is on the host's disk, one
\* recorded as succeeded was executed, and one the host has done with is recorded.
THEOREM InboxKeepsItsDeliveries == InboxSpec => []InboxInvariant
BY InboxSafe, InboxInductiveIsEnough, PTL

LEMMA SuccessStays ==
    ASSUME InboxInductive, [InboxNext]_inboxVars
    PROVE  \A d \in Deliveries : delivered[d] = "succeeded" => delivered'[d] = "succeeded"
<1>0. delivered \in [Deliveries -> {"none", "pending", "received", "running"} \cup Withdrawn \cup Results]
  BY DEF InboxInductive, InboxRows
<1>1. ASSUME NEW d \in Deliveries, delivered' = [delivered EXCEPT ![d] = AcknowledgedState(@)]
      PROVE  \A e \in Deliveries : delivered[e] = "succeeded" => delivered'[e] = "succeeded"
  BY <1>0, <1>1 DEF AcknowledgedState
<1>2. ASSUME NEW d \in Deliveries, NEW status, delivered' = [delivered EXCEPT ![d] = Reported(@, status)]
      PROVE  \A e \in Deliveries : delivered[e] = "succeeded" => delivered'[e] = "succeeded"
  BY <1>0, <1>2 DEF Reported
<1>3. ASSUME NEW d \in Deliveries, Deliver(d) \/ \E state \in Withdrawn : WithdrawDelivery(d, state)
      PROVE  \A e \in Deliveries : delivered[e] = "succeeded" => delivered'[e] = "succeeded"
  BY <1>0, <1>3 DEF Deliver, WithdrawDelivery
<1>4. CASE delivered' = delivered
  BY <1>4
<1>5. CASE ReportRunning \/ ReportSucceeded \/ ReportFailed
  BY <1>2, <1>5, ItemInHand DEF ReportRunning, ReportSucceeded, ReportFailed, ItemPhases
<1>6. CASE AcknowledgeReceived
  BY <1>1, <1>6, ItemInHand DEF AcknowledgeReceived, ItemPhases
<1>7. ASSUME NEW d \in Deliveries, AcknowledgeAgain(d)
      PROVE  \A e \in Deliveries : delivered[e] = "succeeded" => delivered'[e] = "succeeded"
  BY <1>1, <1>7 DEF AcknowledgeAgain
<1>8. ASSUME \/ RunOnce \/ ResumeInbox \/ ItemsDone \/ SetRunning \/ Execute(TRUE) \/ Execute(FALSE)
             \/ QueueTelemetry \/ Heartbeat \/ ListControlEvents \/ PageDone \/ StopRun
             \/ KeepResult("keepSucceeded", "succeeded") \/ KeepResult("keepFailed", "failed")
             \/ \E stored \in BOOLEAN : \/ FlushTelemetry("first", "resume", stored)
                                        \/ FlushTelemetry("flush", "idle", stored)
             \/ \E d \in Deliveries : PersistInbox(d)
             \/ UNCHANGED inboxVars
      PROVE  delivered' = delivered
  BY <1>8 DEF RunOnce, ResumeInbox, ItemsDone, SetRunning, Execute, QueueTelemetry, Heartbeat, ListControlEvents,
              PageDone, StopRun, KeepResult, FlushTelemetry, PersistInbox, inboxVars
<1> QED BY <1>3, <1>4, <1>5, <1>6, <1>7, <1>8 DEF InboxNext, AgentStep

LEMMA UnsentStaysOrArrives ==
    ASSUME [InboxNext]_inboxVars
    PROVE  \A e \in unsent : e \in unsent' \cup telemetry'
<1>1. ASSUME NEW from, NEW to, NEW stored \in BOOLEAN, FlushTelemetry(from, to, stored)
      PROVE  \A e \in unsent : e \in unsent' \cup telemetry'
  BY <1>1 DEF FlushTelemetry, StoredTelemetry
<1>2. ASSUME QueueTelemetry
      PROVE  \A e \in unsent : e \in unsent' \cup telemetry'
  BY <1>2 DEF QueueTelemetry
<1>3. ASSUME \/ RunOnce \/ ResumeInbox \/ ItemsDone \/ SetRunning \/ Execute(TRUE) \/ Execute(FALSE)
             \/ ReportRunning \/ ReportSucceeded \/ ReportFailed
             \/ AcknowledgeReceived \/ Heartbeat \/ ListControlEvents \/ PageDone \/ StopRun
             \/ KeepResult("keepSucceeded", "succeeded") \/ KeepResult("keepFailed", "failed")
             \/ \E d \in Deliveries : PersistInbox(d) \/ AcknowledgeAgain(d)
             \/ \E d \in Deliveries : Deliver(d) \/ \E state \in Withdrawn : WithdrawDelivery(d, state)
             \/ UNCHANGED inboxVars
      PROVE  unsent' = unsent
  BY <1>3 DEF RunOnce, ResumeInbox, ItemsDone, SetRunning, Execute, ReportRunning, ReportSucceeded, ReportFailed,
              AcknowledgeReceived, Heartbeat, ListControlEvents, PageDone, StopRun, KeepResult, PersistInbox,
              AcknowledgeAgain, Deliver, WithdrawDelivery, inboxVars
<1>4. CASE unsent' = unsent
  BY <1>4
<1> QED BY <1>1, <1>2, <1>3, <1>4 DEF InboxNext, AgentStep

\* reportUserSessionDeliveryResult: a recorded success never changes, whatever is
\* acknowledged or reported again after a lost answer or a restart.
THEOREM SuccessNeverChanges == InboxSpec => SuccessIsImmutable
<1>1. InboxInductive /\ [InboxNext]_inboxVars =>
          [\A d \in Deliveries : delivered[d] = "succeeded" => delivered'[d] = "succeeded"]_inboxVars
  BY SuccessStays
<1> QED BY <1>1, InboxSafe, PTL DEF InboxSpec, SuccessIsImmutable

\* flushTelemetry, removeTelemetry: no event leaves the outbox before the server has it.
THEOREM TelemetryArrives == InboxSpec => TelemetryIsNotLost
<1>1. [InboxNext]_inboxVars => [\A e \in unsent : e \in unsent' \cup telemetry']_inboxVars
  BY UnsentStaysOrArrives
<1> QED BY <1>1, PTL DEF InboxSpec, TelemetryIsNotLost

------------------------------------------------------------------------------
(* Evidence about the fleet: the inductive invariant                       *)

EvidenceRow == [snapshot : Snapshots, age : {"recent", "fresh", "old"}, pods : SUBSET Pods]

\* As many pods as the Deployment asks for.
FullRoster(pods) == Cardinality(pods) = Cardinality(FirstPods)

\* At most one.
Single(S) == \A a, b \in S : a = b

ObservationRows ==
    {NoObservation} \cup [phase : {"roster"}, snapshot : Snapshots]
    \cup [phase : {"dump"}, snapshot : Snapshots, pods : SUBSET Pods, left : SUBSET Pods]

EvidenceKept(es) == es \subseteq EvidenceRow /\ Single(es) /\ \A e \in es : FullRoster(e.pods)

\* A pod that has the observed snapshot now has been seen to match; the dumps
\* that are done were of pods that matched.
DumpsMatched ==
    /\ observation.phase # "idle" =>
           \A p \in Pods : Matches(loaded[p], observation.snapshot) => p \in matched
    /\ observation.phase = "dump" =>
           observation.pods \ observation.left \subseteq matched /\ FullRoster(observation.pods)

FleetInductive ==
    /\ wanted \in Snapshots /\ observation \in ObservationRows
    /\ EvidenceKept(evidence) /\ EvidenceKept(routeReady)
    /\ DumpsMatched

LEMMA NoObservationIdle == NoObservation.phase = "idle"
BY DEF NoObservation

LEMMA SingleIsSmall ==
    ASSUME NEW S, Single(S)
    PROVE  Cardinality(S) <= 1
<1>1. CASE S = {}
  BY <1>1, FS_EmptySet
<1>2. CASE S # {}
  <2>1. PICK x : S = {x}
    BY <1>2 DEF Single
  <2>2. Cardinality({x}) = 1
    BY FS_Singleton
  <2> QED BY <2>1, <2>2
<1> QED BY <1>1, <1>2

LEMMA FleetInductiveIsEnough == FleetInductive => FleetTypeOK
<1> SUFFICES ASSUME FleetInductive PROVE FleetTypeOK
    OBVIOUS
<1>1. Cardinality(evidence) <= 1 /\ Cardinality(routeReady) <= 1
  BY SingleIsSmall DEF FleetInductive, EvidenceKept
<1>2. observation.phase \in {"idle", "roster", "dump"}
  BY NoObservationIdle DEF FleetInductive, ObservationRows
<1> QED BY <1>1, <1>2 DEF FleetInductive, EvidenceKept, FullRoster, FleetTypeOK

LEMMA FleetStarts == FleetInit => FleetInductive
BY NoObservationIdle DEF FleetInit, FleetInductive, ObservationRows, EvidenceKept, Single, DumpsMatched

LEMMA GiveUpKeeps ==
    ASSUME FleetInductive, GiveUp, UNCHANGED <<wanted, routeReady>>
    PROVE  FleetInductive'
BY NoObservationIdle DEF GiveUp, FleetInductive, ObservationRows, EvidenceKept, Single, DumpsMatched

LEMMA LoadKeeps ==
    ASSUME FleetInductive, NEW p \in Pods, NEW l, Load(p, l)
    PROVE  FleetInductive'
<1>1. UNCHANGED <<wanted, observation, evidence, routeReady>>
  BY DEF Load
<1>2. observation.phase # "idle" =>
          /\ matched \subseteq matched'
          /\ \A q \in Pods : Matches(loaded'[q], observation.snapshot) => q \in matched'
  BY DEF Load, Note
<1>3. DumpsMatched'
  BY <1>1, <1>2 DEF FleetInductive, DumpsMatched
<1> QED BY <1>1, <1>3 DEF FleetInductive, EvidenceKept, Single

LEMMA AgesKeep ==
    ASSUME FleetInductive, EvidenceAges
    PROVE  FleetInductive' /\ \A e \in evidence' : e.age # "recent"
<1> DEFINE aged(e) == [e EXCEPT !.age = IF @ = "recent" THEN "fresh" ELSE "old"]
<1>1. \A e \in evidence : aged(e) \in EvidenceRow /\ aged(e).pods = e.pods /\ aged(e).age # "recent"
  BY DEF FleetInductive, EvidenceKept, EvidenceRow
<1>2. evidence' = {aged(e) : e \in evidence}
  BY DEF EvidenceAges
<1> HIDE DEF aged
<1>3. EvidenceKept(evidence')
  <2>1. evidence' \subseteq EvidenceRow /\ \A e \in evidence' : FullRoster(e.pods)
    BY <1>1, <1>2 DEF FleetInductive, EvidenceKept
  <2>2. Single(evidence')
    BY <1>2 DEF FleetInductive, EvidenceKept, Single
  <2> QED BY <2>1, <2>2 DEF EvidenceKept
<1>4. UNCHANGED <<wanted, observation, routeReady, loaded, matched>>
  BY DEF EvidenceAges
<1>5. DumpsMatched' /\ EvidenceKept(routeReady)'
  BY <1>4 DEF FleetInductive, DumpsMatched, EvidenceKept, Single
<1> QED BY <1>1, <1>2, <1>3, <1>4, <1>5 DEF FleetInductive

LEMMA BeginKeeps ==
    ASSUME FleetInductive, BeginObservation
    PROVE  FleetInductive'
<1> DEFINE row == [phase |-> "roster", snapshot |-> wanted]
<1>1. row \in ObservationRows /\ row.phase = "roster" /\ row.snapshot = wanted
  BY DEF FleetInductive, ObservationRows
<1> HIDE DEF row
<1>2. observation' = row /\ matched' = {p \in Pods : Matches(loaded[p], wanted)}
      /\ UNCHANGED <<wanted, evidence, routeReady, loaded>>
  BY DEF BeginObservation, row
<1>3. DumpsMatched'
  BY <1>1, <1>2 DEF DumpsMatched
<1> QED BY <1>1, <1>2, <1>3 DEF FleetInductive, EvidenceKept, Single

LEMMA ReadRosterKeeps ==
    ASSUME FleetInductive, ReadRoster
    PROVE  FleetInductive'
<1>1. UNCHANGED <<wanted, routeReady, loaded, matched>>
  BY DEF ReadRoster
<1>2. CASE ~RosterOK
  BY <1>1, <1>2, GiveUpKeeps DEF ReadRoster
<1>3. CASE RosterOK
  <2> DEFINE row == [phase |-> "dump", snapshot |-> observation.snapshot, pods |-> Roster, left |-> Roster]
  <2>0. observation.phase = "roster" /\ observation.snapshot \in Snapshots
    BY NoObservationIdle DEF ReadRoster, FleetInductive, ObservationRows
  <2>1. /\ row \in ObservationRows /\ row.phase = "dump" /\ row.snapshot = observation.snapshot
        /\ row.pods = Roster /\ row.left = Roster
    BY <2>0 DEF ObservationRows, Roster
  <2> HIDE DEF row
  <2>2. observation' = row /\ evidence' = evidence
    BY <1>3 DEF ReadRoster, row
  <2>3. FullRoster(Roster)
    BY <1>3 DEF RosterOK, FullRoster
  <2>4. DumpsMatched'
    BY <1>1, <2>0, <2>1, <2>2, <2>3 DEF FleetInductive, DumpsMatched
  <2> QED BY <1>1, <2>1, <2>2, <2>4 DEF FleetInductive, EvidenceKept, Single
<1> QED BY <1>2, <1>3

LEMMA DumpKeeps ==
    ASSUME FleetInductive, NEW p \in Pods, Dump(p)
    PROVE  FleetInductive'
<1>1. UNCHANGED <<wanted, routeReady, loaded, matched>>
  BY DEF Dump
<1> DEFINE done == podState[p] # "gone" /\ PodVerified(loaded[p], observation.snapshot)
<1>2. CASE ~done
  BY <1>1, <1>2, GiveUpKeeps DEF Dump
<1>3. CASE done
  <2>1. observation' = [observation EXCEPT !.left = @ \ {p}] /\ evidence' = evidence
    BY <1>3 DEF Dump
  <2>2. observation \in [phase : {"dump"}, snapshot : Snapshots, pods : SUBSET Pods, left : SUBSET Pods]
    BY NoObservationIdle DEF Dump, FleetInductive, ObservationRows
  <2>3. /\ observation' \in [phase : {"dump"}, snapshot : Snapshots, pods : SUBSET Pods, left : SUBSET Pods]
        /\ observation'.snapshot = observation.snapshot /\ observation'.pods = observation.pods
        /\ observation'.left = observation.left \ {p}
    BY <2>1, <2>2
  <2>4. p \in matched
    BY <1>3, <2>2 DEF FleetInductive, DumpsMatched, PodVerified
  <2>5. DumpsMatched'
    BY <1>1, <2>2, <2>3, <2>4 DEF FleetInductive, DumpsMatched
  <2> QED BY <1>1, <2>1, <2>3, <2>5 DEF FleetInductive, ObservationRows, EvidenceKept, Single
<1> QED BY <1>2, <1>3

\* What a concluded observation issues.
LEMMA ConcludeKeeps ==
    ASSUME FleetInductive, Conclude
    PROVE  /\ FleetInductive'
           /\ \A e \in evidence' \ evidence : e.pods = Fleet /\ e.pods \subseteq matched /\ e.snapshot = wanted
<1>1. UNCHANGED <<wanted, routeReady, loaded, matched>>
  BY DEF Conclude
<1> DEFINE good == SameRoster(observation.pods) /\ wanted = observation.snapshot
<1>2. CASE ~good
  <2>1. GiveUp
    BY <1>2 DEF Conclude
  <2> QED BY <1>1, <2>1, GiveUpKeeps DEF GiveUp
<1>3. CASE good
  <2> DEFINE row == [snapshot |-> wanted, age |-> "recent", pods |-> observation.pods]
  <2>0. /\ observation.pods = Roster /\ Roster = Fleet /\ FullRoster(observation.pods)
        /\ observation.pods \subseteq matched
    BY <1>3 DEF SameRoster, RosterOK, Conclude, FleetInductive, DumpsMatched
  <2>1. row \in EvidenceRow /\ row.snapshot = wanted /\ row.pods = observation.pods
    BY <2>0 DEF EvidenceRow, FleetInductive, Roster
  <2> HIDE DEF row
  <2>2. evidence' = {row} /\ observation' = NoObservation
    BY <1>3 DEF Conclude, row
  <2>3. FleetInductive'
    BY <1>1, <2>0, <2>1, <2>2, NoObservationIdle
       DEF FleetInductive, ObservationRows, EvidenceKept, Single, DumpsMatched
  <2> QED BY <2>0, <2>1, <2>2, <2>3
<1> QED BY <1>2, <1>3

LEMMA RestKeeps ==
    ASSUME FleetInductive,
           \/ RouteStatus \/ UNCHANGED fleetVars
           \/ \E s \in Snapshots : MoveSnapshot(s)
           \/ \E p \in Pods : \E from, to \in {"new", "starting", "ready", "terminating", "gone"} : MovePod(p, from, to)
    PROVE  FleetInductive' /\ evidence' = evidence
<1>1. UNCHANGED <<observation, evidence, loaded, matched>> /\ wanted' \in Snapshots
      /\ routeReady' \in {routeReady, {e \in evidence : FreshEvidence(e, wanted)}}
  BY DEF RouteStatus, fleetVars, MoveSnapshot, MovePod, FleetInductive
<1>2. EvidenceKept(routeReady')
  BY <1>1 DEF FleetInductive, EvidenceKept, Single
<1>3. DumpsMatched'
  BY <1>1 DEF FleetInductive, DumpsMatched
<1> QED BY <1>1, <1>2, <1>3 DEF FleetInductive

LEMMA FleetStep ==
    ASSUME FleetInductive, [FleetNext]_fleetVars
    PROVE  /\ FleetInductive'
           /\ \A e \in evidence' \ evidence :
                  e.age = "recent" => e.pods = Fleet /\ e.pods \subseteq matched /\ e.snapshot = wanted
<1> DEFINE Goal == /\ FleetInductive'
                   /\ \A e \in evidence' \ evidence :
                          e.age = "recent" => e.pods = Fleet /\ e.pods \subseteq matched /\ e.snapshot = wanted
<1> SUFFICES Goal
    OBVIOUS
<1>1. CASE EvidenceAges
  BY <1>1, AgesKeep
<1>2. CASE BeginObservation
  BY <1>2, BeginKeeps DEF BeginObservation
<1>3. CASE ReadRoster
  BY <1>3, ReadRosterKeeps DEF ReadRoster, GiveUp
<1>4. CASE Conclude
  BY <1>4, ConcludeKeeps
<1>5. CASE RouteStatus \/ UNCHANGED fleetVars \/ \E s \in Snapshots : MoveSnapshot(s)
  BY <1>5, RestKeeps
<1>6. ASSUME NEW p \in Pods, LoadRoutes(p) \/ LoadPlugins(p)
      PROVE  Goal
  <2>1. PICK l : Load(p, l)
    BY <1>6 DEF LoadRoutes, LoadPlugins
  <2> QED BY <2>1, LoadKeeps DEF Load
<1>7. ASSUME NEW p \in Pods, Dump(p)
      PROVE  Goal
  BY <1>7, DumpKeeps DEF Dump, GiveUp
<1>8. ASSUME NEW p \in Pods,
             \/ MovePod(p, "new", "starting") \/ MovePod(p, "starting", "ready")
             \/ MovePod(p, "ready", "terminating") \/ MovePod(p, "terminating", "gone")
      PROVE  Goal
  BY <1>8, RestKeeps
<1> HIDE DEF Goal
<1> QED BY <1>1, <1>2, <1>3, <1>4, <1>5, <1>6, <1>7, <1>8 DEF FleetNext

\* The inductive invariant holds throughout.
THEOREM FleetSafe == FleetSpec => []FleetInductive
<1>1. FleetInductive /\ [FleetNext]_fleetVars => FleetInductive'
  BY FleetStep
<1> QED BY <1>1, FleetStarts, PTL DEF FleetSpec

\* Fleet.Observe, Runtime.observeDataPlane: at most one piece of evidence is kept,
\* and it is about as many pods as the Deployment asks for.
THEOREM EvidenceIsOfAFullRoster == FleetSpec => []FleetTypeOK
BY FleetSafe, FleetInductiveIsEnough, PTL

\* Fleet.Observe: evidence is issued only when the fleet consists of exactly the
\* observed pods and each of them had the snapshot loaded during the observation,
\* whatever is replaced, loaded or moved between the two rosters.
THEOREM EvidenceIsGenuine == FleetSpec => EvidenceIsReal
<1>1. FleetInductive /\ [FleetNext]_fleetVars =>
          [\A e \in evidence' \ evidence :
              e.age = "recent" => e.pods = Fleet /\ e.pods \subseteq matched /\ e.snapshot = wanted]_fleetVars
  BY FleetStep
<1> QED BY <1>1, FleetSafe, PTL DEF FleetSpec, EvidenceIsReal

------------------------------------------------------------------------------
(* The parts of a deployment side by side.                                 *)

\* The tables of the run are tables a deployment may start from.
LEMMA FirstTablesTyped ==
    ASSUME DelegationStart(FirstRoles, FirstTeams, FirstMembers)
    PROVE  DelegationInit
<1> DEFINE RoleRows   == [here : BOOLEAN, enabled : BOOLEAN, perms : SUBSET Permissions]
           TeamRows   == [here : BOOLEAN, enabled : BOOLEAN, defaults : SUBSET Roles]
           MemberRows == [here : BOOLEAN, roles : SUBSET Roles, teams : SUBSET Teams]
<1>1. roles = FirstRoles /\ teams = FirstTeams /\ members = FirstMembers /\ commits = 0
  BY DEF DelegationStart
<1>2. roles \in [Roles -> RoleRows] /\ roles["lead"].here /\ roles["spare"].here
  BY <1>1, FirstAssumption DEF FirstRoles, NoRoleRow
<1>3. /\ teams \in [Teams -> TeamRows] /\ teams["a"].here /\ teams["b"].here
      /\ \A t \in Teams : teams[t].defaults \subseteq {"spare"}
  BY <1>1, FirstAssumption DEF FirstTeams
<1>4. /\ members \in [People -> MemberRows]
      /\ \A u \in People : members[u].roles \subseteq {"lead"} /\ members[u].teams \subseteq {"a", "b"}
  BY <1>1, FirstAssumption DEF FirstMembers, NoMember
<1>5. given \subseteq Permissions
  <2>1. \A r \in Roles : roles[r].perms \subseteq Permissions
    BY <1>2
  <2>2. \A m : PermissionsHeld(roles, teams, m) \subseteq Permissions
    BY <2>1 DEF PermissionsHeld, RolesHeld
  <2>3. given = (UNION {PermissionsHeld(roles, teams, members[u]) : u \in People \ Administrators})
               \cup (UNION {roles[r].perms : r \in Roles \ BuiltIn})
    BY <1>1 DEF DelegationStart
  <2> QED BY <2>1, <2>2, <2>3
<1>6. commits \in 0 .. MaxCommits
  BY <1>1, DelegationAssumption
<1>7. DelegationTypeOK
  BY <1>2, <1>3, <1>4, <1>5, <1>6 DEF DelegationTypeOK
<1>8. DelegationStart(roles, teams, members)
  BY <1>1 DEF DelegationStart
<1> QED BY <1>7, <1>8 DEF DelegationInit

\* A behaviour of the parts is one of each of them.
LEMMA PartsKeepToTheirSpecs ==
    ResourcesSpec => /\ DelegationSpec /\ AgentSpec /\ SyncSpec /\ InboxSpec
                     /\ PublisherSpec /\ CacheSpec /\ FleetSpec
<1> DEFINE allVars == <<part, delegationVars, agentVars, assetVars, skillVars, inboxVars, publisherVars,
                        cacheVars, credentialVars, gatewayVars>>
           Calm    == part # "secrets" => quiet = [p \in Publishers |-> FALSE]
<1>1. ResourcesInit => /\ DelegationInit /\ AgentInit /\ SyncInit /\ InboxInit /\ PublisherInit
                       /\ CacheInit /\ FleetInit /\ Calm
  BY FirstTablesTyped DEF ResourcesInit, PublisherInit
<1>2. [ResourcesNext]_allVars =>
          [DelegationNext]_delegationVars /\ [AgentNext]_agentVars /\ [SyncNext]_<<registryVars, syncVars>>
  BY DEF ResourcesNext, skillVars
<1>3. [ResourcesNext]_allVars => [InboxNext]_inboxVars /\ [FleetNext]_fleetVars
  BY DEF ResourcesNext, gatewayVars
<1>4. Calm /\ [ResourcesNext]_allVars =>
          /\ [PublisherNext]_<<publisherVars, credentialVars>> /\ [CacheNext]_<<cacheVars, credentialVars>>
          /\ Calm'
  <2>1. ASSUME UNCHANGED allVars, Calm
        PROVE  UNCHANGED <<publisherVars, credentialVars>> /\ UNCHANGED <<cacheVars, credentialVars>> /\ Calm'
    BY <2>1 DEF publisherVars
  <2> QED BY <2>1, ResourceStepsAreTheirs
<1> HIDE DEF Calm
<1> QED BY <1>1, <1>2, <1>3, <1>4, PTL
        DEF ResourcesSpec, DelegationSpec, AgentSpec, SyncSpec, InboxSpec, PublisherSpec, CacheSpec, FleetSpec

\* In every part of the deployment: no delegate gives what it does not hold, no recorded
\* success changes, no telemetry is lost, no Secret of another owner is touched, and
\* evidence is of a fleet that matched.
THEOREM ResourceStepsHold == ResourcesSpec => ResourceSteps
<1>1. DelegationSpec => DelegatesGiveWhatTheyHold
  BY DelegatesGiveTheirOwn
<1>2. (InboxSpec => SuccessIsImmutable) /\ (InboxSpec => TelemetryIsNotLost)
  BY SuccessNeverChanges, TelemetryArrives
<1>3. PublisherSpec => ForeignSecretsUntouched
  BY ForeignSecretsStay
<1>4. (FleetSpec => EvidenceIsReal) /\ (FleetSpec => []FleetTypeOK)
  BY EvidenceIsGenuine, EvidenceIsOfAFullRoster
<1> QED BY <1>1, <1>2, <1>3, <1>4, PartsKeepToTheirSpecs, PTL DEF ResourceSteps

\* The invariants of delegation, agents, skills and the inbox hold of the parts side by side.
THEOREM ResourcesAreSafe == ResourcesSpec => [](DelegationInvariant /\ AgentInvariant /\ SkillInvariant /\ InboxInvariant)
<1>1. (DelegationSpec => []DelegationInvariant) /\ (AgentSpec => []AgentInvariant)
  BY DelegationCorrect, AgentsStayInScope
<1>2. (SyncSpec => []SkillInvariant) /\ (InboxSpec => []InboxInvariant)
  BY SkillsAreInstalled, InboxKeepsItsDeliveries
<1> QED BY <1>1, <1>2, PartsKeepToTheirSpecs, PTL
==============================================================================
