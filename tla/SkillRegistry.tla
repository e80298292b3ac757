---------------------------- MODULE SkillRegistry ----------------------------
(***************************************************************************)
(* Skills, their versions and packages, and who is assigned them           *)
(* (control-service httpapi/skill_handlers.go, repository/resources.go).   *)
(*                                                                         *)
(* A package lives in the blob store under the key made of its skill, its  *)
(* version and its digest; the row of the version names the key. The two   *)
(* are written and removed one after the other, never together. A digest   *)
(* is the package itself here. The grants are those that reach one user,   *)
(* one per skill; whether a subject lives is in SubjectGrants.             *)
(***************************************************************************)
EXTENDS Naturals, FiniteSets

CONSTANTS
    SkillIds,
    Versions,
    Packages,   \* the normalised archives
    FirstGrant, \* the skills the user is assigned at the start
    MaxEdits    \* bound on the writes of administrators

ASSUME RegistryAssumption ==
    /\ FirstGrant \subseteq SkillIds
    /\ MaxEdits \in Nat

VARIABLES
    skills,       \* [here, enabled] by skill
    versionRows,  \* skill_versions: <<skill, version>> to [key, rank]
    blobs,        \* the keys the blob store holds
    assigned,     \* skill_assignments: "none", "live" or "expired" by skill
    uploads,      \* keys whose package is stored and whose row is not
    withdrawals,  \* versions being deleted: [of, key, gone]
    publishes,    \* how many publications there have been: published_at
    clashed,      \* auxiliary: the keys that were uploaded and withdrawn at once
    edits

registryVars == <<skills, versionRows, blobs, assigned, uploads, withdrawals, publishes, clashed, edits>>

Keys3   == SkillIds \X Versions \X Packages
NoSkill == [here |-> FALSE, enabled |-> FALSE]

\* A version row is stored for <<s, v>>.
Stored(s, v) == <<s, v>> \in DOMAIN versionRows

Edit == edits < MaxEdits /\ edits' = edits + 1

\* Auxiliary: keys in an upload and in a withdrawal at the same time.
Clash(ups, wds) == {k \in Keys3 : k \in ups /\ \E w \in wds : w.key = k}

RegistryTypeOK ==
    /\ skills \in [SkillIds -> [here : BOOLEAN, enabled : BOOLEAN]]
    /\ DOMAIN versionRows \subseteq SkillIds \X Versions
    /\ \A x \in DOMAIN versionRows : /\ versionRows[x].key \in Keys3
                                     /\ versionRows[x].rank \in 0 .. publishes
    /\ blobs \subseteq Keys3 /\ uploads \subseteq Keys3 /\ clashed \subseteq Keys3
    /\ assigned \in [SkillIds -> {"none", "live", "expired"}]
    /\ withdrawals \subseteq [of : SkillIds \X Versions, key : Keys3, gone : BOOLEAN]
    /\ edits \in 0 .. MaxEdits /\ publishes \in 0 .. MaxEdits

\* Before any version is uploaded: the skills exist and some are assigned.
RegistryInit ==
    /\ skills = [s \in SkillIds |-> [here |-> TRUE, enabled |-> TRUE]]
    /\ versionRows = <<>>
    /\ blobs = {}
    /\ assigned = [s \in SkillIds |-> IF s \in FirstGrant THEN "live" ELSE "none"]
    /\ uploads = {} /\ withdrawals = {} /\ clashed = {}
    /\ publishes = 0 /\ edits = 0

-----------------------------------------------------------------------------
(* Skills. *)

CreateSkill(s) ==
    /\ Edit
    /\ ~skills[s].here
    /\ skills' = [skills EXCEPT ![s] = [here |-> TRUE, enabled |-> TRUE]]
    /\ UNCHANGED <<versionRows, blobs, assigned, uploads, withdrawals, publishes, clashed>>

UpdateSkill(s, on) ==
    /\ Edit
    /\ skills[s].here
    /\ skills' = [skills EXCEPT ![s].enabled = on]
    /\ UNCHANGED <<versionRows, blobs, assigned, uploads, withdrawals, publishes, clashed>>

\* DeleteSkill: refused while assigned unless forced; the rows cascade, the
\* packages stay in the blob store.
DeleteSkill(s, force) ==
    /\ Edit
    /\ skills[s].here
    /\ force \/ assigned[s] = "none"
    /\ skills' = [skills EXCEPT ![s] = NoSkill]
    /\ assigned' = [assigned EXCEPT ![s] = "none"]
    /\ versionRows' = [x \in {y \in DOMAIN versionRows : y[1] # s} |-> versionRows[x]]
    /\ UNCHANGED <<blobs, uploads, withdrawals, publishes, clashed>>

-----------------------------------------------------------------------------
(* Versions. *)

\* uploadSkillVersion up to the blob store.
PutPackage(k) ==
    /\ Edit
    /\ k \notin uploads
    /\ blobs' = blobs \cup {k}
    /\ uploads' = uploads \cup {k}
    /\ clashed' = clashed \cup Clash(uploads', withdrawals)
    /\ UNCHANGED <<skills, versionRows, assigned, withdrawals, publishes>>

\* The row a version gets: a version uploaded again keeps its publication.
Upserted(k) ==
    [x \in DOMAIN versionRows \cup {<<k[1], k[2]>>} |->
        IF x # <<k[1], k[2]>> THEN versionRows[x]
        ELSE IF x \in DOMAIN versionRows THEN [versionRows[x] EXCEPT !.key = k]
        ELSE [key |-> k, rank |-> 0]]

\* UpsertSkillVersion: refused by the foreign key when the skill is gone.
UpsertSkillVersion(k) ==
    /\ k \in uploads
    /\ uploads' = uploads \ {k}
    /\ versionRows' = IF skills[k[1]].here THEN Upserted(k) ELSE versionRows
    /\ UNCHANGED <<skills, blobs, assigned, withdrawals, publishes, clashed, edits>>

PublishSkillVersion(s, v) ==
    /\ Edit
    /\ Stored(s, v)
    /\ publishes' = publishes + 1
    /\ versionRows' = [versionRows EXCEPT ![<<s, v>>].rank = publishes + 1]
    /\ UNCHANGED <<skills, blobs, assigned, uploads, withdrawals, clashed>>

\* DeleteSkillVersion reads the row for its key ...
ReadVersion(s, v) ==
    /\ Edit
    /\ Stored(s, v)
    /\ withdrawals' = withdrawals \cup
                        {[of |-> <<s, v>>, key |-> versionRows[<<s, v>>].key, gone |-> FALSE]}
    /\ clashed' = clashed \cup Clash(uploads, withdrawals')
    /\ UNCHANGED <<skills, versionRows, blobs, assigned, uploads, publishes>>

\* ... deletes whatever row the version has by now, or finds none ...
DeleteVersionRow(w) ==
    /\ w \in withdrawals /\ ~w.gone
    /\ versionRows' = [x \in DOMAIN versionRows \ {w.of} |-> versionRows[x]]
    /\ withdrawals' = (withdrawals \ {w}) \cup
                        (IF w.of \in DOMAIN versionRows THEN {[w EXCEPT !.gone = TRUE]} ELSE {})
    /\ UNCHANGED <<skills, blobs, assigned, uploads, publishes, clashed, edits>>

\* The row is gone: only now may the package go.
RowGone(w) == w \in withdrawals /\ w.gone

\* ... and deleteSkillVersion removes the package under the key it read, or
\* fails to.
DeletePackage(w, ok) ==
    /\ RowGone(w)
    /\ withdrawals' = withdrawals \ {w}
    /\ blobs' = IF ok THEN blobs \ {w.key} ELSE blobs
    /\ UNCHANGED <<skills, versionRows, assigned, uploads, publishes, clashed, edits>>

-----------------------------------------------------------------------------
(* Grants. *)

\* createSkillAssignment: one per skill and subject, an expired one included.
CreateSkillAssignment(s) ==
    /\ Edit
    /\ skills[s].here /\ assigned[s] = "none"
    /\ assigned' = [assigned EXCEPT ![s] = "live"]
    /\ UNCHANGED <<skills, versionRows, blobs, uploads, withdrawals, publishes, clashed>>

DeleteSkillAssignment(s) ==
    /\ Edit
    /\ assigned[s] # "none"
    /\ assigned' = [assigned EXCEPT ![s] = "none"]
    /\ UNCHANGED <<skills, versionRows, blobs, uploads, withdrawals, publishes, clashed>>

\* updateSkillAssignment, and the expiry passing by itself.
UpdateSkillAssignment(s, state) ==
    /\ Edit
    /\ assigned[s] \notin {"none", state}
    /\ assigned' = [assigned EXCEPT ![s] = state]
    /\ UNCHANGED <<skills, versionRows, blobs, uploads, withdrawals, publishes, clashed>>

-----------------------------------------------------------------------------
(* What the user is served. *)

\* skillEffectivenessQuery.
Effective(s, v) ==
    /\ skills[s].here /\ skills[s].enabled
    /\ Stored(s, v) /\ versionRows[<<s, v>>].rank > 0
    /\ assigned[s] = "live"

\* skillManifestQuery: the version published last of every effective skill.
Latest(s) ==
    CHOOSE v \in Versions :
        /\ Effective(s, v)
        /\ \A u \in Versions : Effective(s, u) => versionRows[<<s, u>>].rank <= versionRows[<<s, v>>].rank

\* skillManifest: skill to the key of its package. Its digest is the revision
\* and the ETag, so manifests are the same exactly when their ETags are.
SkillManifest ==
    [s \in {t \in SkillIds : \E v \in Versions : Effective(t, v)} |-> versionRows[<<s, Latest(s)>>].key]

\* downloadSkillPackage: the package the version has now, or nothing.
DownloadSkillPackage(s, v) ==
    IF Effective(s, v) THEN {versionRows[<<s, v>>].key} \cap blobs ELSE {}

RegistryNext ==
    \/ \E s \in SkillIds :
           \/ CreateSkill(s) \/ CreateSkillAssignment(s) \/ DeleteSkillAssignment(s)
           \/ \E b \in BOOLEAN : UpdateSkill(s, b) \/ DeleteSkill(s, b)
           \/ \E g \in {"live", "expired"} : UpdateSkillAssignment(s, g)
           \/ \E v \in Versions : PublishSkillVersion(s, v) \/ ReadVersion(s, v)
    \/ \E k \in Keys3 : PutPackage(k) \/ UpsertSkillVersion(k)
    \/ \E w \in withdrawals : DeleteVersionRow(w) \/ \E ok \in BOOLEAN : DeletePackage(w, ok)

-----------------------------------------------------------------------------
(* Properties. *)

\* uploadSkillVersion, deleteSkillVersion: the package of every version row is
\* in the blob store, so whatever the manifest lists can be downloaded, unless
\* the same package was uploaded while its version was being withdrawn.
PackagesStored ==
    \A x \in DOMAIN versionRows : versionRows[x].key \in blobs \cup clashed
=============================================================================
