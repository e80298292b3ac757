------------------------------ MODULE SkillSync ------------------------------
(***************************************************************************)
(* The skills of one agent host (examples/node-agent/src/skills.ts,        *)
(* agent.ts, state.ts) against the registry that serves them.              *)
(*                                                                         *)
(* A pass fetches the manifest, installs what differs from the rows of     *)
(* managed_skills, removes what is not listed and stores the ETag. Rows    *)
(* and directories are changed one after the other; the process may stop   *)
(* between any two steps and starts again with what is on disk. Skills are *)
(* handled in any order, which the manifest fixes in the code.             *)
(***************************************************************************)
EXTENDS SkillRegistry

CONSTANT MaxTroubles  \* bound on failed steps and stops of the process

ASSUME SyncAssumption == MaxTroubles \in Nat

VARIABLES
    etag,     \* skill_etag: the set of at most one manifest
    managed,  \* managed_skills: skill to the key installed
    dirs,     \* the directories: skill to the key whose package it holds
    pass,     \* the pass under way: [phase, listed, todo, failed, skill]
    outcome,  \* what the pass that ended last reported: [status, revision]
    behind,   \* auxiliary: a pass has not run to its end since the ETag was stored
    troubles

syncVars == <<etag, managed, dirs, pass, outcome, behind, troubles>>

IdlePass     == [phase |-> "idle", listed |-> <<>>, todo |-> {}, failed |-> FALSE, skill |-> {}]
NoReport == [status |-> "none", revision |-> <<>>]

\* The function f with key for s, and without s.
Put(f, s, key) == [t \in DOMAIN f \cup {s} |-> IF t = s THEN key ELSE f[t]]
Without(f, s)  == [t \in DOMAIN f \ {s} |-> f[t]]

Trouble == troubles < MaxTroubles /\ troubles' = troubles + 1

SyncInit ==
    /\ RegistryInit
    /\ etag = {} /\ managed = <<>> /\ dirs = <<>>
    /\ pass = IdlePass /\ outcome = NoReport /\ behind = FALSE /\ troubles = 0

-----------------------------------------------------------------------------
(* The pass. *)

\* The rows that are not of the version and digest listed.
Differing(m) == {s \in DOMAIN m : s \notin DOMAIN managed \/ managed[s] # m[s]}

\* reconcile: 304 when the stored ETag is that of the manifest.
NotModified ==
    /\ pass.phase = "idle"
    /\ etag = {SkillManifest}
    /\ outcome' = [status |-> "succeeded", revision |-> SkillManifest]
    /\ UNCHANGED <<etag, managed, dirs, pass, behind, troubles>>

FetchManifest ==
    /\ pass.phase = "idle"
    /\ etag # {SkillManifest}
    /\ pass' = [IdlePass EXCEPT !.phase = "install", !.listed = SkillManifest,
                            !.todo = Differing(SkillManifest)]
    /\ outcome' = NoReport
    /\ behind' = TRUE
    /\ UNCHANGED <<etag, managed, dirs, troubles>>

\* install: the archive of the version, when its digest is the listed one.
Archive(s) == DownloadSkillPackage(s, pass.listed[s][2]) \cap {pass.listed[s]}

\* install up to the extraction into the staging directory.
StageSkill(s) ==
    /\ pass.phase = "install" /\ s \in pass.todo /\ pass.skill = {}
    /\ Archive(s) # {}
    /\ pass' = [pass EXCEPT !.phase = "staged", !.skill = Archive(s)]
    /\ UNCHANGED <<etag, managed, dirs, outcome, behind, troubles>>

\* A download that is refused, missing or of another digest, or any other fault
\* before the directory is touched: the skill stays as it was.
FailToStage(s) ==
    /\ pass.phase = "install" /\ s \in pass.todo
    /\ \/ Archive(s) = {} /\ UNCHANGED troubles
       \/ Archive(s) # {} /\ Trouble
    /\ pass' = [pass EXCEPT !.todo = @ \ {s}, !.failed = TRUE]
    /\ UNCHANGED <<etag, managed, dirs, outcome, behind>>

Staged == CHOOSE k \in pass.skill : TRUE

\* The old directory is renamed to a backup ...
MoveAside ==
    /\ pass.phase = "staged"
    /\ dirs' = Without(dirs, Staged[1])
    /\ pass' = [pass EXCEPT !.phase = "aside"]
    /\ UNCHANGED <<etag, managed, outcome, behind, troubles>>

\* ... the staging directory takes its place and the backup goes ...
MoveIn ==
    /\ pass.phase = "aside"
    /\ dirs' = Put(dirs, Staged[1], Staged)
    /\ pass' = [pass EXCEPT !.phase = "placed"]
    /\ UNCHANGED <<etag, managed, outcome, behind, troubles>>

\* ... and setManagedSkill writes the row; when it fails the new directory stays
\* under the old row.
RecordSkill(ok) ==
    /\ pass.phase = "placed"
    /\ IF ok THEN UNCHANGED troubles ELSE Trouble
    /\ managed' = IF ok THEN Put(managed, Staged[1], Staged) ELSE managed
    /\ pass' = [pass EXCEPT !.phase = "install", !.todo = @ \ {Staged[1]},
                            !.failed = @ \/ ~ok, !.skill = {}]
    /\ UNCHANGED <<etag, dirs, outcome, behind>>

\* Every listed skill has been tried: what is not listed is to be removed.
StartRemoving ==
    /\ pass.phase = "install" /\ pass.todo = {}
    /\ pass' = [pass EXCEPT !.phase = "remove", !.todo = DOMAIN managed \ DOMAIN pass.listed]
    /\ UNCHANGED <<etag, managed, dirs, outcome, behind, troubles>>

\* The directory goes first ...
RemoveDirectory(s) ==
    /\ pass.phase = "remove" /\ s \in pass.todo /\ s \in DOMAIN dirs
    /\ dirs' = Without(dirs, s)
    /\ UNCHANGED <<etag, managed, pass, outcome, behind, troubles>>

\* ... then the row, unless the directory could not be removed.
RemoveManagedSkill(s) ==
    /\ pass.phase = "remove" /\ s \in pass.todo /\ s \notin DOMAIN dirs
    /\ managed' = Without(managed, s)
    /\ pass' = [pass EXCEPT !.todo = @ \ {s}]
    /\ UNCHANGED <<etag, dirs, outcome, behind, troubles>>

FailToRemove(s) ==
    /\ pass.phase = "remove" /\ s \in pass.todo /\ s \in DOMAIN dirs
    /\ Trouble
    /\ pass' = [pass EXCEPT !.todo = @ \ {s}, !.failed = TRUE]
    /\ UNCHANGED <<etag, managed, dirs, outcome, behind>>

\* Mutant: the ETag is stored whatever failed.
AlwaysComplete(p) == TRUE

\* reconcile stores the revision and the ETag only when nothing failed.
Complete(p) == ~p.failed

NextEtag(p) == IF Complete(p) THEN {p.listed} ELSE etag

FinishPass ==
    /\ pass.phase = "remove" /\ pass.todo = {}
    /\ outcome' = [status |-> IF Complete(pass) THEN "succeeded" ELSE "partial",
                   revision |-> pass.listed]
    /\ etag' = NextEtag(pass)
    /\ behind' = ~Complete(pass)
    /\ pass' = IdlePass
    /\ UNCHANGED <<managed, dirs, troubles>>

\* The process stops and is started again.
Restart ==
    /\ pass.phase # "idle"
    /\ Trouble
    /\ pass' = IdlePass
    /\ UNCHANGED <<etag, managed, dirs, outcome, behind>>

SyncStep ==
    \/ NotModified \/ FetchManifest \/ MoveAside \/ MoveIn \/ StartRemoving \/ FinishPass \/ Restart
    \/ \E ok \in BOOLEAN : RecordSkill(ok)
    \/ \E s \in SkillIds : \/ StageSkill(s) \/ FailToStage(s)
                           \/ RemoveDirectory(s) \/ RemoveManagedSkill(s) \/ FailToRemove(s)

SyncNext ==
    \/ SyncStep /\ UNCHANGED registryVars
    \/ RegistryNext /\ UNCHANGED syncVars

SyncSpec == SyncInit /\ [][SyncNext]_<<registryVars, syncVars>>

-----------------------------------------------------------------------------
(* Properties. *)

\* What the host keeps on disk, and the phase of its pass.
SyncTypeOK ==
    /\ RegistryTypeOK
    /\ DOMAIN managed \subseteq SkillIds /\ DOMAIN dirs \subseteq SkillIds
    /\ Cardinality(etag) <= 1
    /\ troubles \in 0 .. MaxTroubles
    /\ pass.phase \in {"idle", "install", "staged", "aside", "placed", "remove"}

\* reconcile, install: once a pass has run to its end, and until the next one
\* starts, the rows are those of the manifest whose ETag is stored, and unless
\* something went wrong on the way every directory holds the package its row
\* names, so a 304 means that nothing is left to do.
EtagTellsWhatIsInstalled ==
    (etag # {} /\ ~behind) =>
        /\ etag = {managed}
        /\ troubles = 0 => dirs = managed

\* install: a directory never holds a package other than one the manifest named
\* for its skill: that of its row, or that of the pass that replaced it.
DirectoriesAreListed ==
    troubles = 0 =>
        \A s \in DOMAIN dirs :
            dirs[s] \in (IF s \in DOMAIN managed THEN {managed[s]} ELSE {})
                        \cup (IF s \in DOMAIN pass.listed THEN {pass.listed[s]} ELSE {})

\* skills.ts 117: "The manifest is authoritative: a Skill it does not list is
\* revoked." A pass that reports success leaves no skill installed that the
\* manifest it reports does not list.
RevokedIsRemoved ==
    outcome.status = "succeeded" => DOMAIN managed \subseteq DOMAIN outcome.revision

\* The types; packages are stored; the ETag tells what is installed; directories
\* are listed.
SkillInvariant ==
    /\ SyncTypeOK
    /\ PackagesStored
    /\ EtagTellsWhatIsInstalled
    /\ DirectoriesAreListed
=============================================================================
