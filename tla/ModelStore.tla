----------------------------- MODULE ModelStore -----------------------------
(***************************************************************************)
(* What the runtime keeps on disk about models: the load of a model file   *)
(* (models/loader.rs, containment.rs, manifest.rs, integrity.rs,           *)
(* backend_dispatch.rs), the registry's state file (persistence.rs), and   *)
(* the version history and search it holds (version.rs, history.rs,        *)
(* search.rs).                                                             *)
(*                                                                         *)
(* A file is its identity and its bytes, a digest is the bytes.  Other     *)
(* programs may install another file under a model's path (a rename: a new *)
(* identity) between any two steps of a load, but do not write into a file *)
(* that is there.  A crash stops the savers anywhere; what they wrote into *)
(* a file so far is there.                                                 *)
(***************************************************************************)
EXTENDS Naturals, Sequences, SequencesExt, FiniteSets

CONSTANTS
    PathNames,     \* the components of a requested path, ".." among them
    MaxPathLen,    \* bound on the components of a requested path
    MaxInstalls,   \* bound on the files installed under the path
    Savers,        \* the callers of save
    MaxSaves,      \* bound on the saves
    StoreVersions, \* the version numbers, releases and prereleases of them
    MaxHistory     \* max_entries of a version history

ASSUME StoreAssumption == MaxHistory \in Nat /\ MaxSaves \in Nat

-----------------------------------------------------------------------------
(* A load                                                                      *)

VARIABLES
    request,   \* the path asked for: whether it is absolute, its components
    physical,  \* where the path really leads, links followed
    installed, \* the file under the path: [id, bytes]
    manifest,  \* the manifest beside it, and the bytes whose digest it declares
    hashed,    \* the identity of the file that was hashed, 0 for none
    bytesLoaded,    \* the bytes the backend read
    loadAt     \* where the load is

loadVars == <<request, physical, installed, manifest, hashed, bytesLoaded, loadAt>>

Base == <<"base">>
AllowedDirs == {"models", "tokenizers"}

\* normalize_path: ".." takes the last component back and fails without one.
Outside == <<"outside">>
NormalizePath(path) ==
    LET upTo[i \in 0 .. Len(path)] ==
            IF i = 0 THEN <<>>
            ELSE IF upTo[i - 1] = Outside THEN Outside
            ELSE IF path[i] # ".." THEN Append(upTo[i - 1], path[i])
            ELSE IF upTo[i - 1] = <<>> THEN Outside
            ELSE Front(upTo[i - 1])
    IN  upTo[Len(path)]
FullPath == IF request.absolute THEN request.path ELSE Base \o request.path

\* A slip: the components are looked at before ".." is resolved.
LexicallyAllowedRaw == \E d \in AllowedDirs : IsPrefix(Append(Base, d), FullPath)
LexicallyAllowed == \E d \in AllowedDirs : IsPrefix(Append(Base, d), NormalizePath(FullPath))

PathRequests == [absolute : BOOLEAN, path : UNION {[1 .. n -> PathNames] : n \in 0 .. MaxPathLen}]
LoadInit ==
    /\ request \in PathRequests
    /\ physical \in {"contained", "absent", "escapes"}
    /\ installed = [id |-> 1, bytes |-> 1]
    /\ manifest \in [kind : {"absent", "invalid", "valid"}, bytes : 1 .. 2]
    /\ hashed = 0 /\ bytesLoaded = 0 /\ loadAt = "validate"

LoadStep(from, to) == loadAt = from /\ loadAt' = to

\* validate_path: within an allowed directory by its components and, links
\* followed, by where they lead.
ValidatePath ==
    /\ LoadStep("validate", IF LexicallyAllowed /\ physical # "escapes" THEN "manifest" ELSE "refused")
    /\ UNCHANGED <<request, physical, installed, manifest, hashed, bytesLoaded>>

\* from_file and validate: a manifest that cannot be parsed, or that lacks an
\* id, a digest of 64 digits or a capability.
ManifestInvalid == manifest.kind = "invalid"
\* read_sibling_manifest: none is fine, one that cannot be read or is not valid
\* fails the load.
ReadManifest ==
    /\ LoadStep("manifest", IF physical = "absent" \/ ManifestInvalid THEN "failed"
                            ELSE IF manifest.kind = "absent" THEN "load" ELSE "hash")
    /\ UNCHANGED <<request, physical, installed, manifest, hashed, bytesLoaded>>

\* verify_manifest_hash hashes the open file and keeps its identity.
VerifyHash ==
    /\ LoadStep("hash", IF installed.bytes = manifest.bytes THEN "load" ELSE "failed")
    /\ hashed' = installed.id
    /\ UNCHANGED <<request, physical, installed, manifest, bytesLoaded>>

\* The backend opens the path by itself; it may reject what it reads.
LoadBackend ==
    /\ \/ LoadStep("load", IF hashed = 0 THEN "ready" ELSE "recheck") /\ bytesLoaded' = installed.bytes
       \/ LoadStep("load", "failed") /\ UNCHANGED bytesLoaded
    /\ UNCHANGED <<request, physical, installed, manifest, hashed>>

\* A slip: that the file is still there is enough.
SameFileLoosely == installed.id >= hashed
SameFile == installed.id = hashed
\* check_identity_unchanged: another file under the path drops the model.
CheckIdentity ==
    /\ LoadStep("recheck", IF SameFile THEN "ready" ELSE "failed")
    /\ UNCHANGED <<request, physical, installed, manifest, hashed, bytesLoaded>>

\* Another program installs another file.
Install ==
    /\ installed.id < MaxInstalls /\ loadAt \notin {"validate", "ready", "refused", "failed"}
    /\ \E b \in 1 .. 2 : installed' = [id |-> installed.id + 1, bytes |-> b]
    /\ UNCHANGED <<request, physical, manifest, hashed, bytesLoaded, loadAt>>

LoadFileNext == ValidatePath \/ ReadManifest \/ VerifyHash \/ LoadBackend \/ CheckIdentity \/ Install

-----------------------------------------------------------------------------
(* The state file                                                              *)

VARIABLES
    saver,      \* what each saver is doing: [at, state, file]
    saves,      \* the saves begun: the states are numbered
    files,      \* what is in each file: nothing, a mixture or a state's number
    tempFile,   \* the file the temporary path names, 0 for none
    stateFile,  \* the file the state path names, 0 for none
    lastSaved,  \* the last state whose save returned Ok
    overlapped, \* two saves were under way at the same time
    diskFull    \* a write failed

saveVars == <<saver, saves, files, tempFile, stateFile, lastSaved, overlapped, diskFull>>

Nothing == MaxSaves + 1
Mixture == MaxSaves + 2
SaverIdle == [at |-> "idle", state |-> 0, file |-> 0]
SaveInit ==
    /\ saver = [s \in Savers |-> SaverIdle] /\ saves = 0 /\ files = <<>>
    /\ tempFile = 0 /\ stateFile = 0 /\ lastSaved = 0 /\ overlapped = FALSE /\ diskFull = FALSE

\* A slip: the state file itself is written.
SaveCreateInPlace(s) ==
    /\ saver[s].at = "idle" /\ saves < MaxSaves
    /\ saves' = saves + 1
    /\ files' = IF stateFile = 0 THEN Append(files, Nothing) ELSE [files EXCEPT ![stateFile] = Nothing]
    /\ stateFile' = IF stateFile = 0 THEN Len(files) + 1 ELSE stateFile
    /\ tempFile' = stateFile'
    /\ saver' = [saver EXCEPT ![s] = [at |-> "write", state |-> saves', file |-> stateFile']]
    /\ overlapped' = (overlapped \/ \E o \in Savers : saver[o].at # "idle")
    /\ UNCHANGED <<lastSaved, diskFull>>

\* File::create truncates the temporary file that is there.
SaveCreate(s) ==
    /\ saver[s].at = "idle" /\ saves < MaxSaves
    /\ saves' = saves + 1
    /\ IF tempFile = 0
       THEN files' = Append(files, Nothing) /\ tempFile' = Len(files) + 1
       ELSE files' = [files EXCEPT ![tempFile] = Nothing] /\ UNCHANGED tempFile
    /\ saver' = [saver EXCEPT ![s] = [at |-> "write", state |-> saves', file |-> tempFile']]
    /\ overlapped' = (overlapped \/ \E o \in Savers : saver[o].at # "idle")
    /\ UNCHANGED <<stateFile, lastSaved, diskFull>>

\* to_writer_pretty drops its buffered writer: a small state is first written
\* then, and a failure to do so is not reported.  Over another writer's bytes
\* the result is this state or a mixture.
SaveWrite(s) ==
    /\ saver[s].at = "write"
    /\ \/ /\ files' \in {[files EXCEPT ![saver[s].file] = c] :
                            c \in {saver[s].state} \union (IF files[saver[s].file] = Nothing THEN {} ELSE {Mixture})}
          /\ UNCHANGED diskFull
       \/ UNCHANGED files /\ diskFull' = TRUE
    /\ saver' = [saver EXCEPT ![s].at = "rename"]
    /\ UNCHANGED <<saves, tempFile, stateFile, lastSaved, overlapped>>

\* The rename fails when another save took the temporary file away.
SaveRename(s) ==
    /\ saver[s].at = "rename"
    /\ IF tempFile = 0 THEN UNCHANGED <<stateFile, tempFile, lastSaved>>
       ELSE stateFile' = tempFile /\ tempFile' = 0 /\ lastSaved' = saver[s].state
    /\ saver' = [saver EXCEPT ![s] = SaverIdle]
    /\ UNCHANGED <<saves, files, overlapped, diskFull>>

DeleteState ==
    /\ stateFile # 0 /\ \A s \in Savers : saver[s].at = "idle"
    /\ stateFile' = 0 /\ lastSaved' = 0
    /\ UNCHANGED <<saver, saves, files, tempFile, overlapped, diskFull>>

SaveCrash ==
    /\ \E s \in Savers : saver[s].at # "idle"
    /\ saver' = [s \in Savers |-> SaverIdle]
    /\ UNCHANGED <<saves, files, tempFile, stateFile, lastSaved, overlapped, diskFull>>

\* load: no file, a file that cannot be parsed, or a state.
LoadedState == IF stateFile = 0 THEN 0 ELSE files[stateFile]

SaveNext == DeleteState \/ SaveCrash \/ \E s \in Savers : SaveCreate(s) \/ SaveWrite(s) \/ SaveRename(s)

-----------------------------------------------------------------------------
(* Versions                                                                    *)

VARIABLES
    history,  \* VersionHistory of a model: [version, source, active]
    query     \* what search last found among the versions

versionVars == <<history, query>>

\* Ord for ModelVersion: a prerelease comes before its release.
VersionLess(a, b) == a.number < b.number \/ (a.number = b.number /\ a.pre /\ ~b.pre)
\* satisfies: at_least, below and between leave prereleases out, exact does not.
Satisfies(v, range) ==
    /\ range.prerelease \/ ~v.pre
    /\ ~VersionLess(v, range.min) /\ ~VersionLess(range.max, v)
AllVersions == [number : StoreVersions, pre : BOOLEAN]
Ranges == [min : AllVersions, max : AllVersions, prerelease : BOOLEAN]

VersionInit == history = <<>> /\ query = {}

\* record: the last entry is deactivated, the oldest make room.
Record(v, source) ==
    LET closed == [i \in DOMAIN history |->
                      IF i = Len(history) THEN [history[i] EXCEPT !.active = FALSE] ELSE history[i]]
        all == Append(closed, [version |-> v, source |-> source, active |-> TRUE])
    IN  history' = SubSeq(all, IF Len(all) > MaxHistory THEN Len(all) - MaxHistory + 1 ELSE 1, Len(all))

Activate ==
    /\ \E v \in AllVersions : Record(v, IF history = <<>> THEN "initial" ELSE "hotSwap")
    /\ UNCHANGED query
\* A rollback activates the previous entry's version.
Rollback ==
    /\ Len(history) >= 2
    /\ Record(history[Len(history) - 1].version, "rollback")
    /\ UNCHANGED query
\* ModelQuery::matches over the history, by version.
Search ==
    /\ \E r \in Ranges : query' = {i \in DOMAIN history : Satisfies(history[i].version, r)}
    /\ UNCHANGED history

VersionNext == Activate \/ Rollback \/ Search

\* A load, the state file and a history share no state; their steps interleave.
StoreNext ==
    \/ LoadFileNext /\ UNCHANGED <<saveVars, versionVars>>
    \/ SaveNext /\ UNCHANGED <<loadVars, versionVars>>
    \/ VersionNext /\ UNCHANGED <<loadVars, saveVars>>

StoreSpec == LoadInit /\ SaveInit /\ VersionInit /\ [][StoreNext]_<<loadVars, saveVars, versionVars>>

-----------------------------------------------------------------------------
(* A model that was loaded beside a manifest is, byte for byte, the file   *)
(* the manifest declares, whatever was installed under its path meanwhile, *)
(* and it lies in one of the allowed directories.                          *)
LoadedAsDeclared ==
    loadAt = "ready" => /\ manifest.kind = "valid" => bytesLoaded = manifest.bytes
                        /\ \E d \in AllowedDirs : IsPrefix(Append(Base, d), NormalizePath(FullPath))

(* The state file is never half a state, and never older than the last     *)
(* save that was acknowledged, wherever the program was stopped; only two  *)
(* saves at the same time, or a disk that is full, can break that.         *)
StateSurvives == overlapped \/ diskFull \/ LoadedState = lastSaved

(* One entry of a history is active, the last.                              *)
HistoryIsLinear == \A i \in DOMAIN history : history[i].active <=> i = Len(history)

\* What is loaded, saved and listed is what it claims to be
\* (load_model_dispatch, RegistryPersistence::save, VersionHistory::record).
StoreIsHonest == LoadedAsDeclared /\ StateSurvives /\ HistoryIsLinear
=============================================================================
