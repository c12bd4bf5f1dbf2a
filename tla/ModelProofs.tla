----------------------------- MODULE ModelProofs -----------------------------
(***************************************************************************)
(* Proofs about what the runtime keeps of models: what is loaded, saved    *)
(* and recorded is what it claims to be (ModelStore), registry, engine and *)
(* index agree whenever the index lock is free (ModelLifecycle), the       *)
(* routes lead to registered models while models are swapped (HotSwap):    *)
(* swaps leave nothing behind, and only requests that raced with a drain   *)
(* run on a model that is gone; and a new model is judged by samples of    *)
(* its own weight and gets exactly its share (Rollout).  All for any       *)
(* number of models, callers, loads, saves, swaps, requests and variants.  *)
(***************************************************************************)
EXTENDS ModelLifecycle, ModelStore, HotSwap, Rollout, CountingLemmas

-----------------------------------------------------------------------------
(* A load *)

\* Files have numbers, later ones greater, and the file that was hashed has the
\* bytes the manifest declares.
FileRecord == [id : Nat \ {0}, bytes : Nat]
LoadType ==
    /\ installed \in FileRecord /\ manifest \in [kind : {"absent", "invalid", "valid"}, bytes : Nat]
    /\ hashed \in Nat /\ hashed <= installed.id

HashedInv ==
    /\ loadAt \notin {"validate", "refused"} => LexicallyAllowed
    /\ loadAt \in {"validate", "manifest", "hash"} => hashed = 0
    /\ loadAt \in {"load", "recheck", "ready"} => (hashed = 0 <=> manifest.kind # "valid")
    /\ loadAt \in {"load", "recheck"} /\ hashed = installed.id => installed.bytes = manifest.bytes
    /\ loadAt = "recheck" /\ hashed = installed.id => bytesLoaded = manifest.bytes
    /\ loadAt = "hash" => manifest.kind = "valid"
    /\ loadAt = "recheck" => hashed # 0
    /\ loadAt = "ready" /\ hashed # 0 => bytesLoaded = manifest.bytes

LoadInv == LoadType /\ HashedInv

LEMMA LoadInitial == LoadInit => LoadInv
  <1> SUFFICES ASSUME LoadInit PROVE LoadInv OBVIOUS
  <1>1. LoadType BY DEF LoadInit, LoadType, FileRecord
  <1>2. HashedInv BY DEF LoadInit, HashedInv
  <1> QED BY <1>1, <1>2 DEF LoadInv

LEMMA AllowedStays == UNCHANGED request => (LexicallyAllowed' <=> LexicallyAllowed)
  <1> SUFFICES ASSUME request' = request PROVE LexicallyAllowed' <=> LexicallyAllowed OBVIOUS
  <1>1. FullPath' = FullPath BY DEF FullPath
  <1> QED BY <1>1, Zenon DEF LexicallyAllowed

LEMMA LoadStepSafe == LoadInv /\ [LoadFileNext]_loadVars => LoadInv'
  <1> SUFFICES ASSUME LoadInv, [LoadFileNext]_loadVars PROVE LoadInv' OBVIOUS
  <1>1. LexicallyAllowed' <=> LexicallyAllowed
    <2>1. UNCHANGED request
      BY DEF LoadFileNext, loadVars, ValidatePath, ReadManifest, VerifyHash, LoadBackend, CheckIdentity, Install
    <2> QED BY <2>1, AllowedStays
  <1>2. /\ installed.id \in Nat \ {0} /\ installed.bytes \in Nat /\ hashed \in Nat /\ hashed <= installed.id
        /\ manifest.kind \in {"absent", "invalid", "valid"} /\ manifest.bytes \in Nat
    BY DEF LoadInv, LoadType, FileRecord
  <1>3. CASE ValidatePath
    <2>1. UNCHANGED <<installed, manifest, hashed, bytesLoaded>> /\ loadAt = "validate"
      BY <1>3 DEF ValidatePath, LoadStep
    <2>2. \/ LexicallyAllowed /\ loadAt' = "manifest"
          \/ loadAt' = "refused"
      BY <1>3 DEF ValidatePath, LoadStep
    <2>3. HashedInv' BY <1>1, <2>1, <2>2 DEF LoadInv, HashedInv
    <2> QED BY <2>1, <2>3 DEF LoadInv, LoadType
  <1>4. CASE ReadManifest
    <2>1. UNCHANGED <<installed, manifest, hashed, bytesLoaded>> /\ loadAt = "manifest"
      BY <1>4 DEF ReadManifest, LoadStep
    <2>2. \/ loadAt' = "failed"
          \/ manifest.kind = "absent" /\ loadAt' = "load"
          \/ manifest.kind = "valid" /\ loadAt' = "hash"
      <3>1. loadAt' = IF physical = "absent" \/ ManifestInvalid THEN "failed"
                      ELSE IF manifest.kind = "absent" THEN "load" ELSE "hash"
        BY <1>4 DEF ReadManifest, LoadStep
      <3>2. CASE physical = "absent" \/ manifest.kind = "invalid" BY <3>1, <3>2 DEF ManifestInvalid
      <3>3. CASE physical # "absent" /\ manifest.kind = "absent" BY <3>1, <3>3 DEF ManifestInvalid
      <3>4. CASE physical # "absent" /\ manifest.kind = "valid" BY <3>1, <3>4 DEF ManifestInvalid
      <3> QED BY <1>2, <3>2, <3>3, <3>4
    <2>3. hashed = 0 /\ hashed # installed.id BY <1>2, <2>1 DEF LoadInv, HashedInv
    <2>4. HashedInv' BY <1>1, <2>1, <2>2, <2>3 DEF LoadInv, HashedInv
    <2> QED BY <2>1, <2>4 DEF LoadInv, LoadType
  <1>5. CASE VerifyHash
    <2>1. UNCHANGED <<installed, manifest, bytesLoaded>> /\ loadAt = "hash" /\ hashed' = installed.id
      BY <1>5 DEF VerifyHash, LoadStep
    <2>2. loadAt' = "failed" \/ (loadAt' = "load" /\ installed.bytes = manifest.bytes)
      BY <1>5 DEF VerifyHash, LoadStep
    <2>3. HashedInv' BY <1>1, <1>2, <2>1, <2>2 DEF LoadInv, HashedInv
    <2> QED BY <1>2, <2>1, <2>3 DEF LoadInv, LoadType
  <1>6. CASE LoadBackend
    <2>1. UNCHANGED <<installed, manifest, hashed>> /\ loadAt = "load" BY <1>6 DEF LoadBackend, LoadStep
    <2>2. \/ loadAt' = "failed"
          \/ hashed = 0 /\ loadAt' = "ready"
          \/ hashed # 0 /\ loadAt' = "recheck" /\ bytesLoaded' = installed.bytes
      BY <1>6 DEF LoadBackend, LoadStep
    <2>3. HashedInv' BY <1>1, <1>2, <2>1, <2>2 DEF LoadInv, HashedInv
    <2> QED BY <2>1, <2>3 DEF LoadInv, LoadType
  <1>7. CASE CheckIdentity
    <2>1. UNCHANGED <<installed, manifest, hashed, bytesLoaded>> /\ loadAt = "recheck"
      BY <1>7 DEF CheckIdentity, LoadStep
    <2>2. loadAt' = "failed" \/ (loadAt' = "ready" /\ installed.id = hashed)
      BY <1>7 DEF CheckIdentity, LoadStep, SameFile
    <2>3. HashedInv' BY <1>1, <2>1, <2>2 DEF LoadInv, HashedInv
    <2> QED BY <2>1, <2>3 DEF LoadInv, LoadType
  <1>8. CASE Install
    <2>1. /\ UNCHANGED <<manifest, hashed, bytesLoaded, loadAt>>
          /\ loadAt \notin {"validate", "ready", "refused", "failed"}
      BY <1>8 DEF Install
    <2>2. PICK b \in 1 .. 2 : installed' = [id |-> installed.id + 1, bytes |-> b] BY <1>8 DEF Install
    <2>3. installed' \in FileRecord /\ installed'.id = installed.id + 1 BY <1>2, <2>2 DEF FileRecord
    <2>4. hashed # installed'.id /\ hashed <= installed'.id BY <1>2, <2>3
    <2>5. HashedInv' BY <1>1, <2>1, <2>4 DEF LoadInv, HashedInv
    <2> QED BY <2>1, <2>3, <2>4, <2>5 DEF LoadInv, LoadType
  <1>9. CASE UNCHANGED loadVars BY <1>1, <1>9 DEF loadVars, LoadInv, LoadType, HashedInv
  <1> QED BY <1>3, <1>4, <1>5, <1>6, <1>7, <1>8, <1>9 DEF LoadFileNext

LEMMA LoadSafe == LoadInv => LoadedAsDeclared
  <1> SUFFICES ASSUME LoadInv, loadAt = "ready"
               PROVE  /\ manifest.kind = "valid" => bytesLoaded = manifest.bytes
                      /\ \E d \in AllowedDirs : IsPrefix(Append(Base, d), NormalizePath(FullPath))
    BY DEF LoadedAsDeclared
  <1>1. LexicallyAllowed /\ (manifest.kind = "valid" => bytesLoaded = manifest.bytes) BY DEF LoadInv, HashedInv
  <1> QED BY <1>1, Zenon DEF LexicallyAllowed

-----------------------------------------------------------------------------
(* The state file *)

SaverStage == {"idle", "write", "rename"}
SaveType ==
    /\ files \in Seq(Nat) /\ saves \in Nat
    /\ saver \in [Savers -> [at : SaverStage, state : Nat, file : Nat]]
    /\ tempFile \in 0 .. Len(files) /\ stateFile \in 0 .. Len(files)

\* One saver at a time writes the temporary file, never the one that is the state;
\* what it renames is its state, whole.
SaveAlone ==
    /\ tempFile # 0 => tempFile # stateFile
    /\ \A s, o \in Savers : saver[s].at # "idle" /\ saver[o].at # "idle" => s = o
    /\ \A s \in Savers :
          /\ saver[s].at # "idle" => saver[s].file = tempFile /\ tempFile # 0
          /\ saver[s].at = "write" => files[tempFile] = Nothing
          /\ saver[s].at = "rename" => files[tempFile] = saver[s].state
    /\ LoadedState = lastSaved

SaveInv == SaveType /\ (overlapped \/ diskFull \/ SaveAlone)

LEMMA SaveInitial == SaveInit => SaveInv
  <1> SUFFICES ASSUME SaveInit PROVE SaveInv OBVIOUS
  <1>1. saver \in [Savers -> [at : SaverStage, state : Nat, file : Nat]]
    BY DEF SaveInit, SaverIdle, SaverStage
  <1>2. \A s \in Savers : saver[s].at = "idle" BY DEF SaveInit, SaverIdle
  <1>3. SaveType BY <1>1 DEF SaveInit, SaveType
  <1>4. SaveAlone BY <1>2 DEF SaveInit, SaveAlone, LoadedState
  <1> QED BY <1>3, <1>4 DEF SaveInv

LEMMA OverwriteKeepsSeq ==
  ASSUME NEW f \in Seq(Nat), NEW i \in Nat, NEW c \in Nat
  PROVE  [f EXCEPT ![i] = c] \in Seq(Nat) /\ Len([f EXCEPT ![i] = c]) = Len(f)
  <1> DEFINE g == [f EXCEPT ![i] = c]
  <1>1. Len(f) \in Nat /\ f \in [1 .. Len(f) -> Nat] OBVIOUS
  <1>2. g \in [1 .. Len(f) -> Nat] BY <1>1
  <1> HIDE DEF g
  <1>3. g \in Seq(Nat) /\ Len(g) = Len(f) BY <1>1, <1>2
  <1> QED BY <1>3 DEF g

LEMMA SaveTypeKept ==
  ASSUME SaveType, [SaveNext]_saveVars
  PROVE  SaveType'
  <1> USE StoreAssumption
  <1>1. /\ files \in Seq(Nat) /\ saves \in Nat /\ Len(files) \in Nat
        /\ tempFile \in 0 .. Len(files) /\ stateFile \in 0 .. Len(files)
        /\ saver \in [Savers -> [at : SaverStage, state : Nat, file : Nat]]
        /\ Nothing \in Nat /\ Mixture \in Nat
    BY DEF SaveType, Nothing, Mixture
  <1>2. SaverIdle \in [at : SaverStage, state : Nat, file : Nat] BY DEF SaverIdle, SaverStage
  <1>3. ASSUME NEW s \in Savers, SaveCreate(s) PROVE SaveType'
    <2>1. /\ files' \in Seq(Nat) /\ Len(files') \in Nat /\ Len(files') >= Len(files)
          /\ tempFile' \in 0 .. Len(files')
      <3>1. CASE tempFile = 0
        <4>1. files' = Append(files, Nothing) /\ tempFile' = Len(files) + 1 BY <1>3, <3>1 DEF SaveCreate
        <4> QED BY <1>1, <4>1
      <3>2. CASE tempFile # 0
        <4>1. files' = [files EXCEPT ![tempFile] = Nothing] /\ tempFile' = tempFile BY <1>3, <3>2 DEF SaveCreate
        <4>2. tempFile \in Nat BY <1>1
        <4>3. files' \in Seq(Nat) /\ Len(files') = Len(files) BY <1>1, <4>1, <4>2, OverwriteKeepsSeq
        <4> QED BY <1>1, <4>1, <4>3
      <3> QED BY <3>1, <3>2
    <2>2. saves' \in Nat /\ stateFile' = stateFile BY <1>1, <1>3 DEF SaveCreate
    <2>3. [at |-> "write", state |-> saves', file |-> tempFile'] \in [at : SaverStage, state : Nat, file : Nat]
      BY <2>1, <2>2 DEF SaverStage
    <2>4. saver' \in [Savers -> [at : SaverStage, state : Nat, file : Nat]]
      BY <1>1, <1>3, <2>3 DEF SaveCreate
    <2> QED BY <1>1, <2>1, <2>2, <2>4 DEF SaveType
  <1>4. ASSUME NEW s \in Savers, SaveWrite(s) PROVE SaveType'
    <2>1. files' \in Seq(Nat) /\ Len(files') = Len(files)
      <3>1. CASE files' = files BY <1>1, <3>1
      <3>2. CASE files' # files
        <4>1. PICK c \in {saver[s].state} \union (IF files[saver[s].file] = Nothing THEN {} ELSE {Mixture}) :
                     files' = [files EXCEPT ![saver[s].file] = c]
          BY <1>4, <3>2 DEF SaveWrite
        <4>2. c \in Nat BY <1>1
        <4>3. saver[s].file \in Nat BY <1>1
        <4> QED BY <1>1, <4>1, <4>2, <4>3, OverwriteKeepsSeq
      <3> QED BY <3>1, <3>2
    <2>2. UNCHANGED <<saves, tempFile, stateFile>> /\ saver' = [saver EXCEPT ![s].at = "rename"]
      BY <1>4 DEF SaveWrite
    <2>3. saver' \in [Savers -> [at : SaverStage, state : Nat, file : Nat]]
      BY <1>1, <2>2 DEF SaverStage
    <2> QED BY <1>1, <2>1, <2>2, <2>3 DEF SaveType
  <1>5. ASSUME NEW s \in Savers, SaveRename(s) PROVE SaveType'
    <2>1. UNCHANGED <<saves, files>> /\ saver' = [saver EXCEPT ![s] = SaverIdle] BY <1>5 DEF SaveRename
    <2>2. stateFile' \in 0 .. Len(files) /\ tempFile' \in 0 .. Len(files) BY <1>1, <1>5 DEF SaveRename
    <2> QED BY <1>1, <1>2, <2>1, <2>2 DEF SaveType
  <1>6. CASE DeleteState BY <1>1, <1>6 DEF DeleteState, SaveType
  <1>7. CASE SaveCrash BY <1>1, <1>2, <1>7 DEF SaveCrash, SaveType
  <1>8. CASE UNCHANGED saveVars BY <1>8 DEF saveVars, SaveType
  <1> QED BY <1>3, <1>4, <1>5, <1>6, <1>7, <1>8 DEF SaveNext

\* What the state path and the temporary path name is not disturbed.
LEMMA SaveAloneKept ==
  ASSUME SaveType, SaveAlone, [SaveNext]_saveVars
  PROVE  overlapped' \/ diskFull' \/ SaveAlone'
  <1> USE StoreAssumption
  <1> SUFFICES ASSUME ~overlapped', ~diskFull' PROVE SaveAlone' OBVIOUS
  <1>1. /\ files \in Seq(Nat) /\ saves \in Nat /\ Len(files) \in Nat
        /\ tempFile \in 0 .. Len(files) /\ stateFile \in 0 .. Len(files)
        /\ saver \in [Savers -> [at : SaverStage, state : Nat, file : Nat]]
        /\ Nothing \in Nat
    BY DEF SaveType, Nothing
  <1>2. /\ tempFile # 0 => tempFile # stateFile
        /\ \A s, o \in Savers : saver[s].at # "idle" /\ saver[o].at # "idle" => s = o
        /\ \A s \in Savers :
              /\ saver[s].at # "idle" => saver[s].file = tempFile /\ tempFile # 0
              /\ saver[s].at = "write" => files[tempFile] = Nothing
              /\ saver[s].at = "rename" => files[tempFile] = saver[s].state
        /\ stateFile = 0 => lastSaved = 0
        /\ stateFile # 0 => files[stateFile] = lastSaved
    BY DEF SaveAlone, LoadedState
  <1>3. ASSUME NEW s \in Savers, SaveCreate(s) PROVE SaveAlone'
    <2>1. \A o \in Savers : saver[o].at = "idle" BY <1>3, Zenon DEF SaveCreate
    <2>2. UNCHANGED <<stateFile, lastSaved>> BY <1>3 DEF SaveCreate
    <2>3. /\ tempFile' # 0 /\ tempFile' # stateFile /\ files'[tempFile'] = Nothing
          /\ stateFile # 0 => files'[stateFile] = files[stateFile]
      <3>1. CASE tempFile = 0
        <4>1. files' = Append(files, Nothing) /\ tempFile' = Len(files) + 1 BY <1>3, <3>1 DEF SaveCreate
        <4> QED BY <1>1, <4>1
      <3>2. CASE tempFile # 0
        <4>1. files' = [files EXCEPT ![tempFile] = Nothing] /\ tempFile' = tempFile BY <1>3, <3>2 DEF SaveCreate
        <4> QED BY <1>1, <1>2, <3>2, <4>1
      <3> QED BY <3>1, <3>2
    <2>4. /\ saver'[s].at = "write" /\ saver'[s].file = tempFile'
          /\ \A o \in Savers : o # s => saver'[o].at = "idle"
      BY <1>1, <1>3, <2>1 DEF SaveCreate
    <2>5. LoadedState' = lastSaved' BY <1>2, <2>2, <2>3 DEF LoadedState
    <2> QED BY <2>2, <2>3, <2>4, <2>5 DEF SaveAlone
  <1>4. ASSUME NEW s \in Savers, SaveWrite(s) PROVE SaveAlone'
    <2>1. UNCHANGED <<tempFile, stateFile, lastSaved>> /\ saver' = [saver EXCEPT ![s].at = "rename"]
      BY <1>4 DEF SaveWrite
    <2>2. saver[s].at = "write" /\ saver[s].file = tempFile /\ tempFile # 0 /\ files[tempFile] = Nothing
      BY <1>2, <1>4 DEF SaveWrite
    <2>3. files' = [files EXCEPT ![tempFile] = saver[s].state]
      <3>1. PICK c \in {saver[s].state} \union (IF files[saver[s].file] = Nothing THEN {} ELSE {Mixture}) :
                   files' = [files EXCEPT ![saver[s].file] = c]
        BY <1>4 DEF SaveWrite
      <3> QED BY <2>2, <3>1
    <2>4. files'[tempFile] = saver[s].state /\ (stateFile # 0 => files'[stateFile] = files[stateFile])
      BY <1>1, <1>2, <2>2, <2>3
    <2>5. /\ saver'[s].at = "rename" /\ saver'[s].file = tempFile /\ saver'[s].state = saver[s].state
          /\ \A o \in Savers : o # s => saver'[o] = saver[o] /\ saver[o].at = "idle"
      BY <1>1, <1>2, <2>1, <2>2
    <2>6. LoadedState' = lastSaved' BY <1>2, <2>1, <2>4 DEF LoadedState
    <2> QED BY <1>2, <2>1, <2>2, <2>4, <2>5, <2>6 DEF SaveAlone
  <1>5. ASSUME NEW s \in Savers, SaveRename(s) PROVE SaveAlone'
    <2>1. saver[s].at = "rename" /\ tempFile # 0 /\ files[tempFile] = saver[s].state
      BY <1>2, <1>5 DEF SaveRename
    <2>2. /\ stateFile' = tempFile /\ tempFile' = 0 /\ lastSaved' = saver[s].state /\ files' = files
          /\ saver' = [saver EXCEPT ![s] = SaverIdle]
      BY <1>5, <2>1 DEF SaveRename
    <2>3. \A o \in Savers : saver'[o].at = "idle" BY <1>1, <1>2, <2>1, <2>2 DEF SaverIdle
    <2>4. LoadedState' = lastSaved' BY <2>1, <2>2 DEF LoadedState
    <2> QED BY <2>2, <2>3, <2>4 DEF SaveAlone
  <1>6. CASE DeleteState
    <2>1. stateFile' = 0 /\ lastSaved' = 0 /\ UNCHANGED <<saver, files, tempFile>> BY <1>6 DEF DeleteState
    <2> QED BY <1>2, <2>1 DEF SaveAlone, LoadedState
  <1>7. CASE SaveCrash
    <2>1. \A o \in Savers : saver'[o].at = "idle" BY <1>7 DEF SaveCrash, SaverIdle
    <2>2. UNCHANGED <<files, tempFile, stateFile, lastSaved>> BY <1>7 DEF SaveCrash
    <2> QED BY <1>2, <2>1, <2>2 DEF SaveAlone, LoadedState
  <1>8. CASE UNCHANGED saveVars BY <1>8 DEF saveVars, SaveAlone, LoadedState
  <1> QED BY <1>3, <1>4, <1>5, <1>6, <1>7, <1>8 DEF SaveNext

\* A disk that was full, and saves that overlapped, are not forgotten.
LEMMA SaveStepSafe ==
  ASSUME SaveInv, [SaveNext]_saveVars
  PROVE  SaveInv'
  <1>1. SaveType /\ (overlapped \/ diskFull \/ SaveAlone) BY DEF SaveInv
  <1>2. SaveType' BY <1>1, SaveTypeKept
  <1>3. (overlapped => overlapped') /\ (diskFull => diskFull')
    <2> DEFINE Kept == (overlapped => overlapped') /\ (diskFull => diskFull')
    <2>1. ASSUME NEW s \in Savers, SaveCreate(s) PROVE Kept
      <3>1. diskFull' = diskFull BY <2>1, Zenon DEF SaveCreate
      <3>2. overlapped' = (overlapped \/ \E o \in Savers : saver[o].at # "idle") BY <2>1, Zenon DEF SaveCreate
      <3> QED BY <3>1, <3>2, Zenon
    <2>2. ASSUME NEW s \in Savers, SaveWrite(s) PROVE Kept
      <3>1. overlapped' = overlapped BY <2>2, Zenon DEF SaveWrite
      <3>2. diskFull' = diskFull \/ diskFull' = TRUE BY <2>2, Zenon DEF SaveWrite
      <3>3. CASE diskFull' = diskFull BY <3>1, <3>3, Zenon
      <3>4. CASE diskFull' = TRUE BY <3>1, <3>4, Zenon
      <3> QED BY <3>2, <3>3, <3>4
    <2>3. ASSUME NEW s \in Savers, SaveRename(s) PROVE Kept
      <3>1. overlapped' = overlapped /\ diskFull' = diskFull BY <2>3, Zenon DEF SaveRename
      <3> QED BY <3>1, Zenon
    <2>4. CASE DeleteState
      <3>1. overlapped' = overlapped /\ diskFull' = diskFull BY <2>4, Zenon DEF DeleteState
      <3> QED BY <3>1, Zenon
    <2>5. CASE SaveCrash
      <3>1. overlapped' = overlapped /\ diskFull' = diskFull BY <2>5, Zenon DEF SaveCrash
      <3> QED BY <3>1, Zenon
    <2>6. CASE UNCHANGED saveVars
      <3>1. overlapped' = overlapped /\ diskFull' = diskFull BY <2>6 DEF saveVars
      <3> QED BY <3>1, Zenon
    <2> QED BY <2>1, <2>2, <2>3, <2>4, <2>5, <2>6, Zenon DEF SaveNext
  <1>4. CASE overlapped \/ diskFull BY <1>2, <1>3, <1>4 DEF SaveInv
  <1>5. CASE SaveAlone BY <1>1, <1>2, <1>5, SaveAloneKept DEF SaveInv
  <1> QED BY <1>1, <1>4, <1>5

-----------------------------------------------------------------------------
(* Versions *)

Entries == [version : AllVersions, source : {"initial", "hotSwap", "rollback"}, active : BOOLEAN]
VersionInv == history \in Seq(Entries) /\ HistoryIsLinear

\* Recording closes the last entry; what is cut is the oldest.
LEMMA RecordSafe ==
  ASSUME VersionInv, NEW v \in AllVersions, NEW source \in {"initial", "hotSwap", "rollback"}, Record(v, source)
  PROVE  VersionInv'
  <1> DEFINE entry == [version |-> v, source |-> source, active |-> TRUE]
             closed == [i \in DOMAIN history |->
                           IF i = Len(history) THEN [history[i] EXCEPT !.active = FALSE] ELSE history[i]]
             all == Append(closed, entry)
             first == IF Len(all) > MaxHistory THEN Len(all) - MaxHistory + 1 ELSE 1
  <1>1. history' = SubSeq(all, first, Len(all)) BY DEF Record
  <1>2. history \in Seq(Entries) /\ Len(history) \in Nat /\ DOMAIN history = 1 .. Len(history)
        /\ \A i \in DOMAIN history : history[i] \in Entries
    BY DEF VersionInv
  <1>3. entry \in Entries /\ entry.active BY DEF Entries
  <1>4. ASSUME NEW i \in DOMAIN history PROVE closed[i] \in Entries /\ closed[i].active = FALSE
    <2>1. CASE i = Len(history)
      <3>1. closed[i] = [history[i] EXCEPT !.active = FALSE] BY <2>1
      <3> HIDE DEF closed
      <3> QED BY <1>2, <3>1 DEF Entries
    <2>2. CASE i # Len(history)
      <3>1. closed[i] = history[i] BY <2>2
      <3>2. history[i].active = FALSE
        <4>1. history[i].active \in BOOLEAN BY <1>2 DEF Entries
        <4>2. ~history[i].active BY <2>2, Zenon DEF VersionInv, HistoryIsLinear
        <4> QED BY <4>1, <4>2, Zenon
      <3> HIDE DEF closed
      <3> QED BY <1>2, <3>1, <3>2
    <2> QED BY <2>1, <2>2
  <1>5. closed \in Seq(Entries) /\ Len(closed) = Len(history)
    <2>1. closed \in [1 .. Len(history) -> Entries] BY <1>2, <1>4
    <2> HIDE DEF closed
    <2> QED BY <1>2, <2>1
  <1> HIDE DEF closed, entry
  <1>6. /\ all \in Seq(Entries) /\ Len(all) = Len(history) + 1
        /\ all[Len(all)] = entry /\ \A i \in 1 .. Len(history) : all[i] = closed[i]
    BY <1>2, <1>3, <1>5
  <1> HIDE DEF all
  <1>7. first \in 1 .. Len(all) + 1 BY <1>2, <1>6, StoreAssumption
  <1> HIDE DEF first
  <1>8. /\ history' \in Seq(Entries) /\ Len(history') = Len(all) - first + 1
        /\ \A i \in 1 .. Len(history') : history'[i] = all[first + i - 1]
    BY <1>1, <1>2, <1>6, <1>7
  <1>9. ASSUME NEW i \in DOMAIN history' PROVE history'[i].active <=> i = Len(history')
    <2>1. i \in 1 .. Len(history') /\ history'[i] = all[first + i - 1] BY <1>8, <1>9
    <2>2. CASE i = Len(history')
      <3>1. first + i - 1 = Len(all) BY <1>2, <1>6, <1>7, <1>8, <2>2
      <3> QED BY <1>3, <1>6, <2>1, <2>2, <3>1
    <2>3. CASE i # Len(history')
      <3>1. first + i - 1 \in 1 .. Len(history) BY <1>2, <1>6, <1>7, <1>8, <2>1, <2>3
      <3> QED BY <1>2, <1>4, <1>6, <2>1, <2>3, <3>1
    <2> QED BY <2>2, <2>3
  <1> QED BY <1>8, <1>9, Zenon DEF VersionInv, HistoryIsLinear

LEMMA VersionStepSafe ==
  ASSUME VersionInv, [VersionNext]_versionVars
  PROVE  VersionInv'
  <1>1. CASE Activate
    <2>1. PICK v \in AllVersions : Record(v, IF history = <<>> THEN "initial" ELSE "hotSwap") BY <1>1 DEF Activate
    <2>2. (IF history = <<>> THEN "initial" ELSE "hotSwap") \in {"initial", "hotSwap", "rollback"} OBVIOUS
    <2> QED BY <2>1, <2>2, RecordSafe
  <1>2. CASE Rollback
    <2>1. history \in Seq(Entries) /\ Len(history) - 1 \in 1 .. Len(history) BY <1>2 DEF VersionInv, Rollback
    <2>2. history[Len(history) - 1] \in Entries BY <2>1
    <2>3. history[Len(history) - 1].version \in AllVersions BY <2>2 DEF Entries
    <2>4. Record(history[Len(history) - 1].version, "rollback") BY <1>2 DEF Rollback
    <2> QED BY <2>3, <2>4, RecordSafe
  <1>3. CASE Search BY <1>3 DEF Search, VersionInv, HistoryIsLinear
  <1>4. CASE UNCHANGED versionVars BY <1>4 DEF versionVars, VersionInv, HistoryIsLinear
  <1> QED BY <1>1, <1>2, <1>3, <1>4 DEF VersionNext

StoreInv == LoadInv /\ SaveInv /\ VersionInv

\* Whatever is installed under a path during a load, wherever a save is cut off and
\* however often versions are activated and rolled back, a model that is served is
\* the one its manifest declares, the state file is the last state acknowledged
\* (unless saves overlapped or the disk was full), and one version is active.
THEOREM StoreCorrect == StoreSpec => []StoreIsHonest
  <1>1. LoadInit /\ SaveInit /\ VersionInit => StoreInv
    <2>1. VersionInit => VersionInv BY DEF VersionInit, VersionInv, HistoryIsLinear
    <2> QED BY <2>1, LoadInitial, SaveInitial DEF StoreInv
  <1>2. StoreInv /\ [StoreNext]_<<loadVars, saveVars, versionVars>> => StoreInv'
    <2> SUFFICES ASSUME StoreInv, [StoreNext]_<<loadVars, saveVars, versionVars>> PROVE StoreInv' OBVIOUS
    <2>1. [LoadFileNext]_loadVars /\ [SaveNext]_saveVars /\ [VersionNext]_versionVars BY Zenon DEF StoreNext
    <2> QED BY <2>1, LoadStepSafe, SaveStepSafe, VersionStepSafe DEF StoreInv
  <1>3. StoreInv => StoreIsHonest
    <2>1. SaveInv => StateSurvives BY DEF SaveInv, SaveAlone, StateSurvives
    <2> QED BY <2>1, LoadSafe DEF StoreInv, VersionInv, StoreIsHonest
  <1> QED BY <1>1, <1>2, <1>3, PTL DEF StoreSpec

-----------------------------------------------------------------------------
(* The model lifecycle *)

USE LifecycleAssumption DEF mapVars, registryVars, RegistryTypeOK

\* The handles the index knows.
Indexed == {idToHandle[m] : m \in DOMAIN idToHandle}

Loading == {"register", "enable", "index"}
Unloading == {"disable", "unregister", "unindex"}

\* A call is in the middle of its changes exactly when it holds the index lock.
LockInv == \A c \in Callers : call[c] \in Loading \union Unloading <=> writer = c

\* Handles in use are old ones, and those registered past the lifecycle are apart.
FreshInv ==
    /\ registered \subseteq 1 .. nextId - 1 /\ outside \subseteq 1 .. nextId - 1
    /\ Indexed \subseteq 1 .. nextId - 1
    /\ DOMAIN handleToId = Indexed
    /\ Indexed \intersect outside = {}

\* What the lock holder works on: a load's id is not indexed and its handle is new,
\* an unload's is the indexed one.
TargetInv ==
    \A c \in Callers :
      /\ call[c] \in Loading => target[c] \notin DOMAIN idToHandle
      /\ call[c] \in {"enable", "index"} =>
           loading[c] \in 1 .. nextId - 1 /\ loading[c] \notin Indexed \union outside
      /\ call[c] \in Unloading =>
           target[c] \in DOMAIN idToHandle /\ loading[c] = idToHandle[target[c]]

\* How far the lock holder has brought the engine's map ahead of the index ...
EngineInv ==
    /\ (\A c \in Callers : call[c] \notin {"index", "unregister", "unindex"}) => engine = idToHandle
    /\ \A c \in Callers :
         /\ call[c] = "index" => engine = Put(idToHandle, target[c], loading[c])
         /\ call[c] \in {"unregister", "unindex"} => engine = Drop(idToHandle, target[c])

\* ... and the registry.
RegistryInv ==
    /\ (\A c \in Callers : call[c] \notin {"enable", "index", "unindex"}) => registered \ outside = Indexed
    /\ \A c \in Callers :
         /\ call[c] \in {"enable", "index"} => registered \ outside = Indexed \union {loading[c]}
         /\ call[c] = "unindex" => registered \ outside = Indexed \ {loading[c]}

LifecycleInv ==
    LifecycleTypeOK /\ LockInv /\ FreshInv /\ IndexIsBijective /\ TargetInv /\ EngineInv /\ RegistryInv

-----------------------------------------------------------------------------
LEMMA InitEstablishes == RegistryInit(0) /\ LifecycleInit => LifecycleInv
  <1> SUFFICES ASSUME RegistryInit(0), LifecycleInit PROVE LifecycleInv OBVIOUS
  <1>1. DOMAIN idToHandle = {} /\ DOMAIN handleToId = {} /\ DOMAIN engine = {} /\ engine = idToHandle
    BY DEF RegistryInit, LifecycleInit, Empty
  <1>2. Indexed = {} BY <1>1 DEF Indexed
  <1> AnyModel \in ModelIds BY DEF AnyModel
  <1>3. LifecycleTypeOK BY <1>1 DEF RegistryInit, LifecycleInit, LifecycleTypeOK, PartialMap, CallStage
  <1> QED
    BY <1>1, <1>2, <1>3 DEF RegistryInit, LifecycleInit, LifecycleInv, LockInv, FreshInv, IndexIsBijective, TargetInv,
       EngineInv, RegistryInv, Loading, Unloading

\* Steps that leave the maps alone.
LEMMA MapsUnchanged ==
  ASSUME LifecycleInv, UNCHANGED <<registryVars, mapVars>>
  PROVE  Indexed' = Indexed /\ IndexIsBijective' /\ FreshInv'
  BY DEF LifecycleInv, Indexed, IndexIsBijective, FreshInv

LEMMA BeginPreserves ==
  ASSUME LifecycleInv, NEW c \in Callers, BeginCall(c) PROVE LifecycleInv'
  <1>1. Indexed' = Indexed /\ IndexIsBijective' /\ FreshInv' BY MapsUnchanged DEF BeginCall
  <1>2. PICK m \in ModelIds, s \in {"toLoad", "toUnload"} :
          target' = [target EXCEPT ![c] = m] /\ Enter(c, s) BY DEF BeginCall
  <1> USE <1>1, <1>2 DEF BeginCall, LifecycleInv, Enter, Loading, Unloading
  <1>3. LifecycleTypeOK' BY DEF LifecycleTypeOK, CallStage, PartialMap
  <1>4. LockInv' BY DEF LockInv, LifecycleTypeOK
  <1>5. TargetInv' BY DEF TargetInv, LifecycleTypeOK
  <1>6. EngineInv' BY DEF EngineInv, LifecycleTypeOK
  <1>7. RegistryInv' BY DEF RegistryInv, LifecycleTypeOK
  <1> QED BY <1>3, <1>4, <1>5, <1>6, <1>7

LEMMA LockPreserves ==
  ASSUME LifecycleInv, NEW c \in Callers, LockForLoad(c) \/ LockForUnload(c) PROVE LifecycleInv'
  <1>1. Indexed' = Indexed /\ IndexIsBijective' /\ FreshInv'
    BY MapsUnchanged DEF LockForLoad, LockForUnload
  <1> USE <1>1 DEF LifecycleInv, Enter, Loading, Unloading
  <1>2. LifecycleTypeOK' BY DEF LifecycleTypeOK, CallStage, PartialMap, LockForLoad, LockForUnload
  <1>3. LockInv' BY DEF LockInv, LifecycleTypeOK, LockForLoad, LockForUnload
  <1>4. TargetInv' BY DEF TargetInv, LifecycleTypeOK, LockForLoad, LockForUnload
  <1>5. EngineInv' BY DEF EngineInv, LifecycleTypeOK, LockForLoad, LockForUnload
  <1>6. RegistryInv' BY DEF RegistryInv, LifecycleTypeOK, LockForLoad, LockForUnload
  <1> QED BY <1>2, <1>3, <1>4, <1>5, <1>6

\* Only one call is in the middle of its changes.
LEMMA OnlyWriter ==
  ASSUME LifecycleInv, NEW c \in Callers, call[c] \in Loading \union Unloading
  PROVE  \A d \in Callers : d # c => call[d] \notin Loading \union Unloading
  BY DEF LifecycleInv, LockInv

LEMMA RegisterPreserves ==
  ASSUME LifecycleInv, NEW c \in Callers, RegisterLoaded(c) PROVE LifecycleInv'
  <1>1. \A d \in Callers : d # c => call[d] \notin Loading \union Unloading
    BY OnlyWriter DEF RegisterLoaded, Loading
  <1>2. Indexed' = Indexed BY DEF RegisterLoaded, Indexed
  <1> USE DEF LifecycleInv, RegisterLoaded, RegisterModel, Enter, Loading, Unloading
  <1>3. LifecycleTypeOK' BY DEF LifecycleTypeOK, CallStage, PartialMap, Handles
  <1>4. LockInv' BY DEF LockInv, LifecycleTypeOK
  <1>5. FreshInv' BY <1>2 DEF FreshInv, LifecycleTypeOK
  <1>6. IndexIsBijective' BY DEF IndexIsBijective
  <1>7. TargetInv' BY <1>1, <1>2 DEF TargetInv, FreshInv, LifecycleTypeOK
  <1>8. EngineInv' BY <1>1 DEF EngineInv, LifecycleTypeOK
  <1>9. RegistryInv' BY <1>1, <1>2 DEF RegistryInv, FreshInv, LifecycleTypeOK
  <1> QED BY <1>3, <1>4, <1>5, <1>6, <1>7, <1>8, <1>9

LEMMA EnablePreserves ==
  ASSUME LifecycleInv, NEW c \in Callers, Enable(c) PROVE LifecycleInv'
  <1>1. \A d \in Callers : d # c => call[d] \notin Loading \union Unloading
    BY OnlyWriter DEF Enable, Loading
  <1>2. Indexed' = Indexed BY DEF Enable, Indexed
  <1> USE DEF LifecycleInv, Enable, Enter, Loading, Unloading
  <1>3. loading[c] \in Handles BY DEF TargetInv, LifecycleTypeOK, Handles
  <1>4. LifecycleTypeOK' BY <1>3 DEF LifecycleTypeOK, CallStage, PartialMap, Put
  <1>5. LockInv' BY DEF LockInv, LifecycleTypeOK
  <1>6. FreshInv' BY <1>2 DEF FreshInv
  <1>7. IndexIsBijective' BY DEF IndexIsBijective
  <1>8. TargetInv' BY <1>1, <1>2 DEF TargetInv, LifecycleTypeOK
  <1>9. EngineInv' BY <1>1 DEF EngineInv, LifecycleTypeOK
  <1>10. RegistryInv' BY <1>1, <1>2 DEF RegistryInv, LifecycleTypeOK
  <1> QED BY <1>4, <1>5, <1>6, <1>7, <1>8, <1>9, <1>10

LEMMA IndexPreserves ==
  ASSUME LifecycleInv, NEW c \in Callers, Index(c) PROVE LifecycleInv'
  <1>1. \A d \in Callers : d # c => call[d] \notin Loading \union Unloading
    BY OnlyWriter DEF Index, Loading
  <1> USE DEF LifecycleInv, Index, Enter, Loading, Unloading
  <1>2. /\ target[c] \in ModelIds \ DOMAIN idToHandle
        /\ loading[c] \in Handles \ Indexed /\ loading[c] \notin DOMAIN handleToId
        /\ loading[c] \in 1 .. nextId - 1 /\ loading[c] \notin outside
    BY DEF TargetInv, FreshInv, LifecycleTypeOK, Handles
  <1>3. /\ DOMAIN idToHandle' = DOMAIN idToHandle \union {target[c]}
        /\ idToHandle'[target[c]] = loading[c]
        /\ \A m \in DOMAIN idToHandle : idToHandle'[m] = idToHandle[m]
    BY <1>2 DEF Put
  <1>4. /\ DOMAIN handleToId' = DOMAIN handleToId \union {loading[c]}
        /\ handleToId'[loading[c]] = target[c]
        /\ \A h \in DOMAIN handleToId : handleToId'[h] = handleToId[h]
    BY <1>2 DEF Put
  <1>5. Indexed' = Indexed \union {loading[c]} BY <1>3 DEF Indexed
  <1>6. LifecycleTypeOK' BY <1>2, <1>3, <1>4 DEF LifecycleTypeOK, CallStage, PartialMap
  <1>7. LockInv' BY <1>1 DEF LockInv, LifecycleTypeOK
  <1>8. FreshInv' BY <1>2, <1>4, <1>5 DEF FreshInv
  <1>9. IndexIsBijective' BY <1>2, <1>3, <1>4 DEF IndexIsBijective
  <1>10. TargetInv' BY <1>1 DEF TargetInv, LifecycleTypeOK
  <1>11. EngineInv' BY <1>1 DEF EngineInv, LifecycleTypeOK
  <1>12. RegistryInv' BY <1>1, <1>5 DEF RegistryInv, LifecycleTypeOK
  <1> QED BY <1>6, <1>7, <1>8, <1>9, <1>10, <1>11, <1>12

LEMMA DisablePreserves ==
  ASSUME LifecycleInv, NEW c \in Callers, Disable(c) PROVE LifecycleInv'
  <1>1. \A d \in Callers : d # c => call[d] \notin Loading \union Unloading
    BY OnlyWriter DEF Disable, Unloading
  <1>2. Indexed' = Indexed BY DEF Disable, Indexed
  <1> USE DEF LifecycleInv, Disable, Enter, Loading, Unloading
  <1>3. LifecycleTypeOK' BY DEF LifecycleTypeOK, CallStage, PartialMap, Drop
  <1>4. LockInv' BY DEF LockInv, LifecycleTypeOK
  <1>5. FreshInv' BY <1>2 DEF FreshInv
  <1>6. IndexIsBijective' BY DEF IndexIsBijective
  <1>7. TargetInv' BY <1>1, <1>2 DEF TargetInv, LifecycleTypeOK
  <1>8. EngineInv' BY <1>1 DEF EngineInv, LifecycleTypeOK
  <1>9. RegistryInv' BY <1>1, <1>2 DEF RegistryInv, LifecycleTypeOK
  <1> QED BY <1>3, <1>4, <1>5, <1>6, <1>7, <1>8, <1>9

LEMMA UnregisterPreserves ==
  ASSUME LifecycleInv, NEW c \in Callers, UnregisterLoaded(c) PROVE LifecycleInv'
  <1>1. \A d \in Callers : d # c => call[d] \notin Loading \union Unloading
    BY OnlyWriter DEF UnregisterLoaded, Unloading
  <1>2. Indexed' = Indexed BY DEF UnregisterLoaded, Indexed
  <1> USE DEF LifecycleInv, UnregisterLoaded, UnregisterModel, Enter, Loading, Unloading
  <1>3. LifecycleTypeOK' BY DEF LifecycleTypeOK, CallStage, PartialMap
  <1>4. LockInv' BY DEF LockInv, LifecycleTypeOK
  <1>5. FreshInv' BY <1>2 DEF FreshInv
  <1>6. IndexIsBijective' BY DEF IndexIsBijective
  <1>7. TargetInv' BY <1>1, <1>2 DEF TargetInv, LifecycleTypeOK
  <1>8. EngineInv' BY <1>1 DEF EngineInv, LifecycleTypeOK
  <1>9. RegistryInv' BY <1>1, <1>2 DEF RegistryInv, LifecycleTypeOK
  <1> QED BY <1>3, <1>4, <1>5, <1>6, <1>7, <1>8, <1>9

LEMMA UnindexPreserves ==
  ASSUME LifecycleInv, NEW c \in Callers, Unindex(c) PROVE LifecycleInv'
  <1>1. \A d \in Callers : d # c => call[d] \notin Loading \union Unloading
    BY OnlyWriter DEF Unindex, Unloading
  <1> USE DEF LifecycleInv, Unindex, Enter, Loading, Unloading
  <1>2. target[c] \in DOMAIN idToHandle /\ loading[c] = idToHandle[target[c]]
    BY DEF TargetInv
  <1>3. /\ DOMAIN idToHandle' = DOMAIN idToHandle \ {target[c]}
        /\ \A m \in DOMAIN idToHandle' : idToHandle'[m] = idToHandle[m]
    BY DEF Drop
  <1>4. /\ DOMAIN handleToId' = DOMAIN handleToId \ {loading[c]}
        /\ \A h \in DOMAIN handleToId' : handleToId'[h] = handleToId[h]
    BY <1>2 DEF Drop
  \* The index is one-to-one: no other id has this handle.
  <1>5. \A m \in DOMAIN idToHandle : m # target[c] => idToHandle[m] # loading[c]
    BY <1>2 DEF IndexIsBijective
  <1>6. Indexed' = Indexed \ {loading[c]} BY <1>2, <1>3, <1>5 DEF Indexed
  <1>7. LifecycleTypeOK' BY <1>3, <1>4 DEF LifecycleTypeOK, CallStage, PartialMap
  <1>8. LockInv' BY <1>1 DEF LockInv, LifecycleTypeOK
  <1>9. FreshInv' BY <1>4, <1>6 DEF FreshInv
  <1>10. IndexIsBijective' BY <1>2, <1>3, <1>4, <1>5 DEF IndexIsBijective
  <1>11. TargetInv' BY <1>1 DEF TargetInv, LifecycleTypeOK
  <1>12. EngineInv' BY <1>1 DEF EngineInv, LifecycleTypeOK
  <1>13. RegistryInv' BY <1>1, <1>6 DEF RegistryInv, LifecycleTypeOK
  <1> QED BY <1>7, <1>8, <1>9, <1>10, <1>11, <1>12, <1>13

LEMMA SmartLoadPreserves == ASSUME LifecycleInv, SmartLoad PROVE LifecycleInv'
  <1>1. Indexed' = Indexed BY DEF SmartLoad, Indexed, mapVars
  <1> USE DEF LifecycleInv, SmartLoad, RegisterOutside, RegisterModel
  <1>2. LifecycleTypeOK' BY DEF LifecycleTypeOK, PartialMap, Handles
  <1>3. LockInv' BY DEF LockInv
  <1>4. FreshInv' BY <1>1 DEF FreshInv, LifecycleTypeOK
  <1>5. IndexIsBijective' BY DEF IndexIsBijective
  <1>6. TargetInv' BY <1>1 DEF TargetInv, LifecycleTypeOK
  <1>7. EngineInv' BY DEF EngineInv
  <1>8. registered' \ outside' = registered \ outside BY DEF FreshInv, LifecycleTypeOK
  <1>9. RegistryInv' BY <1>1, <1>8 DEF RegistryInv
  <1> QED BY <1>2, <1>3, <1>4, <1>5, <1>6, <1>7, <1>9

LEMMA StepPreserves == LifecycleInv /\ [LifecycleNext]_<<registryVars, lifecycleVars>> => LifecycleInv'
  <1> SUFFICES ASSUME LifecycleInv, [LifecycleNext]_<<registryVars, lifecycleVars>> PROVE LifecycleInv' OBVIOUS
  <1>1. CASE UNCHANGED <<registryVars, lifecycleVars>>
    <2>1. Indexed' = Indexed /\ IndexIsBijective' /\ FreshInv' BY <1>1, MapsUnchanged DEF lifecycleVars
    <2> QED BY <1>1, <2>1 DEF lifecycleVars, LifecycleInv, LifecycleTypeOK, LockInv, TargetInv, EngineInv, RegistryInv
  <1>2. ASSUME NEW c \in Callers, BeginCall(c) \/ LoadSteps(c) \/ UnloadSteps(c) PROVE LifecycleInv'
    BY <1>2, BeginPreserves, LockPreserves, RegisterPreserves, EnablePreserves, IndexPreserves,
       DisablePreserves, UnregisterPreserves, UnindexPreserves DEF LoadSteps, UnloadSteps
  <1> QED BY <1>1, <1>2, SmartLoadPreserves DEF LifecycleNext

LEMMA InvHolds == LifecycleSpec => []LifecycleInv
  BY InitEstablishes, StepPreserves, PTL DEF LifecycleSpec

-----------------------------------------------------------------------------
\* Whatever number of tasks load and unload models while the smart loader registers
\* others: when ModelLifecycle's index lock is free, engine, index and registry agree.
THEOREM SyncCorrect == LifecycleSpec => []InSync
  <1>1. LifecycleInv => InSync
    BY DEF LifecycleInv, InSync, LockInv, EngineInv, RegistryInv, Indexed, Loading, Unloading
  <1> QED BY InvHolds, <1>1, PTL

\* The engine never serves a model the registry does not know, in every state of
\* every load and unload.
THEOREM ServedCorrect == LifecycleSpec => []ServedIsRegistered
  <1>1. LifecycleInv => ServedIsRegistered
    <2> SUFFICES ASSUME LifecycleInv, NEW m \in DOMAIN engine PROVE engine[m] \in registered
      BY DEF ServedIsRegistered
    <2> USE DEF LifecycleInv, Loading, Unloading
    <2>1. CASE \A c \in Callers : call[c] \notin {"enable", "index", "unregister", "unindex"}
      BY <2>1 DEF EngineInv, RegistryInv, Indexed
    <2>2. ASSUME NEW c \in Callers, call[c] = "enable" PROVE engine[m] \in registered
      <3>1. engine = idToHandle BY <2>2, OnlyWriter DEF EngineInv
      <3> QED BY <2>2, <3>1 DEF RegistryInv, Indexed
    <2>3. ASSUME NEW c \in Callers, call[c] = "index" PROVE engine[m] \in registered
      <3>1. engine = Put(idToHandle, target[c], loading[c]) BY <2>3 DEF EngineInv
      <3>2. engine[m] = loading[c] \/ engine[m] \in Indexed BY <3>1 DEF Put, Indexed
      <3> QED BY <2>3, <3>2 DEF RegistryInv
    <2>4. ASSUME NEW c \in Callers, call[c] = "unregister" PROVE engine[m] \in registered
      <3>1. engine = Drop(idToHandle, target[c]) BY <2>4 DEF EngineInv
      <3>2. engine[m] \in Indexed BY <3>1 DEF Drop, Indexed
      <3>3. registered \ outside = Indexed BY <2>4, OnlyWriter DEF RegistryInv
      <3> QED BY <3>2, <3>3
    <2>5. ASSUME NEW c \in Callers, call[c] = "unindex" PROVE engine[m] \in registered
      <3>1. engine = Drop(idToHandle, target[c]) BY <2>5 DEF EngineInv
      <3>2. m \in DOMAIN idToHandle /\ m # target[c] /\ engine[m] = idToHandle[m] BY <3>1 DEF Drop
      <3>3. engine[m] # loading[c] BY <2>5, <3>2 DEF TargetInv, IndexIsBijective
      <3> QED BY <2>5, <3>2, <3>3 DEF RegistryInv, Indexed
    <2> QED BY <2>1, <2>2, <2>3, <2>4, <2>5
  <1> QED BY InvHolds, <1>1, PTL

\* The two maps of the lookup index stay inverse to each other.
THEOREM IndexCorrect == LifecycleSpec => []IndexIsBijective
  <1>1. LifecycleInv => IndexIsBijective BY DEF LifecycleInv
  <1> QED BY InvHolds, <1>1, PTL

-----------------------------------------------------------------------------
(* The hot swap *)

HIDE LifecycleAssumption DEF mapVars, registryVars, RegistryTypeOK
USE SwapAssumption DEF registryVars, requestVars

Busy == SwapStage \ {"new", "end"}
Live == {"resolved", "entered", "running"}
IsRouted(h) == \E m \in DOMAIN routes : routes[m] = h

\* Handles in use have been given out.
GivenOut ==
    /\ nextId \in Nat \ {0} /\ registered \subseteq 1 .. nextId - 1
    /\ swap \in [Swaps -> SwapStage] /\ stage \in [Requests -> RequestStage]
    /\ plan \in [Swaps -> [model : ModelIds \union {AnyModel},
                           old : 0 .. nextId - 1, new : 0 .. nextId - 1]]
    /\ on \in [Requests -> 0 .. nextId - 1]

\* One swap at a time is between its first and its last step.
OneInv ==
    /\ \A s \in Swaps : swap[s] \in Busy => state # "Idle"
    /\ \A s, u \in Swaps : swap[s] \in Busy /\ swap[u] \in Busy => s = u

RouteInv ==
    /\ RoutesAreRegistered
    /\ \A m, n \in DOMAIN routes : routes[m] = routes[n] => m = n

\* Up to the replacement of the route, the old model is where only the swapped
\* route can lead and the new one is where no route and no request has got to;
\* afterwards no route leads to the old model.
PlanInv == \A s \in Swaps :
    /\ swap[s] \in {"preload", "drain", "abort", "route"} =>
         \A m \in DOMAIN routes : routes[m] = plan[s].old <=> m = plan[s].model
    /\ swap[s] \in {"drain", "abort", "route"} =>
         /\ plan[s].new # plan[s].old /\ plan[s].new \in registered
         /\ \A m \in DOMAIN routes : routes[m] # plan[s].new
         /\ \A r \in Requests : on[r] # plan[s].new
    /\ swap[s] \in {"unregister", "untrack"} => \A m \in DOMAIN routes : routes[m] # plan[s].old

\* A model of a swap that is registered is routed, or was taken off its route, or
\* is what the swap in progress is still to route or to remove.
LeftInv == \A u \in Swaps : \A h \in {plan[u].old, plan[u].new} :
    h \in registered =>
        \/ IsRouted(h) \/ h \in removed
        \/ \E s \in Swaps : swap[s] \in {"drain", "abort", "route"} /\ plan[s].new = h
        \/ \E s \in Swaps : swap[s] = "unregister" /\ plan[s].old = h

\* Once its drain is over only racers are on the old model.
PassInv == \A s \in Swaps : \A r \in Requests :
    swap[s] \in {"route", "unregister", "untrack"} /\ on[r] = plan[s].old /\ stage[r] \in Live
        => r \in raced

\* The other requests are counted on their model, and it is registered.
CountInv == \A r \in Requests :
    stage[r] \in {"entered", "running"} /\ r \notin raced =>
        on[r] \in DOMAIN counter /\ r \in counter[on[r]]

\* Only requests are counted.
CounterInv == \A h \in DOMAIN counter : counter[h] \subseteq Requests

LiveInv == \A r \in Requests : stage[r] \in Live /\ r \notin raced => on[r] \in registered

SwapInv ==
    /\ GivenOut /\ OneInv /\ RouteInv /\ PlanInv /\ LeftInv
    /\ PassInv /\ CountInv /\ CounterInv /\ LiveInv

-----------------------------------------------------------------------------
LEMMA SwapInitEstablishes ==
    ASSUME RegistryInit(Cardinality(Routed)), SwapInit(Routed)
    PROVE  SwapInv
<1>1. Cardinality(Routed) \in Nat
  BY FS_CardinalityType
<1>2. GivenOut
  BY <1>1 DEF GivenOut, RegistryInit, SwapInit, SwapStage, RequestStage, None
<1>3. OneInv /\ PlanInv /\ PassInv /\ CountInv /\ CounterInv /\ LiveInv
  BY DEF OneInv, PlanInv, PassInv, CountInv, CounterInv, LiveInv, SwapInit, Busy, Live, Empty
<1>4. RouteInv
  <2>1. PICK number \in [Routed -> 1 .. Cardinality(Routed)] :
            (\A m, n \in Routed : number[m] = number[n] => m = n) /\ routes = number
    BY DEF SwapInit
  <2> QED
    BY <2>1 DEF RouteInv, RoutesAreRegistered, RegistryInit
<1>5. LeftInv
  <2>1. \A u \in Swaps : plan[u].old = 0 /\ plan[u].new = 0
    BY DEF SwapInit, None
  <2>2. 0 \notin registered
    BY <1>1 DEF RegistryInit
  <2> QED
    BY <2>1, <2>2 DEF LeftInv
<1> QED
  BY <1>2, <1>3, <1>4, <1>5 DEF SwapInv

-----------------------------------------------------------------------------
(* Requests *)

\* A request's step changes nothing the swaps are about.
LEMMA RequestKeeps ==
    ASSUME SwapInv, UNCHANGED <<state, routes, registered, nextId, swap, plan, removed>>,
           GivenOut',
           \A s \in Swaps : \A r \in Requests :
               swap[s] \in {"drain", "abort", "route"} => on'[r] # plan[s].new
    PROVE  OneInv' /\ RouteInv' /\ PlanInv' /\ LeftInv'
<1>1. OneInv' /\ RouteInv' /\ LeftInv'
  BY DEF SwapInv, OneInv, RouteInv, RoutesAreRegistered, LeftInv, IsRouted
<1>2. PlanInv'
  BY DEF SwapInv, PlanInv
<1> QED
  BY <1>1, <1>2

LEMMA ResolvePreserves ==
    ASSUME SwapInv, NEW r \in Requests, Resolve(r)
    PROVE  SwapInv'
<1> USE DEF SwapInv
<1>0. UNCHANGED <<state, routes, registered, nextId, counter, swap, plan, removed>>
  BY DEF Resolve
<1>1. CASE stage' = [stage EXCEPT ![r] = "end"] /\ UNCHANGED <<on, raced>>
  <2>1. GivenOut'
    BY <1>0, <1>1 DEF GivenOut, RequestStage
  <2>2. OneInv' /\ RouteInv' /\ PlanInv' /\ LeftInv'
    BY <1>0, <1>1, <2>1, RequestKeeps DEF PlanInv
  <2>3. PassInv' /\ CountInv' /\ CounterInv' /\ LiveInv'
    BY <1>0, <1>1 DEF PassInv, CountInv, CounterInv, LiveInv, GivenOut, Live
  <2> QED
    BY <2>1, <2>2, <2>3
<1>2. ASSUME NEW m \in DOMAIN routes, on' = [on EXCEPT ![r] = routes[m]],
             raced' = IF Passed(routes[m]) THEN raced \union {r} ELSE raced,
             stage' = [stage EXCEPT ![r] = "resolved"]
      PROVE  SwapInv'
  <2>0. routes[m] \in registered /\ routes[m] \in 0 .. nextId - 1
    <3>1. routes[m] \in registered
      BY DEF RouteInv, RoutesAreRegistered
    <3>2. routes[m] \in 1 .. nextId - 1 /\ nextId \in Nat
      BY <3>1 DEF GivenOut
    <3> QED
      BY <3>1, <3>2
  <2>1. GivenOut'
    BY <1>0, <1>2, <2>0 DEF GivenOut, RequestStage
  <2>2. on'[r] = routes[m] /\ stage'[r] = "resolved"
    BY <1>2 DEF GivenOut
  <2>3. \A q \in Requests : q # r => on'[q] = on[q] /\ stage'[q] = stage[q]
    BY <1>2 DEF GivenOut
  <2>4. raced \subseteq raced' /\ (Passed(routes[m]) => r \in raced')
    BY <1>2
  <2>5. OneInv' /\ RouteInv' /\ PlanInv' /\ LeftInv'
    <3>1. \A s \in Swaps : \A q \in Requests :
             swap[s] \in {"drain", "abort", "route"} => on'[q] # plan[s].new
      BY <2>2, <2>3 DEF PlanInv
    <3> QED
      BY <1>0, <2>1, <3>1, RequestKeeps
  <2>6. PassInv'
    <3> SUFFICES ASSUME NEW s \in Swaps, NEW q \in Requests,
                        swap[s] \in {"route", "unregister", "untrack"}, on'[q] = plan[s].old,
                        stage'[q] \in Live
                 PROVE  q \in raced'
      BY <1>0 DEF PassInv
    <3>1. CASE q # r
      BY <2>3, <2>4, <3>1 DEF PassInv
    <3>2. CASE q = r
      <4>1. swap[s] = "route"
        BY <2>2, <3>2 DEF PlanInv
      <4>2. Passed(routes[m])
        BY <2>2, <3>2, <4>1 DEF Passed
      <4> QED
        BY <2>4, <3>2, <4>2
    <3> QED
      BY <3>1, <3>2
  <2>7. CountInv' /\ CounterInv'
    BY <1>0, <2>2, <2>3, <2>4 DEF CountInv, CounterInv
  <2>8. LiveInv'
    BY <1>0, <2>0, <2>2, <2>3, <2>4 DEF LiveInv
  <2> QED
    BY <2>1, <2>5, <2>6, <2>7, <2>8
<1> QED
  BY <1>1, <1>2 DEF Resolve, RequestTo

LEMMA RequestPreserves ==
    ASSUME SwapInv, NEW r \in Requests, FindCounter(r) \/ Track(r) \/ DropGuard(r)
    PROVE  SwapInv'
<1> USE DEF SwapInv
<1>0. UNCHANGED <<state, routes, registered, nextId, swap, plan, removed, on, raced>>
  BY DEF FindCounter, Track, DropGuard
<1>1. /\ stage[r] \in Live
      /\ \E t \in {"entered", "running", "end"} : stage' = [stage EXCEPT ![r] = t]
  BY DEF FindCounter, Track, DropGuard, RequestTo, Live
<1>2. GivenOut'
  BY <1>0, <1>1 DEF GivenOut, RequestStage
<1>3. OneInv' /\ RouteInv' /\ PlanInv' /\ LeftInv'
  BY <1>0, <1>2, RequestKeeps DEF PlanInv
<1>4. \A q \in Requests : stage'[q] \in Live => stage[q] \in Live
  BY <1>1 DEF GivenOut
<1>5. PassInv' /\ LiveInv'
  BY <1>0, <1>4 DEF PassInv, LiveInv
<1>6. CountInv'
  <2> SUFFICES ASSUME NEW q \in Requests, stage'[q] \in {"entered", "running"}, q \notin raced
               PROVE  on[q] \in DOMAIN counter' /\ q \in counter'[on[q]]
    BY <1>0 DEF CountInv
  <2>1. CASE FindCounter(r)
    <3>1. counter' = Put(counter, on[r],
                      (IF on[r] \in DOMAIN counter THEN counter[on[r]] ELSE {}) \union {r})
      BY <2>1 DEF FindCounter
    <3>2. CASE q = r
      BY <3>1, <3>2 DEF Put
    <3>3. CASE q # r
      <4>1. stage[q] = stage'[q]
        BY <2>1, <3>3 DEF FindCounter, RequestTo, GivenOut
      <4>2. on[q] \in DOMAIN counter /\ q \in counter[on[q]]
        BY <4>1 DEF CountInv
      <4> QED
        BY <3>1, <4>2 DEF Put
    <3> QED
      BY <3>2, <3>3
  <2>2. CASE Track(r)
    <3>1. counter' = counter /\ stage[q] \in {"entered", "running"}
      BY <2>2 DEF Track, RequestTo, GivenOut
    <3> QED
      BY <3>1 DEF CountInv
  <2>3. CASE DropGuard(r)
    <3>1. q # r /\ stage[q] = stage'[q]
      BY <2>3 DEF DropGuard, RequestTo, GivenOut
    <3>2. on[q] \in DOMAIN counter /\ q \in counter[on[q]]
      BY <3>1 DEF CountInv
    <3>3. counter' = [h \in DOMAIN counter |-> counter[h] \ {r}]
      BY <2>3 DEF DropGuard
    <3> QED
      BY <3>1, <3>2, <3>3
  <2> QED
    BY <2>1, <2>2, <2>3
<1>7. CounterInv'
  <2>1. CASE FindCounter(r)
    <3>1. counter' = Put(counter, on[r],
                      (IF on[r] \in DOMAIN counter THEN counter[on[r]] ELSE {}) \union {r})
      BY <2>1 DEF FindCounter
    <3> QED
      BY <3>1 DEF Put, CounterInv
  <2>2. CASE Track(r)
    BY <2>2 DEF Track, CounterInv
  <2>3. CASE DropGuard(r)
    BY <2>3 DEF DropGuard, CounterInv
  <2> QED
    BY <2>1, <2>2, <2>3
<1> QED
  BY <1>2, <1>3, <1>5, <1>6, <1>7

-----------------------------------------------------------------------------
(* Swaps *)

\* While a swap is under way the others stand still.
LEMMA Alone ==
    ASSUME SwapInv, NEW s \in Swaps, NEW t \in SwapStage, SwapTo(s, t),
           \A u \in Swaps \ {s} : swap[u] \notin Busy,
           t \in Busy => state' # "Idle"
    PROVE  /\ swap' \in [Swaps -> SwapStage] /\ swap'[s] = t
           /\ \A u \in Swaps : u # s => swap'[u] = swap[u] /\ swap'[u] \notin Busy
           /\ OneInv'
<1>1. swap \in [Swaps -> SwapStage]
  BY DEF SwapInv, GivenOut
<1>2. swap' \in [Swaps -> SwapStage] /\ swap'[s] = t
  BY <1>1 DEF SwapTo
<1>3. \A u \in Swaps : u # s => swap'[u] = swap[u] /\ swap'[u] \notin Busy
  BY <1>1 DEF SwapTo
<1> QED
  BY <1>2, <1>3 DEF OneInv

LEMMA OthersRest ==
    ASSUME SwapInv, NEW s \in Swaps, swap[s] \in Busy
    PROVE  \A u \in Swaps \ {s} : swap[u] \notin Busy
BY DEF SwapInv, OneInv

LEMMA BusyStages ==
    Busy = {"resolve", "preload", "drain", "abort", "route", "unregister", "untrack", "reset"}
BY DEF Busy, SwapStage

LEMMA StageNames ==
    {"resolve", "preload", "drain", "abort", "route", "unregister", "untrack", "reset", "end"}
        \subseteq SwapStage
BY DEF SwapStage

\* Requests that are where they were see nothing of a step that takes no model out
\* of the registry and no counter away.
LEMMA RequestsUndisturbed ==
    ASSUME SwapInv, UNCHANGED <<stage, on, counter>>, registered \subseteq registered',
           raced \subseteq raced'
    PROVE  CountInv' /\ CounterInv' /\ LiveInv'
BY DEF SwapInv, CountInv, CounterInv, LiveInv

\* Outside the stages in which it has a model to route or to remove, a swap's
\* models are accounted for.
LEMMA NothingPending ==
    ASSUME SwapInv, NEW s \in Swaps, \A u \in Swaps \ {s} : swap[u] \notin Busy,
           swap[s] \notin {"drain", "abort", "route", "unregister"}
    PROVE  \A u \in Swaps : \A g \in {plan[u].old, plan[u].new} :
               g \in registered => IsRouted(g) \/ g \in removed
<1>1. \A u \in Swaps : swap[u] \notin {"drain", "abort", "route", "unregister"}
  BY BusyStages
<1> QED
  BY <1>1 DEF SwapInv, LeftInv

LEMMA SwapBeginPreserves ==
    ASSUME SwapInv, NEW s \in Swaps, BeginSwap(s)
    PROVE  SwapInv'
<1> USE DEF SwapInv
<1>0. /\ UNCHANGED <<routes, registered, nextId, counter, stage, on, removed, raced>>
      /\ swap[s] = "new"
  BY DEF BeginSwap
<1>1. PICK m \in ModelIds : plan' = [plan EXCEPT ![s].model = m]
  BY DEF BeginSwap
<1>2. /\ plan' \in [Swaps -> [model : ModelIds \union {AnyModel},
                              old : 0 .. nextId - 1, new : 0 .. nextId - 1]]
      /\ \A u \in Swaps : plan'[u].old = plan[u].old /\ plan'[u].new = plan[u].new
      /\ \A u \in Swaps : u # s => plan'[u] = plan[u]
  BY <1>1 DEF GivenOut
<1>3. /\ swap' \in [Swaps -> SwapStage] /\ OneInv' /\ swap'[s] \in {"resolve", "end"}
      /\ \A u \in Swaps : u # s => swap'[u] = swap[u]
  <2>1. CASE state # "Idle" /\ SwapTo(s, "end") /\ UNCHANGED state
    <3>1. /\ swap' \in [Swaps -> SwapStage] /\ swap'[s] = "end"
          /\ \A u \in Swaps : u # s => swap'[u] = swap[u]
      BY <2>1, StageNames DEF SwapTo, GivenOut
    <3>2. OneInv'
      BY <2>1, <3>1, BusyStages DEF OneInv
    <3> QED
      BY <3>1, <3>2
  <2>2. CASE state = "Idle" /\ state' = "Preparing" /\ SwapTo(s, "resolve")
    <3>1. \A u \in Swaps \ {s} : swap[u] \notin Busy
      BY <2>2 DEF OneInv
    <3> QED
      BY <2>2, <3>1, Alone, StageNames
  <2> QED
    BY <2>1, <2>2 DEF BeginSwap
<1>4. GivenOut' /\ RouteInv'
  BY <1>0, <1>2, <1>3 DEF GivenOut, RouteInv, RoutesAreRegistered
<1>5. PlanInv'
  BY <1>0, <1>2, <1>3 DEF PlanInv
<1>6. LeftInv'
  BY <1>0, <1>2, <1>3 DEF LeftInv, IsRouted
<1>7. PassInv'
  BY <1>0, <1>2, <1>3 DEF PassInv
<1> QED
  BY <1>0, <1>3, <1>4, <1>5, <1>6, <1>7, RequestsUndisturbed

LEMMA ResolveOldPreserves ==
    ASSUME SwapInv, NEW s \in Swaps, ResolveOld(s)
    PROVE  SwapInv'
<1> USE DEF SwapInv
<1>0. /\ UNCHANGED <<state, routes, registered, nextId, counter, stage, on, removed, raced>>
      /\ swap[s] = "resolve"
  BY DEF ResolveOld
<1>1. \A u \in Swaps \ {s} : swap[u] \notin Busy
  BY <1>0, OthersRest, BusyStages
<1>2. state # "Idle"
  BY <1>0, BusyStages DEF OneInv
<1>3. CASE SwapTo(s, "reset") /\ UNCHANGED plan
  <2>1. /\ swap' \in [Swaps -> SwapStage] /\ swap'[s] = "reset" /\ OneInv'
        /\ \A u \in Swaps : u # s => swap'[u] = swap[u]
    BY <1>0, <1>1, <1>2, <1>3, Alone, StageNames
  <2>2. GivenOut' /\ RouteInv'
    BY <1>0, <1>3, <2>1 DEF GivenOut, RouteInv, RoutesAreRegistered
  <2>3. PlanInv' /\ PassInv'
    BY <1>0, <1>3, <2>1 DEF PlanInv, PassInv
  <2>4. LeftInv'
    BY <1>0, <1>3, <2>1 DEF LeftInv, IsRouted
  <2> QED
    BY <1>0, <2>1, <2>2, <2>3, <2>4, RequestsUndisturbed
<1>4. CASE /\ plan[s].model \in DOMAIN routes
           /\ plan' = [plan EXCEPT ![s].old = routes[plan[s].model]]
           /\ SwapTo(s, "preload")
  <2> DEFINE h == routes[plan[s].model]
  <2>1. /\ swap' \in [Swaps -> SwapStage] /\ swap'[s] = "preload" /\ OneInv'
        /\ \A u \in Swaps : u # s => swap'[u] = swap[u] /\ swap'[u] \notin Busy
    BY <1>0, <1>1, <1>2, <1>4, Alone, StageNames
  <2>2. h \in registered /\ h \in 0 .. nextId - 1
    <3>1. h \in registered
      BY <1>4 DEF RouteInv, RoutesAreRegistered
    <3>2. h \in 1 .. nextId - 1 /\ nextId \in Nat
      BY <3>1 DEF GivenOut
    <3> QED
      BY <3>1, <3>2
  <2>3. /\ plan' \in [Swaps -> [model : ModelIds \union {AnyModel},
                                old : 0 .. nextId - 1, new : 0 .. nextId - 1]]
        /\ plan'[s].old = h /\ plan'[s].new = plan[s].new /\ plan'[s].model = plan[s].model
        /\ \A u \in Swaps : u # s => plan'[u] = plan[u]
    BY <1>4, <2>2 DEF GivenOut
  <2>4. GivenOut' /\ RouteInv'
    BY <1>0, <2>1, <2>3 DEF GivenOut, RouteInv, RoutesAreRegistered
  <2>5. PlanInv'
    <3>1. \A m \in DOMAIN routes : routes[m] = h <=> m = plan[s].model
      BY <1>4 DEF RouteInv
    <3> QED
      BY <1>0, <2>1, <2>3, <3>1, BusyStages DEF PlanInv
  <2>6. LeftInv'
    <3>1. IsRouted(h)
      BY <1>4 DEF IsRouted
    <3>2. \A u \in Swaps : \A g \in {plan[u].old, plan[u].new} :
             g \in registered => IsRouted(g) \/ g \in removed
      BY <1>0, <1>1, NothingPending
    <3> SUFFICES ASSUME NEW u \in Swaps, NEW g \in {plan'[u].old, plan'[u].new},
                        g \in registered
                 PROVE  IsRouted(g) \/ g \in removed
      BY <1>0 DEF LeftInv, IsRouted
    <3>3. CASE u = s
      BY <2>3, <3>1, <3>2, <3>3
    <3>4. CASE u # s
      BY <2>3, <3>2, <3>4
    <3> QED
      BY <3>3, <3>4
  <2>7. PassInv'
    BY <1>0, <2>1, <2>3 DEF PassInv
  <2> QED
    BY <1>0, <2>1, <2>4, <2>5, <2>6, <2>7, RequestsUndisturbed
<1> QED
  BY <1>3, <1>4 DEF ResolveOld

LEMMA PreloadPreserves ==
    ASSUME SwapInv, NEW s \in Swaps, Preload(s)
    PROVE  SwapInv'
<1> USE DEF SwapInv
<1>0. /\ UNCHANGED <<routes, counter, stage, on, removed, raced>>
      /\ swap[s] = "preload"
  BY DEF Preload
<1>1. \A u \in Swaps \ {s} : swap[u] \notin Busy
  BY <1>0, OthersRest, BusyStages
<1>2. state # "Idle"
  BY <1>0, BusyStages DEF OneInv
<1>3. CASE SwapTo(s, "reset") /\ UNCHANGED <<state, registryVars, plan>>
  <2>1. /\ swap' \in [Swaps -> SwapStage] /\ swap'[s] = "reset" /\ OneInv'
        /\ \A u \in Swaps : u # s => swap'[u] = swap[u]
    BY <1>0, <1>1, <1>2, <1>3, Alone, StageNames
  <2>2. GivenOut' /\ RouteInv'
    BY <1>0, <1>3, <2>1 DEF GivenOut, RouteInv, RoutesAreRegistered
  <2>3. PlanInv' /\ PassInv'
    BY <1>0, <1>3, <2>1 DEF PlanInv, PassInv
  <2>4. LeftInv'
    BY <1>0, <1>3, <2>1 DEF LeftInv, IsRouted
  <2> QED
    BY <1>0, <1>3, <2>1, <2>2, <2>3, <2>4, RequestsUndisturbed
<1>4. CASE /\ RegisterOutside /\ plan' = [plan EXCEPT ![s].new = nextId]
           /\ SwapTo(s, "drain") /\ state' = "Draining"
  <2>1. /\ swap' \in [Swaps -> SwapStage] /\ swap'[s] = "drain" /\ OneInv'
        /\ \A u \in Swaps : u # s => swap'[u] = swap[u] /\ swap'[u] \notin Busy
    BY <1>0, <1>1, <1>4, Alone, StageNames
  <2>2. registered' = registered \union {nextId} /\ nextId' = nextId + 1
    BY <1>4 DEF RegisterOutside, RegisterModel
  <2>3. 0 .. nextId - 1 \subseteq 0 .. nextId' - 1 /\ nextId \in 0 .. nextId' - 1
    BY <2>2 DEF GivenOut
  <2>4. /\ plan' \in [Swaps -> [model : ModelIds \union {AnyModel},
                                old : 0 .. nextId' - 1, new : 0 .. nextId' - 1]]
        /\ plan'[s].old = plan[s].old /\ plan'[s].new = nextId /\ plan'[s].model = plan[s].model
        /\ \A u \in Swaps : u # s => plan'[u] = plan[u]
    BY <1>4, <2>3 DEF GivenOut
  <2>5. GivenOut' /\ RouteInv'
    <3>1. registered' \subseteq 1 .. nextId' - 1 /\ nextId' \in Nat \ {0}
      BY <2>2 DEF GivenOut
    <3>2. on' \in [Requests -> 0 .. nextId' - 1]
      BY <1>0, <2>3 DEF GivenOut
    <3>3. RouteInv'
      BY <1>0, <2>2 DEF RouteInv, RoutesAreRegistered
    <3> QED
      BY <1>0, <2>1, <2>4, <3>1, <3>2, <3>3 DEF GivenOut
  <2>6. PlanInv'
    <3>1. \A r \in Requests : on[r] # nextId
      BY DEF GivenOut
    <3>2. \A m \in DOMAIN routes : routes[m] # nextId
      BY DEF RouteInv, RoutesAreRegistered, GivenOut
    <3>3. plan[s].old # nextId
      BY DEF GivenOut
    <3> QED
      BY <1>0, <2>1, <2>2, <2>4, <3>1, <3>2, <3>3, BusyStages DEF PlanInv
  <2>7. LeftInv'
    <3>1. \A u \in Swaps : \A g \in {plan[u].old, plan[u].new} :
             g \in registered => IsRouted(g) \/ g \in removed
      BY <1>0, <1>1, NothingPending
    <3> SUFFICES ASSUME NEW u \in Swaps, NEW g \in {plan'[u].old, plan'[u].new},
                        g \in registered', g # plan'[s].new
                 PROVE  IsRouted(g) \/ g \in removed
      BY <1>0, <2>1 DEF LeftInv, IsRouted
    <3>2. g \in registered /\ g \in {plan[u].old, plan[u].new}
      BY <2>2, <2>4
    <3> QED
      BY <3>1, <3>2
  <2>8. PassInv'
    BY <1>0, <2>1, <2>4 DEF PassInv
  <2> QED
    BY <1>0, <2>1, <2>2, <2>5, <2>6, <2>7, <2>8, RequestsUndisturbed
<1> QED
  BY <1>3, <1>4 DEF Preload

\* When the drain ends with nobody in flight, the requests left on the old model
\* are those it marks as racers.
LEMMA DrainPreserves ==
    ASSUME SwapInv, NEW s \in Swaps, Drain(s)
    PROVE  SwapInv'
<1> USE DEF SwapInv
<1>0. /\ UNCHANGED <<routes, registered, nextId, counter, plan, stage, on, removed>>
      /\ swap[s] = "drain"
  BY DEF Drain
<1>1. \A u \in Swaps \ {s} : swap[u] \notin Busy
  BY <1>0, OthersRest, BusyStages
<1>2. state # "Idle"
  BY <1>0, BusyStages DEF OneInv
<1>3. \/ SwapTo(s, "abort") /\ UNCHANGED <<state, raced>>
      \/ InFlightCount(plan[s].old) = 0 /\ Drained(s)
  BY DEF Drain
<1>4. raced \subseteq raced'
  BY <1>3 DEF Drained
<1>5. /\ swap' \in [Swaps -> SwapStage] /\ OneInv' /\ swap'[s] \in {"abort", "route"}
      /\ swap'[s] = "route" => InFlightCount(plan[s].old) = 0 /\ Drained(s)
      /\ \A u \in Swaps : u # s => swap'[u] = swap[u] /\ swap'[u] \notin Busy
  <2>1. CASE SwapTo(s, "abort") /\ UNCHANGED <<state, raced>>
    BY <1>1, <1>2, <2>1, Alone, StageNames
  <2>2. CASE InFlightCount(plan[s].old) = 0 /\ Drained(s)
    <3>1. SwapTo(s, "route") /\ state' # "Idle"
      BY <2>2 DEF Drained
    <3> QED
      BY <1>1, <2>2, <3>1, Alone, StageNames
  <2> QED
    BY <1>3, <2>1, <2>2
<1>6. GivenOut' /\ RouteInv'
  BY <1>0, <1>5 DEF GivenOut, RouteInv, RoutesAreRegistered
<1>7. PlanInv'
  BY <1>0, <1>5, BusyStages DEF PlanInv
<1>8. LeftInv'
  <2>1. \A u \in Swaps : swap[u] \in {"drain", "abort", "route"}
            => swap'[u] \in {"drain", "abort", "route"}
    BY <1>5
  <2>2. \A u \in Swaps : swap[u] = "unregister" => swap'[u] = "unregister"
    BY <1>0, <1>5
  <2> QED
    BY <1>0, <2>1, <2>2 DEF LeftInv, IsRouted
<1>9. PassInv'
  <2> SUFFICES ASSUME NEW u \in Swaps, NEW r \in Requests,
                      swap'[u] \in {"route", "unregister", "untrack"}, on[r] = plan[u].old,
                      stage[r] \in Live
               PROVE  r \in raced'
    BY <1>0 DEF PassInv
  <2>1. u = s /\ InFlightCount(plan[s].old) = 0 /\ Drained(s)
    BY <1>5, BusyStages
  <2>2. CASE stage[r] \in {"resolved", "entered"}
    BY <2>1, <2>2 DEF Drained
  <2>3. CASE stage[r] = "running" /\ r \notin raced
    <3> DEFINE h == plan[s].old
               C == {q \in counter[h] : stage[q] = "running"}
    <3>1. h \in DOMAIN counter /\ r \in C
      BY <2>1, <2>3 DEF CountInv
    <3>2. Cardinality(C) = 0
      BY <2>1, <3>1 DEF InFlightCount
    <3>3. IsFiniteSet(C)
      <4>1. counter[h] \subseteq Requests
        BY <3>1 DEF CounterInv
      <4> QED
        BY <4>1, FS_Subset
    <3> QED
      BY <3>1, <3>2, <3>3, FS_EmptySet
  <2> QED
    BY <1>4, <2>2, <2>3 DEF Live
<1> QED
  BY <1>0, <1>4, <1>5, <1>6, <1>7, <1>8, <1>9, RequestsUndisturbed

LEMMA AbortPreserves ==
    ASSUME SwapInv, NEW s \in Swaps, Abort(s)
    PROVE  SwapInv'
<1> USE DEF SwapInv
<1>0. /\ UNCHANGED <<state, routes, nextId, counter, plan, stage, on, removed, raced>>
      /\ swap[s] = "abort" /\ registered' = registered \ {plan[s].new} /\ SwapTo(s, "reset")
  BY DEF Abort, UnregisterModel
<1>1. \A u \in Swaps \ {s} : swap[u] \notin Busy
  BY <1>0, OthersRest, BusyStages
<1>2. state # "Idle"
  BY <1>0, BusyStages DEF OneInv
<1>3. /\ swap' \in [Swaps -> SwapStage] /\ swap'[s] = "reset" /\ OneInv'
      /\ \A u \in Swaps : u # s => swap'[u] = swap[u] /\ swap'[u] \notin Busy
  BY <1>0, <1>1, <1>2, Alone, StageNames
<1>4. /\ \A m \in DOMAIN routes : routes[m] # plan[s].new
      /\ \A r \in Requests : on[r] # plan[s].new
  BY <1>0 DEF PlanInv
<1>5. GivenOut' /\ RouteInv'
  BY <1>0, <1>3, <1>4 DEF GivenOut, RouteInv, RoutesAreRegistered
<1>6. PlanInv' /\ PassInv'
  BY <1>0, <1>3, BusyStages DEF PlanInv, PassInv
<1>7. LeftInv'
  <2> SUFFICES ASSUME NEW u \in Swaps, NEW g \in {plan[u].old, plan[u].new}, g \in registered'
               PROVE  IsRouted(g) \/ g \in removed
    BY <1>0 DEF LeftInv, IsRouted
  <2>1. g \in registered /\ g # plan[s].new
    BY <1>0
  <2>2. \A v \in Swaps : swap[v] \in {"drain", "abort", "route"} => v = s
    BY <1>1, BusyStages
  <2>3. \A v \in Swaps : swap[v] # "unregister"
    BY <1>0, <1>1, BusyStages
  <2> QED
    BY <2>1, <2>2, <2>3 DEF LeftInv
<1>8. CountInv' /\ CounterInv'
  BY <1>0 DEF CountInv, CounterInv
<1>9. LiveInv'
  BY <1>0, <1>4 DEF LiveInv
<1> QED
  BY <1>3, <1>5, <1>6, <1>7, <1>8, <1>9

LEMMA SwapRoutePreserves ==
    ASSUME SwapInv, NEW s \in Swaps, SwapRoute(s)
    PROVE  SwapInv'
<1> USE DEF SwapInv
<1>0. /\ UNCHANGED <<state, registered, nextId, counter, plan, stage, on, removed, raced>>
      /\ swap[s] = "route" /\ SwapTo(s, "unregister")
      /\ routes' = Put(routes, plan[s].model, plan[s].new)
  BY DEF SwapRoute
<1>1. \A u \in Swaps \ {s} : swap[u] \notin Busy
  BY <1>0, OthersRest, BusyStages
<1>2. state # "Idle"
  BY <1>0, BusyStages DEF OneInv
<1>3. /\ swap' \in [Swaps -> SwapStage] /\ swap'[s] = "unregister" /\ OneInv'
      /\ \A u \in Swaps : u # s => swap'[u] = swap[u] /\ swap'[u] \notin Busy
  BY <1>0, <1>1, <1>2, Alone, StageNames
<1>4. /\ DOMAIN routes' = DOMAIN routes \union {plan[s].model}
      /\ routes'[plan[s].model] = plan[s].new
      /\ \A m \in DOMAIN routes : m # plan[s].model => routes'[m] = routes[m]
  BY <1>0 DEF Put
<1>5. /\ \A m \in DOMAIN routes : routes[m] = plan[s].old <=> m = plan[s].model
      /\ plan[s].new # plan[s].old /\ plan[s].new \in registered
      /\ \A m \in DOMAIN routes : routes[m] # plan[s].new
  BY <1>0 DEF PlanInv
<1>6. GivenOut'
  BY <1>0, <1>3 DEF GivenOut
<1>7. RouteInv'
  BY <1>0, <1>4, <1>5 DEF RouteInv, RoutesAreRegistered
<1>8. PlanInv'
  <2>1. \A m \in DOMAIN routes' : routes'[m] # plan[s].old
    BY <1>4, <1>5
  <2> QED
    BY <1>0, <1>3, <2>1, BusyStages DEF PlanInv
<1>9. PassInv'
  <2>1. \A u \in Swaps : swap'[u] \in {"route", "unregister", "untrack"}
            => swap[u] \in {"route", "unregister", "untrack"}
    BY <1>0, <1>3
  <2> QED
    BY <1>0, <2>1 DEF PassInv
<1>10. LeftInv'
  <2> SUFFICES ASSUME NEW u \in Swaps, NEW g \in {plan[u].old, plan[u].new}, g \in registered,
                      g # plan[s].old
               PROVE  (\E m \in DOMAIN routes' : routes'[m] = g) \/ g \in removed
    BY <1>0, <1>3 DEF LeftInv, IsRouted
  <2>1. \A v \in Swaps : swap[v] \in {"drain", "abort", "route"} => v = s
    BY <1>1, BusyStages
  <2>2. \A v \in Swaps : swap[v] # "unregister"
    BY <1>0, <1>1, BusyStages
  <2>3. IsRouted(g) \/ g \in removed \/ g = plan[s].new
    BY <2>1, <2>2 DEF LeftInv
  <2>4. CASE IsRouted(g)
    <3>1. PICK m \in DOMAIN routes : routes[m] = g
      BY <2>4 DEF IsRouted
    <3>2. m # plan[s].model
      BY <1>5, <3>1
    <3> QED
      BY <1>4, <3>1, <3>2
  <2>5. CASE g = plan[s].new
    BY <1>4, <2>5
  <2> QED
    BY <2>3, <2>4, <2>5
<1> QED
  BY <1>0, <1>3, <1>6, <1>7, <1>8, <1>9, <1>10, RequestsUndisturbed

LEMMA SwapUnregisterPreserves ==
    ASSUME SwapInv, NEW s \in Swaps, UnregisterOld(s)
    PROVE  SwapInv'
<1> USE DEF SwapInv
<1>0. /\ UNCHANGED <<state, routes, nextId, counter, plan, stage, on, removed, raced>>
      /\ swap[s] = "unregister" /\ registered' = registered \ {plan[s].old} /\ SwapTo(s, "untrack")
  BY DEF UnregisterOld, UnregisterModel
<1>1. \A u \in Swaps \ {s} : swap[u] \notin Busy
  BY <1>0, OthersRest, BusyStages
<1>2. state # "Idle"
  BY <1>0, BusyStages DEF OneInv
<1>3. /\ swap' \in [Swaps -> SwapStage] /\ swap'[s] = "untrack" /\ OneInv'
      /\ \A u \in Swaps : u # s => swap'[u] = swap[u] /\ swap'[u] \notin Busy
  BY <1>0, <1>1, <1>2, Alone, StageNames
<1>4. \A m \in DOMAIN routes : routes[m] # plan[s].old
  BY <1>0 DEF PlanInv
<1>5. GivenOut' /\ RouteInv'
  BY <1>0, <1>3, <1>4 DEF GivenOut, RouteInv, RoutesAreRegistered
<1>6. PlanInv'
  BY <1>0, <1>3, <1>4, BusyStages DEF PlanInv
<1>7. PassInv'
  <2>1. \A u \in Swaps : swap'[u] \in {"route", "unregister", "untrack"}
            => swap[u] \in {"route", "unregister", "untrack"}
    BY <1>0, <1>3
  <2> QED
    BY <1>0, <2>1 DEF PassInv
<1>8. LeftInv'
  <2> SUFFICES ASSUME NEW u \in Swaps, NEW g \in {plan[u].old, plan[u].new}, g \in registered'
               PROVE  IsRouted(g) \/ g \in removed
    BY <1>0 DEF LeftInv, IsRouted
  <2>1. g \in registered /\ g # plan[s].old
    BY <1>0
  <2>2. \A v \in Swaps : swap[v] \notin {"drain", "abort", "route"}
    BY <1>0, <1>1, BusyStages
  <2>3. \A v \in Swaps : swap[v] = "unregister" => v = s
    BY <1>1, BusyStages
  <2> QED
    BY <2>1, <2>2, <2>3 DEF LeftInv
<1>9. CountInv' /\ CounterInv'
  BY <1>0 DEF CountInv, CounterInv
<1>10. LiveInv'
  <2>1. \A r \in Requests : stage[r] \in Live /\ on[r] = plan[s].old => r \in raced
    BY <1>0 DEF PassInv
  <2> QED
    BY <1>0, <2>1 DEF LiveInv
<1> QED
  BY <1>3, <1>5, <1>6, <1>7, <1>8, <1>9, <1>10

LEMMA UntrackPreserves ==
    ASSUME SwapInv, NEW s \in Swaps, UntrackOld(s)
    PROVE  SwapInv'
<1> USE DEF SwapInv
<1>0. /\ UNCHANGED <<state, routes, registered, nextId, plan, stage, on, removed, raced>>
      /\ swap[s] = "untrack" /\ SwapTo(s, "reset") /\ counter' = Drop(counter, plan[s].old)
  BY DEF UntrackOld
<1>1. \A u \in Swaps \ {s} : swap[u] \notin Busy
  BY <1>0, OthersRest, BusyStages
<1>2. state # "Idle"
  BY <1>0, BusyStages DEF OneInv
<1>3. /\ swap' \in [Swaps -> SwapStage] /\ swap'[s] = "reset" /\ OneInv'
      /\ \A u \in Swaps : u # s => swap'[u] = swap[u] /\ swap'[u] \notin Busy
  BY <1>0, <1>1, <1>2, Alone, StageNames
<1>4. GivenOut' /\ RouteInv' /\ LiveInv'
  BY <1>0, <1>3 DEF GivenOut, RouteInv, RoutesAreRegistered, LiveInv
<1>5. PlanInv' /\ PassInv'
  BY <1>0, <1>3, BusyStages DEF PlanInv, PassInv
<1>6. LeftInv'
  <2>1. \A u \in Swaps : \A g \in {plan[u].old, plan[u].new} :
             g \in registered => IsRouted(g) \/ g \in removed
    BY <1>0, <1>1, NothingPending
  <2> QED
    BY <1>0, <2>1 DEF LeftInv, IsRouted
<1>7. CountInv'
  <2>1. \A r \in Requests : stage[r] \in Live /\ on[r] = plan[s].old => r \in raced
    BY <1>0 DEF PassInv
  <2> QED
    BY <1>0, <2>1 DEF CountInv, Drop, Live
<1>8. CounterInv'
  BY <1>0 DEF CounterInv, Drop
<1> QED
  BY <1>3, <1>4, <1>5, <1>6, <1>7, <1>8

LEMMA ResetPreserves ==
    ASSUME SwapInv, NEW s \in Swaps, ResetState(s)
    PROVE  SwapInv'
<1> USE DEF SwapInv
<1>0. /\ UNCHANGED <<routes, registered, nextId, counter, plan, stage, on, removed, raced>>
      /\ swap[s] = "reset" /\ SwapTo(s, "end")
  BY DEF ResetState
<1>1. \A u \in Swaps \ {s} : swap[u] \notin Busy
  BY <1>0, OthersRest, BusyStages
<1>2. /\ swap' \in [Swaps -> SwapStage] /\ swap'[s] = "end" /\ OneInv'
      /\ \A u \in Swaps : u # s => swap'[u] = swap[u] /\ swap'[u] \notin Busy
  BY <1>0, <1>1, Alone, StageNames, BusyStages
<1>3. GivenOut' /\ RouteInv'
  BY <1>0, <1>2 DEF GivenOut, RouteInv, RoutesAreRegistered
<1>4. PlanInv' /\ PassInv'
  BY <1>0, <1>2, BusyStages DEF PlanInv, PassInv
<1>5. LeftInv'
  <2>1. \A u \in Swaps : \A g \in {plan[u].old, plan[u].new} :
             g \in registered => IsRouted(g) \/ g \in removed
    BY <1>0, <1>1, NothingPending
  <2> QED
    BY <1>0, <2>1 DEF LeftInv, IsRouted
<1> QED
  BY <1>0, <1>2, <1>3, <1>4, <1>5, RequestsUndisturbed

LEMMA RemoveRoutePreserves ==
    ASSUME SwapInv, NEW m \in ModelIds, RemoveRoute(m)
    PROVE  SwapInv'
<1> USE DEF SwapInv
<1>0. /\ UNCHANGED <<state, registered, nextId, counter, swap, plan, stage, on, raced>>
      /\ m \in DOMAIN routes /\ removed' = removed \union {routes[m]}
  BY DEF RemoveRoute
<1>1. DOMAIN routes' = DOMAIN routes \ {m} /\ \A n \in DOMAIN routes' : routes'[n] = routes[n]
  BY DEF RemoveRoute, Drop
<1>2. GivenOut' /\ OneInv'
  BY <1>0 DEF GivenOut, OneInv
<1>3. RouteInv'
  BY <1>0, <1>1 DEF RouteInv, RoutesAreRegistered
<1>4. PlanInv'
  BY <1>0, <1>1 DEF PlanInv
<1>5. LeftInv'
  <2>1. \A g : IsRouted(g) => (\E n \in DOMAIN routes' : routes'[n] = g) \/ g \in removed'
    BY <1>0, <1>1 DEF IsRouted
  <2> QED
    BY <1>0, <2>1 DEF LeftInv, IsRouted
<1>6. PassInv'
  BY <1>0 DEF PassInv
<1> QED
  BY <1>0, <1>2, <1>3, <1>4, <1>5, <1>6, RequestsUndisturbed

-----------------------------------------------------------------------------
LEMMA NextPreserves ==
    ASSUME SwapInv, [SwapNext]_<<registryVars, swapVars>>
    PROVE  SwapInv'
<1>1. CASE UNCHANGED <<registryVars, swapVars>>
  BY <1>1 DEF swapVars, SwapInv, GivenOut, OneInv, RouteInv, RoutesAreRegistered, PlanInv, LeftInv,
              IsRouted, PassInv, CountInv, CounterInv, LiveInv
<1>2. ASSUME NEW r \in Requests, RequestStep(r)
      PROVE  SwapInv'
  BY <1>2, ResolvePreserves, RequestPreserves DEF RequestStep
<1>3. ASSUME NEW s \in Swaps, BeginSwap(s) \/ SwapStep(s)
      PROVE  SwapInv'
  BY <1>3, SwapBeginPreserves, ResolveOldPreserves, PreloadPreserves, DrainPreserves, AbortPreserves,
     SwapRoutePreserves, SwapUnregisterPreserves, UntrackPreserves, ResetPreserves DEF SwapStep
<1>4. ASSUME NEW m \in ModelIds, RemoveRoute(m)
      PROVE  SwapInv'
  BY <1>4, RemoveRoutePreserves
<1> QED
  BY <1>1, <1>2, <1>3, <1>4 DEF SwapNext

LEMMA Inductive == SwapSpec => []SwapInv
BY SwapInitEstablishes, NextPreserves, PTL DEF SwapSpec

\* models/swap.rs execute_swap: whatever swaps end in a timeout or an error, and
\* whichever routes an operator removes in between, every route leads to a
\* registered model and nothing of a past swap stays registered beside the routes.
THEOREM SwapOrderCorrect == SwapSpec => []SwapLeavesOrder
<1>1. SwapInv => SwapLeavesOrder
  <2> SUFFICES ASSUME SwapInv PROVE SwapLeavesOrder
    OBVIOUS
  <2>1. RoutesAreRegistered
    BY DEF SwapInv, RouteInv
  <2>2. NothingLeftOver
    <3> SUFFICES ASSUME state = "Idle", NEW u \in Swaps, NEW g \in {plan[u].old, plan[u].new},
                        g \in registered
                 PROVE  IsRouted(g) \/ g \in removed
      BY DEF NothingLeftOver, IsRouted
    <3>1. \A s \in Swaps : swap[s] \notin {"drain", "abort", "route", "unregister"}
      BY BusyStages DEF SwapInv, OneInv
    <3> QED
      BY <3>1 DEF SwapInv, LeftInv
  <2> QED
    BY <2>1, <2>2 DEF SwapLeavesOrder
<1> QED
  BY Inductive, <1>1, PTL

\* models/drain.rs: a request that was counted before the drain of its model ended
\* keeps that model registered while it runs; only one that had resolved the route
\* and was counted later can lose it.
THEOREM DrainCorrect == SwapSpec => []OnlyRacersRunUnregistered
<1>1. SwapInv => OnlyRacersRunUnregistered
  BY DEF SwapInv, LiveInv, Live, OnlyRacersRunUnregistered
<1> QED
  BY Inductive, <1>1, PTL

HIDE SwapAssumption DEF registryVars, requestVars

-----------------------------------------------------------------------------
(* A canary deployment *)

\* Samples, every one recorded at this step.
SamplesOf(latest, at) ==
    latest \in Seq([latency : Latencies, step : Nat]) /\ \A i \in 1 .. Len(latest) : latest[i].step = at
CanaryInv == step \in Nat /\ SamplesOf(canary.latest, step) /\ SamplesOf(stable.latest, step)

LEMMA NoSamples == ASSUME NEW at PROVE SamplesOf(NoMetrics.latest, at)
  BY DEF SamplesOf, NoMetrics

LEMMA SampleAdded ==
  ASSUME NEW q, NEW at \in Nat, SamplesOf(q, at), NEW l \in Latencies
  PROVE  SamplesOf(Append(IF Len(q) >= MaxSamples THEN Tail(q) ELSE q, [latency |-> l, step |-> at]), at)
  <1> DEFINE S == [latency : Latencies, step : Nat]
             kept == IF Len(q) >= MaxSamples THEN Tail(q) ELSE q
             new == [latency |-> l, step |-> at]
  <1>1. q \in Seq(S) /\ \A i \in 1 .. Len(q) : q[i].step = at BY DEF SamplesOf
  <1>2. new \in S /\ new.step = at OBVIOUS
  <1> HIDE DEF S, new
  <1>3. Len(q) \in Nat /\ MaxSamples \in Nat \ {0} BY <1>1, RolloutAssumption
  <1>4. ASSUME Len(q) >= MaxSamples PROVE Tail(q) \in Seq(S) /\ \A i \in 1 .. Len(Tail(q)) : Tail(q)[i].step = at
    <2>1. q # <<>> BY <1>3, <1>4
    <2>2. /\ Tail(q) \in Seq(S) /\ Len(Tail(q)) = Len(q) - 1
          /\ \A i \in 1 .. Len(q) - 1 : Tail(q)[i] = q[i + 1] /\ i + 1 \in 1 .. Len(q)
      BY ONLY <1>1, <2>1
    <2> QED BY ONLY <1>1, <2>2
  <1>5. kept \in Seq(S) /\ \A i \in 1 .. Len(kept) : kept[i].step = at BY <1>1, <1>4
  <1> HIDE DEF kept
  <1>6. /\ Append(kept, new) \in Seq(S) /\ Len(Append(kept, new)) = Len(kept) + 1 /\ Append(kept, new)[Len(kept) + 1] = new
        /\ Len(kept) \in Nat /\ \A i \in 1 .. Len(kept) : Append(kept, new)[i] = kept[i]
    BY ONLY <1>2, <1>5
  <1>7. ASSUME NEW i \in 1 .. Len(Append(kept, new)) PROVE Append(kept, new)[i].step = at
    <2>1. i = Len(kept) + 1 \/ i \in 1 .. Len(kept) BY ONLY <1>6, <1>7
    <2> QED BY ONLY <1>2, <1>5, <1>6, <2>1
  <1> QED BY ONLY <1>6, <1>7 DEF SamplesOf, S, kept, new

LEMMA SampleRecorded ==
  ASSUME NEW m, NEW n, n \in Recorded(m), step \in Nat, SamplesOf(m.latest, step)
  PROVE  SamplesOf(n.latest, step)
  <1>1. PICK l \in Latencies, e \in 0 .. 1 : n = WithSample(m, l, e) BY DEF Recorded
  <1>2. n.latest = Append(IF Len(m.latest) >= MaxSamples THEN Tail(m.latest) ELSE m.latest, [latency |-> l, step |-> step])
    BY <1>1 DEF WithSample
  <1> DEFINE q == m.latest
  <1>3. SamplesOf(Append(IF Len(q) >= MaxSamples THEN Tail(q) ELSE q, [latency |-> l, step |-> step]), step)
    <2> HIDE DEF q
    <2> QED BY SampleAdded DEF q
  <1> QED BY <1>2, <1>3

LEMMA WeightAdvances == ASSUME CanaryInv, AdvanceWeight PROVE CanaryInv'
  <1>1. CASE step < Len(WeightSteps) BY <1>1, NoSamples DEF CanaryInv, AdvanceWeight
  <1>2. CASE ~(step < Len(WeightSteps)) BY <1>2 DEF CanaryInv, AdvanceWeight
  <1> QED BY <1>1, <1>2

LEMMA CanaryStep == CanaryInv /\ [CanaryNext]_canaryVars => CanaryInv'
  <1> SUFFICES ASSUME CanaryInv, [CanaryNext]_canaryVars PROVE CanaryInv' OBVIOUS
  <1>1. CASE RecordCanary BY <1>1, SampleRecorded DEF RecordCanary, CanaryInv
  <1>2. CASE RecordStable BY <1>2, SampleRecorded DEF RecordStable, CanaryInv
  <1>3. CASE StartRollout BY <1>3, WeightAdvances DEF StartRollout
  <1>4. CASE Analyze
    <2>1. ASSUME NEW d, NEW ph, Decide(d, ph) PROVE CanaryInv' BY <2>1 DEF Decide, CanaryInv
    <2>2. ASSUME NEW level, MakeDecision(level) PROVE CanaryInv' BY <2>1, <2>2, WeightAdvances DEF MakeDecision
    <2> QED BY <1>4, <2>1, <2>2 DEF Analyze
  <1>5. CASE CompleteRollout \/ FailRollout \/ Expire \/ UNCHANGED canaryVars
    BY <1>5 DEF CompleteRollout, FailRollout, Expire, canaryVars, CanaryInv
  <1> QED BY <1>1, <1>2, <1>3, <1>4, <1>5 DEF CanaryNext

-----------------------------------------------------------------------------
(* The traffic splitter *)

WeightTypes == weights \in [VariantLabels -> -1 .. SplitTotal]
SplitInv ==
    /\ WeightTypes
    /\ splitter = "ready" => WeightsAddUp /\ Configured # {}
    /\ \A s \in SplitSessions : sticky => assigned[s] \in SUBSET {BucketToVariant(s)}
    /\ assigned = [s \in SplitSessions |-> assigned[s]]

\* The labels that come before this one.
Earlier(l) == {k \in Configured : k < l}

LEMMA EarlierAre == ASSUME NEW l, NEW k PROVE k \in Earlier(l) <=> k \in Configured /\ k < l
  BY DEF Earlier

LEMMA UpToAre == ASSUME NEW l, NEW k PROVE k \in {j \in Configured : j <= l} <=> k \in Configured /\ k <= l
  OBVIOUS

LEMMA LabelsAre ==
  ASSUME WeightTypes
  PROVE  /\ SplitTotal \in Nat /\ Cardinality(VariantLabels) \in Nat /\ VariantLabels = 1 .. Cardinality(VariantLabels)
         /\ IsFiniteSet(Configured) /\ Configured \subseteq 1 .. Cardinality(VariantLabels)
         /\ \A k \in Configured : k \in Nat /\ weights[k] \in Nat /\ weights[k] <= SplitTotal
  <1>1. SplitTotal \in Nat /\ Cardinality(VariantLabels) \in Nat /\ VariantLabels = 1 .. Cardinality(VariantLabels)
    BY RolloutAssumption, FS_CardinalityType
  <1>2. IsFiniteSet(Configured) BY RolloutAssumption, FS_Subset DEF Configured
  <1>3. Configured \subseteq VariantLabels BY DEF Configured
  <1>4. \A k \in Configured : weights[k] \in Nat /\ weights[k] <= SplitTotal BY <1>1 DEF Configured, WeightTypes
  <1> QED BY <1>1, <1>2, <1>3, <1>4

LEMMA TotalsOf ==
  ASSUME WeightTypes, NEW T \in SUBSET Configured
  PROVE  /\ IsFiniteSet(T) /\ Total(weights, T) \in Nat
         /\ \A U \in SUBSET T : Total(weights, U) <= Total(weights, T)
  <1>1. IsFiniteSet(T) BY LabelsAre, FS_Subset
  <1>2. SplitTotal \in Nat /\ \A k \in T : weights[k] \in Nat /\ weights[k] <= SplitTotal BY LabelsAre
  <1> QED BY <1>1, <1>2, TotalFinite, TotalGrows

\* A label's running total is that of the labels before it and its weight.
LEMMA RunningTotal ==
  ASSUME WeightTypes, NEW l \in Configured
  PROVE  /\ Cumulative(l) = Total(weights, Earlier(l)) + weights[l]
         /\ Total(weights, Earlier(l)) \in Nat /\ weights[l] \in Nat
         /\ Cumulative(l) <= Total(weights, Configured) /\ Cumulative(l) \in Nat
  <1> DEFINE E == Earlier(l)
             U == {k \in Configured : k <= l}
  <1>1. l \in Nat /\ \A k \in Configured : k \in Nat BY LabelsAre
  <1>2. U = E \union {l} /\ l \notin E /\ E \in SUBSET Configured /\ U \in SUBSET Configured
    <2>1. \A k : (k \in E <=> k \in Configured /\ k < l) /\ (k \in U <=> k \in Configured /\ k <= l)
      BY EarlierAre, UpToAre
    <2> HIDE DEF E, U
    <2>2. \A k \in Configured : k <= l <=> k < l \/ k = l BY <1>1
    <2>3. ~(l < l) BY <1>1
    <2> QED BY <2>1, <2>2, <2>3
  <1> HIDE DEF E
  <1>3. SplitTotal \in Nat /\ \A k \in E \union {l} : weights[k] \in Nat /\ weights[k] <= SplitTotal BY <1>2, LabelsAre
  <1>4. IsFiniteSet(E) /\ Total(weights, E) \in Nat BY <1>2, TotalsOf
  <1>5. Total(weights, E \union {l}) = Total(weights, E) + weights[l] BY <1>2, <1>3, <1>4, TotalJoins
  <1>6. Configured \in SUBSET Configured OBVIOUS
  <1>7. Total(weights, U) <= Total(weights, Configured) BY <1>2, <1>6, TotalsOf
  <1>8. Cumulative(l) = Total(weights, U) BY DEF Cumulative
  <1>9. Total(weights, U) = Total(weights, E) + weights[l] BY <1>2, <1>5
  <1> HIDE DEF U
  <1> QED BY <1>3, <1>4, <1>7, <1>8, <1>9 DEF E

\* What comes before a label has the running total of the last of it.
LEMMA EarlierTotal ==
  ASSUME WeightTypes, NEW l \in Configured
  PROVE  \/ Earlier(l) = {} /\ Total(weights, Earlier(l)) = 0
         \/ \E k \in Earlier(l) : Total(weights, Earlier(l)) = Cumulative(k)
  <1>1. CASE Earlier(l) = {}
    <2>1. Units(weights, Earlier(l)) = {} BY <1>1 DEF Units
    <2> QED BY <1>1, <2>1, FS_EmptySet DEF Total
  <1>2. CASE Earlier(l) # {}
    <2> DEFINE L == Cardinality(VariantLabels)
    <2>1. L \in Nat /\ Configured \subseteq 1 .. L BY LabelsAre
    <2> HIDE DEF L
    <2>2. Earlier(l) \in SUBSET (0 .. L)
      <3>1. \A k \in 1 .. L : k \in 0 .. L BY <2>1
      <3> QED BY <2>1, <3>1, EarlierAre
    <2>3. PICK k \in Earlier(l) : \A j \in Earlier(l) : j <= k BY <1>2, <2>1, <2>2, LastOfNumbers
    <2>4. k \in Configured /\ k < l /\ l \in Nat /\ \A j \in Configured : j \in Nat BY <2>1, <2>3, EarlierAre
    <2> DEFINE U == {j \in Configured : j <= k}
    <2>5. U = Earlier(l)
      <3>1. \A j : (j \in Earlier(l) <=> j \in Configured /\ j < l) /\ (j \in U <=> j \in Configured /\ j <= k)
        BY EarlierAre, UpToAre
      <3> HIDE DEF U
      <3>2. \A j \in Configured : j <= k => j < l BY <2>4
      <3> QED BY <2>3, <3>1, <3>2
    <2> QED BY <2>3, <2>5 DEF Cumulative
  <1> QED BY <1>1, <1>2

\* The last label's running total is all of it.
LEMMA AllOfIt ==
  ASSUME WeightTypes, WeightsAddUp, Configured # {}
  PROVE  \E l \in Configured : Cumulative(l) = SplitTotal
  <1> DEFINE L == Cardinality(VariantLabels)
  <1>1. L \in Nat /\ Configured \subseteq 1 .. L BY LabelsAre
  <1> HIDE DEF L
  <1>2. Configured \in SUBSET (0 .. L) BY <1>1
  <1>3. PICK l \in Configured : \A j \in Configured : j <= l BY <1>1, <1>2, LastOfNumbers
  <1>4. {j \in Configured : j <= l} = Configured BY <1>3
  <1> QED BY <1>4 DEF Cumulative, WeightsAddUp

\* The buckets of a variant follow the running total of those before it.
LEMMA BucketsOf ==
  ASSUME WeightTypes, WeightsAddUp, Configured # {}, NEW l \in Configured, NEW b \in Buckets
  PROVE  BucketToVariant(b) = l <=> Total(weights, Earlier(l)) <= b /\ b < Cumulative(l)
  <1> DEFINE above == {k \in Configured : b < Cumulative(k)}
  <1>1. b \in Nat /\ b < SplitTotal /\ SplitTotal \in Nat BY RolloutAssumption DEF Buckets
  <1>2. above # {} BY <1>1, AllOfIt
  <1>3. above \in SUBSET Nat BY LabelsAre
  <1>4. BucketToVariant(b) = CHOOSE x \in above : \A y \in above : x <= y BY DEF BucketToVariant, Min
  <1>5. BucketToVariant(b) \in above /\ \A y \in above : BucketToVariant(b) <= y
    <2> HIDE DEF above
    <2>1. \E x \in above : \A y \in above : x <= y BY <1>2, <1>3, FirstOfNumbers
    <2> QED BY <1>4, <2>1
  <1> DEFINE v == BucketToVariant(b)
  <1> HIDE DEF v
  <1>6. v \in above /\ v \in Nat /\ \A y \in above : v <= y BY <1>3, <1>5 DEF v
  <1>7. ASSUME v = l PROVE Total(weights, Earlier(l)) <= b /\ b < Cumulative(l)
    <2>1. b < Cumulative(l) BY <1>6, <1>7
    <2>2. CASE Total(weights, Earlier(l)) = 0 BY <1>1, <2>1, <2>2
    <2>3. ASSUME NEW k \in Earlier(l), Total(weights, Earlier(l)) = Cumulative(k) PROVE Total(weights, Earlier(l)) <= b
      <3>1. k \in Configured /\ k < l /\ k \in Nat /\ l \in Nat BY LabelsAre DEF Earlier
      <3>2. ~(l <= k) BY <3>1
      <3>3. k \notin above BY <1>6, <1>7, <3>2
      <3>4. ~(b < Cumulative(k)) /\ Cumulative(k) \in Nat BY <3>1, <3>3, RunningTotal
      <3> QED BY <1>1, <2>3, <3>4
    <2> QED BY <2>1, <2>2, <2>3, EarlierTotal
  <1>8. ASSUME Total(weights, Earlier(l)) <= b, b < Cumulative(l) PROVE v = l
    <2>1. l \in above /\ v <= l BY <1>6, <1>8
    <2>2. ASSUME v < l PROVE FALSE
      <3>1. v \in Configured /\ b < Cumulative(v) BY <1>6
      <3> DEFINE T == Earlier(l)
                 U == {k \in Configured : k <= v}
      <3>2. l \in Nat /\ \A k \in Configured : k \in Nat BY LabelsAre
      <3>3. T \in SUBSET Configured /\ U \in SUBSET T
        <4>1. \A k : (k \in T <=> k \in Configured /\ k < l) /\ (k \in U <=> k \in Configured /\ k <= v)
          BY EarlierAre, UpToAre
        <4> HIDE DEF T, U
        <4>2. \A k \in Configured : k <= v => k < l BY <1>6, <2>2, <3>2
        <4> QED BY <4>1, <4>2
      <3> HIDE DEF T, U
      <3>4. Total(weights, U) <= Total(weights, T) /\ Total(weights, T) \in Nat BY <3>3, TotalsOf
      <3>5. Cumulative(v) = Total(weights, U) /\ Cumulative(v) \in Nat BY <3>1, RunningTotal DEF Cumulative, U
      <3>6. Total(weights, T) <= b BY <1>8 DEF T
      <3> QED BY <1>1, <3>1, <3>4, <3>5, <3>6
    <2>3. l \in Nat BY LabelsAre
    <2> QED BY <1>6, <2>1, <2>2, <2>3
  <1> QED BY <1>7, <1>8 DEF v

LEMMA ShareIsWeight ==
  ASSUME WeightTypes, WeightsAddUp, Configured # {}, NEW l \in Configured
  PROVE  Cardinality({b \in Buckets : BucketToVariant(b) = l}) = weights[l]
  <1> DEFINE lo == Total(weights, Earlier(l))
             hi == Cumulative(l)
             w == weights[l]
             mine == {b \in Buckets : BucketToVariant(b) = l}
  <1>1. hi = lo + w /\ lo \in Nat /\ w \in Nat /\ hi <= SplitTotal /\ hi \in Nat BY RunningTotal DEF WeightsAddUp
  <1>2. SplitTotal \in Nat BY RolloutAssumption
  <1>3. \A b \in Buckets : b \in mine <=> lo <= b /\ b < hi BY BucketsOf
  <1>4. Buckets = 0 .. SplitTotal - 1 /\ mine \subseteq Buckets BY DEF Buckets
  <1> HIDE DEF lo, hi, w, mine
  <1>5. mine = lo .. hi - 1
    <2>1. ASSUME NEW b \in mine PROVE b \in lo .. hi - 1
      <3>1. b \in Nat /\ lo <= b /\ b < hi BY <1>2, <1>3, <1>4
      <3> QED BY <1>1, <3>1
    <2>2. ASSUME NEW b \in lo .. hi - 1 PROVE b \in mine
      <3>1. b \in Buckets /\ lo <= b /\ b < hi BY <1>1, <1>2, <1>4
      <3> QED BY <1>3, <3>1
    <2> QED BY <2>1, <2>2
  <1>6. Cardinality(lo .. hi - 1) = IF lo > hi - 1 THEN 0 ELSE (hi - 1) - lo + 1 BY <1>1, FS_Interval
  <1>7. Cardinality(mine) = w BY <1>1, <1>5, <1>6
  <1> QED BY <1>7 DEF mine, w

LEMMA SplitInitial == SplitInit => SplitInv
  BY DEF SplitInit, SplitInv, WeightTypes

LEMMA SplitStep == SplitInv /\ [SplitNext]_splitVars => SplitInv'
  <1> SUFFICES ASSUME SplitInv, [SplitNext]_splitVars PROVE SplitInv' OBVIOUS
  <1>1. UNCHANGED weights BY DEF SplitNext, NewSplitter, Select, splitVars
  <1>2. /\ WeightTypes' <=> WeightTypes
        /\ Configured' = Configured /\ (WeightsAddUp' <=> WeightsAddUp)
        /\ \A b : BucketToVariant(b)' = BucketToVariant(b)
    BY <1>1 DEF WeightTypes, Configured, WeightsAddUp, BucketToVariant, Cumulative
  <1>3. CASE NewSplitter BY <1>2, <1>3 DEF NewSplitter, SplitInv
  <1>4. ASSUME NEW s \in SplitSessions, Select(s) PROVE SplitInv'
    <2>1. PICK b \in IF sticky THEN {s} ELSE Buckets :
            assigned' = [assigned EXCEPT ![s] = @ \union {BucketToVariant(b)}]
      BY <1>4 DEF Select
    <2>2. UNCHANGED <<weights, sticky, splitter>> BY <1>4 DEF Select
    <2>3. assigned' = [r \in SplitSessions |-> IF r = s THEN assigned[s] \union {BucketToVariant(b)} ELSE assigned[r]]
      BY <2>1 DEF SplitInv
    <2>4. sticky => b = s BY <2>1
    <2>5. ASSUME NEW r \in SplitSessions, sticky PROVE assigned'[r] \in SUBSET {BucketToVariant(r)}
      BY <2>3, <2>4, <2>5 DEF SplitInv
    <2> QED BY <1>2, <2>2, <2>3, <2>5 DEF SplitInv
  <1>5. CASE UNCHANGED splitVars BY <1>2, <1>5 DEF splitVars, SplitInv
  <1> QED BY <1>3, <1>4, <1>5 DEF SplitNext

LEMMA SplitSafe == SplitInv => SplitByWeight
  <1> SUFFICES ASSUME SplitInv, splitter = "ready"
               PROVE  /\ \A l \in Configured : Cardinality({b \in Buckets : BucketToVariant(b) = l}) = weights[l]
                      /\ sticky => \A s \in SplitSessions : Cardinality(assigned[s]) <= 1
    BY DEF SplitByWeight
  <1>1. \A l \in Configured : Cardinality({b \in Buckets : BucketToVariant(b) = l}) = weights[l]
    BY ShareIsWeight DEF SplitInv
  <1>2. ASSUME sticky, NEW s \in SplitSessions PROVE Cardinality(assigned[s]) <= 1
    <2> DEFINE one == {BucketToVariant(s)}
               A == assigned[s]
    <2>1. A \in SUBSET one BY <1>2 DEF SplitInv
    <2>2. IsFiniteSet(one) /\ Cardinality(one) = 1 BY FS_Singleton
    <2> HIDE DEF one, A
    <2>3. Cardinality(A) <= 1 BY <2>1, <2>2, FS_Subset
    <2> QED BY <2>3 DEF A
  <1> QED BY <1>1, <1>2

\* A decision about a weight is made from samples recorded at that weight only;
\* as many buckets lead to a variant as it has weight, and a sticky session
\* stays with one variant (deployment/canary.rs, advance_weight and analyze;
\* ab_testing/traffic, TrafficSplitter::new and select), for any weights.
THEOREM RolloutCorrect == RolloutSpec => []RolloutIsSound
  <1> DEFINE Inv == CanaryInv /\ SplitInv
             Next == (CanaryNext /\ UNCHANGED splitVars) \/ (SplitNext /\ UNCHANGED canaryVars)
  <1>1. CanaryInit /\ SplitInit => Inv BY SplitInitial, NoSamples DEF CanaryInit, CanaryInv
  <1>2. Inv /\ [Next]_<<canaryVars, splitVars>> => Inv'
    <2> SUFFICES ASSUME Inv, [Next]_<<canaryVars, splitVars>> PROVE Inv' OBVIOUS
    <2>1. [CanaryNext]_canaryVars /\ [SplitNext]_splitVars OBVIOUS
    <2> QED BY <2>1, CanaryStep, SplitStep
  <1>3. Inv => RolloutIsSound
    <2> SUFFICES ASSUME Inv PROVE RolloutIsSound OBVIOUS
    <2>1. DOMAIN canary.latest = 1 .. Len(canary.latest) /\ DOMAIN stable.latest = 1 .. Len(stable.latest)
      BY DEF CanaryInv, SamplesOf
    <2>2. MeasuredAtThisWeight BY <2>1 DEF CanaryInv, SamplesOf, MeasuredAtThisWeight
    <2> QED BY <2>2, SplitSafe DEF RolloutIsSound
  <1> QED BY <1>1, <1>2, <1>3, PTL DEF RolloutSpec
=============================================================================
