-------------------------------- MODULE Keys --------------------------------
(***************************************************************************)
(* Key rotation and encryption at rest (security/key_rotation.rs,          *)
(* encryption_core.rs, encryption_key.rs, audit.rs).  One manager is       *)
(* shared by tasks that add and rotate keys, encrypt, and migrate what was *)
(* encrypted to the key that is active by then; apart from it, callers     *)
(* derive a machine's key from an installation salt kept in a file.        *)
(*                                                                         *)
(* A step of a task is what it does between two awaits.  add_key keeps the *)
(* key map locked while it waits for the active key's lock; every other    *)
(* lock is released before the next one is asked for.  AES-GCM, PBKDF2 and *)
(* the random generator are external: a ciphertext is the key and nonce it *)
(* was made with, a random value any value.                                *)
(***************************************************************************)
EXTENDS Naturals, Sequences, FiniteSets

CONSTANTS
    KeyTasks, SaltCallers,
    KeyValues,      \* what the generator may return for a key
    NonceValues,    \* and for a nonce
    MaxKeys,        \* bound on the keys added
    MaxSealed,      \* bound on the ciphertexts made
    NonceHistory,   \* MAX_NONCE_HISTORY
    AuditMax,       \* AuditConfig.max_events
    MaxSalts        \* bound on the salts generated

ASSUME KeysAssumption == NonceHistory \in Nat

VARIABLES
    keyring,    \* keys: id -> [key, active]
    activeKey,  \* active_key_id, 0 for none
    nextKey,    \* next_key_id
    keysHolder, \* the task that holds the keys lock for writing, if any
    keyTask,    \* what each task is doing
    nonces,     \* the nonce tracker
    sealed,     \* every ciphertext made, in order
    auditLog,   \* the last events of the audit logger
    saltFile,   \* the salt file: 0 when absent, -1 when it is too short
    saltCache,  \* INSTALLATION_SALT, 0 when it is not set
    salter,     \* what each caller of get_or_create_installation_salt is doing
    salts,      \* the salts handed out, over every run of the program
    lastSalt,   \* the salts generated so far
    saltRace    \* two callers were creating the file at the same time

keyVars == <<keyring, activeKey, nextKey, keysHolder, keyTask, nonces, sealed, auditLog>>
saltVars == <<saltFile, saltCache, salter, salts, lastSalt, saltRace>>

-----------------------------------------------------------------------------
(* Key rotation                                                                *)

KeyIdle == [at |-> "idle", op |-> "none", id |-> 0, from |-> 0]
KeyGoto(t, next) == keyTask' = [keyTask EXCEPT ![t] = next]
KeyAt(t, at) == KeyGoto(t, [keyTask[t] EXCEPT !.at = at])
KeysFree == keysHolder = {}

\* AuditLogger::log: the oldest events make room.
AuditLogged(events) ==
    LET all == auditLog \o events
    IN  SubSeq(all, IF Len(all) > AuditMax THEN Len(all) - AuditMax + 1 ELSE 1, Len(all))

KeyInit ==
    /\ keyring = <<>> /\ activeKey = 0 /\ nextKey = 1 /\ keysHolder = {}
    /\ keyTask = [t \in KeyTasks |-> KeyIdle]
    /\ nonces = {} /\ sealed = <<>> /\ auditLog = <<>>

\* rotate_key and encrypt read the active key first; migrate_file first
\* decrypts what it read.
KeyBegin(t) ==
    /\ keyTask[t].at = "idle"
    /\ \/ \E op \in {"add", "addActive"} : KeyGoto(t, [KeyIdle EXCEPT !.at = "insert", !.op = op])
       \/ \E op \in {"rotate", "encrypt"} : KeyGoto(t, [KeyIdle EXCEPT !.at = "readActive", !.op = op])
       \/ \E i \in DOMAIN sealed : KeyGoto(t, [KeyIdle EXCEPT !.at = "decrypt", !.op = "migrate", !.from = i])
    /\ UNCHANGED <<keyring, activeKey, nextKey, keysHolder, nonces, sealed, auditLog>>

\* Without an active key there is nothing to encrypt with.
ReadActive(t) ==
    /\ keyTask[t].at = "readActive"
    /\ IF keyTask[t].op = "rotate"
       THEN KeyGoto(t, [keyTask[t] EXCEPT !.at = "insert", !.id = activeKey])
       ELSE IF activeKey = 0 THEN KeyGoto(t, KeyIdle)
       ELSE KeyGoto(t, [keyTask[t] EXCEPT !.at = "cipher", !.id = activeKey])
    /\ UNCHANGED <<keyring, activeKey, nextKey, keysHolder, nonces, sealed, auditLog>>

MakesActive(t) == keyTask[t].op # "add"
WithKey(id, entry) == [i \in DOMAIN keyring \union {id} |-> IF i = id THEN entry ELSE keyring[i]]
\* add_key, up to the active key's lock.
InsertKey(t) ==
    /\ keyTask[t].at = "insert" /\ KeysFree /\ nextKey <= MaxKeys
    /\ \E k \in KeyValues : keyring' = WithKey(nextKey, [key |-> k, active |-> MakesActive(t)])
    /\ nextKey' = nextKey + 1 /\ keysHolder' = {t}
    /\ KeyAt(t, "activate")
    /\ UNCHANGED <<activeKey, nonces, sealed, auditLog>>
\* The rest of add_key; the key map's lock goes with its end.
ActivateKey(t) ==
    /\ keyTask[t].at = "activate"
    /\ activeKey' = IF MakesActive(t) THEN nextKey - 1 ELSE activeKey
    /\ keysHolder' = {}
    /\ auditLog' = AuditLogged(<<IF MakesActive(t) THEN "key_added_active" ELSE "key_added">>)
    /\ IF keyTask[t].op = "rotate" THEN KeyAt(t, "retire") ELSE KeyGoto(t, KeyIdle)
    /\ UNCHANGED <<keyring, nextKey, nonces, sealed>>
\* A slip: the key that is rotated out is removed.
RetireKeyForGood(t) ==
    /\ keyTask[t].at = "retire" /\ KeysFree
    /\ keyring' = [i \in DOMAIN keyring \ {keyTask[t].id} |-> keyring[i]]
    /\ auditLog' = AuditLogged(<<"key_rotated">>)
    /\ KeyGoto(t, KeyIdle)
    /\ UNCHANGED <<activeKey, nextKey, keysHolder, nonces, sealed>>
\* rotate_key clears the flag of the key it saw active at its beginning.
RetireKey(t) ==
    /\ keyTask[t].at = "retire" /\ KeysFree
    /\ keyring' = IF keyTask[t].id \in DOMAIN keyring
                  THEN [keyring EXCEPT ![keyTask[t].id].active = FALSE] ELSE keyring
    /\ auditLog' = AuditLogged(<<"key_rotated">>)
    /\ KeyGoto(t, KeyIdle)
    /\ UNCHANGED <<activeKey, nextKey, keysHolder, nonces, sealed>>

\* check_and_register_nonce: when the history is full any half of it goes.
Halves == {s \in SUBSET nonces : Cardinality(s) = Cardinality(nonces) - NonceHistory \div 2}
RegisterNonce(n) ==
    IF Cardinality(nonces) >= NonceHistory
    THEN \E s \in Halves : nonces' = s \union {n}
    ELSE nonces' = nonces \union {n}

\* decrypt: parse_header finds the key id, and the key must be there.
KeyDecrypt(t) ==
    /\ keyTask[t].at = "decrypt" /\ KeysFree
    /\ LET c == sealed[keyTask[t].from]
       IN  IF c.id \notin DOMAIN keyring THEN KeyAt(t, "lost")
           ELSE IF keyring[c.id].key # c.key THEN KeyAt(t, "forged")
           ELSE KeyAt(t, "readActive")
    /\ UNCHANGED <<keyring, activeKey, nextKey, keysHolder, nonces, sealed, auditLog>>

\* ModelEncryption::encrypt: a random nonce; one the tracker knows fails the call.
ModelEncrypt(id) ==
    \E n \in NonceValues :
        IF n \in nonces THEN UNCHANGED <<nonces, sealed>>
        ELSE /\ RegisterNonce(n)
             /\ sealed' = Append(sealed, [id |-> id, nonce |-> n, key |-> keyring[id].key])

\* encrypt, with the key whose id was read before.
KeyCipher(t) ==
    /\ keyTask[t].at = "cipher" /\ KeysFree /\ Len(sealed) < MaxSealed
    /\ IF keyTask[t].id \notin DOMAIN keyring
       THEN KeyAt(t, "lost") /\ UNCHANGED <<nonces, sealed>>
       ELSE KeyGoto(t, KeyIdle) /\ ModelEncrypt(keyTask[t].id)
    /\ UNCHANGED <<keyring, activeKey, nextKey, keysHolder, auditLog>>

KeyNext == \E t \in KeyTasks :
    \/ KeyBegin(t) \/ ReadActive(t) \/ InsertKey(t) \/ ActivateKey(t) \/ RetireKey(t)
    \/ KeyDecrypt(t) \/ KeyCipher(t)

-----------------------------------------------------------------------------
(* The installation salt                                                       *)

SaltInit ==
    /\ saltFile = 0 /\ saltCache = 0 /\ salts = {} /\ lastSalt = 0 /\ saltRace = FALSE
    /\ salter = [c \in SaltCallers |-> [at |-> "idle", salt |-> 0]]
SaltAt(c, at, salt) == salter' = [salter EXCEPT ![c] = [at |-> at, salt |-> salt]]
Creating == {c \in SaltCallers : salter[c].at \in {"check", "create", "write", "keep"}}

\* get_or_create_installation_salt.
SaltBegin(c) ==
    /\ salter[c].at = "idle"
    /\ IF saltCache # 0
       THEN SaltAt(c, "idle", 0) /\ salts' = salts \union {saltCache} /\ UNCHANGED saltRace
       ELSE /\ SaltAt(c, "check", 0) /\ saltRace' = (saltRace \/ Creating # {}) /\ UNCHANGED salts
    /\ UNCHANGED <<saltFile, saltCache, lastSalt>>
SaltCheck(c) ==
    /\ salter[c].at = "check"
    /\ IF saltFile > 0 THEN SaltAt(c, "keep", saltFile) /\ UNCHANGED lastSalt
       ELSE /\ lastSalt < MaxSalts
            /\ lastSalt' = lastSalt + 1 /\ SaltAt(c, "create", lastSalt')
    /\ UNCHANGED <<saltFile, saltCache, salts, saltRace>>
\* write_salt_file truncates the file before it writes it, and may fail before
\* the one or the other.
SaltCreate(c) ==
    /\ salter[c].at = "create"
    /\ \/ saltFile' = 0 - 1 /\ SaltAt(c, "write", salter[c].salt)
       \/ saltFile' \in {saltFile, 0 - 1} /\ SaltAt(c, "idle", 0)
    /\ UNCHANGED <<saltCache, salts, lastSalt, saltRace>>
SaltWrite(c) ==
    /\ salter[c].at = "write"
    /\ saltFile' = salter[c].salt /\ SaltAt(c, "keep", salter[c].salt)
    /\ UNCHANGED <<saltCache, salts, lastSalt, saltRace>>
\* OnceLock::set keeps the first salt, the caller its own.
SaltKeep(c) ==
    /\ salter[c].at = "keep"
    /\ saltCache' = IF saltCache = 0 THEN salter[c].salt ELSE saltCache
    /\ salts' = salts \union {salter[c].salt}
    /\ SaltAt(c, "idle", 0)
    /\ UNCHANGED <<saltFile, lastSalt, saltRace>>

\* The program stops anywhere and is started again: the file is what is left.
SaltRestart ==
    /\ salts # {} \/ saltFile # 0
    /\ saltCache' = 0 /\ salter' = [c \in SaltCallers |-> [at |-> "idle", salt |-> 0]]
    /\ UNCHANGED <<saltFile, salts, lastSalt, saltRace>>

SaltNext == SaltRestart \/ \E c \in SaltCallers :
    SaltBegin(c) \/ SaltCheck(c) \/ SaltCreate(c) \/ SaltWrite(c) \/ SaltKeep(c)

\* The manager and the salt share no state; their steps interleave.
KeysNext == (KeyNext /\ UNCHANGED saltVars) \/ (SaltNext /\ UNCHANGED keyVars)

KeysSpec == KeyInit /\ SaltInit /\ [][KeysNext]_<<keyVars, saltVars>>

-----------------------------------------------------------------------------
(* Whatever keys were added and rotated since, what was encrypted can be   *)
(* decrypted with the manager, and an encryption finds the key it read as  *)
(* active; until the history first fills up no two encryptions share a     *)
(* nonce.                                                                  *)
CiphertextsReadable ==
    /\ \A i \in DOMAIN sealed : sealed[i].id \in DOMAIN keyring /\ keyring[sealed[i].id].key = sealed[i].key
    /\ \A t \in KeyTasks : keyTask[t].at \notin {"lost", "forged"}
    /\ \A i, j \in DOMAIN sealed : i < j /\ j <= NonceHistory => sealed[i].nonce # sealed[j].nonce

(* A machine's key is derived from one salt over every run of the program, *)
(* whatever crash left of the file; only two callers that both found no    *)
(* file at the same time may be given different ones.                      *)
OneSaltUnlessRaced == saltRace \/ Cardinality(salts) <= 1

\* Keys outlive rotation and restarts: no ciphertext is orphaned by rotate_key,
\* no nonce repeats early (check_and_register_nonce), and the installation salt
\* is created once (get_or_create_installation_salt).
KeysUsable == CiphertextsReadable /\ OneSaltUnlessRaced
=============================================================================
