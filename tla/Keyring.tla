------------------------------- MODULE Keyring -------------------------------
(***************************************************************************)
(* The key file beside the database (src/db/keyring.rs, Database::open):   *)
(* services that start read it, or make it on a first start, under a file  *)
(* lock; rotate-secrets replaces the key in three durable steps.  Every    *)
(* process may stop between any two steps, and the power may fail.  A key  *)
(* is an id and its bytes (a number never drawn twice); a stored secret is *)
(* the key it was encrypted with.                                          *)
(*                                                                         *)
(* Environment: rotate-secrets is not run on a database that holds no      *)
(* secret yet, and the file system's journal keeps the order of metadata,  *)
(* so a commit of SQLite carries earlier renames with it.                  *)
(***************************************************************************)
EXTENDS Naturals, FiniteSets, FiniteSetsExt

CONSTANTS
  Services,   \* processes that open the database
  Secrets,    \* rows of shares, admins and enrolments
  FirstAdmin, \* the secret that is never deleted: an active administrator remains
  MaxKeys,    \* bound on the keys drawn
  NoKeyring, NoSecret, NoProcess

KeyIds == 1 .. MaxKeys
Keyrings == UNION {[active : KeyIds, keys : [S -> KeyIds]] : S \in SUBSET KeyIds}

ASSUME KeyringAssumption ==
  /\ FirstAdmin \in Secrets /\ MaxKeys \in Nat \ {0}
  /\ NoKeyring \notin Keyrings
  /\ NoSecret \notin [id : KeyIds, bytes : KeyIds]
  /\ NoProcess \notin Services \cup {"rotation"} /\ "rotation" \notin Services

VARIABLES
  ring,     \* secrets.keyring, or NoKeyring
  synced,   \* what of it a power failure leaves at least
  schema,   \* the database has its tables
  rows,     \* the key of every stored secret
  lock,     \* secrets.keyring.lock: its exclusive and its shared holders
  opened,   \* per service: where Database::open stands, and its keyring
  rotation, \* where rotate_database stands, and its keyring
  drawn     \* keys drawn so far

keyringVars == <<ring, synced, schema, rows, lock, opened, rotation, drawn>>

Closed == [pc |-> "off", initialize |-> FALSE, keyring |-> NoKeyring]
NoRotation == [pc |-> "off", keyring |-> NoKeyring]
Stored == {r \in Secrets : rows[r] # NoSecret}

\* An empty data directory, or one in use.
KeyringInit ==
  /\ schema \in BOOLEAN
  /\ drawn = IF schema THEN 1 ELSE 0
  /\ ring = IF schema THEN [active |-> 1, keys |-> [i \in {1} |-> 1]] ELSE NoKeyring
  /\ synced = ring
  /\ rows = [r \in Secrets |-> IF schema /\ r = FirstAdmin THEN [id |-> 1, bytes |-> 1]
                                 ELSE NoSecret]
  /\ lock = [exclusive |-> NoProcess, shared |-> {}]
  /\ opened = [p \in Services |-> Closed]
  /\ rotation = NoRotation

-----------------------------------------------------------------------------
new_stored_keyring == [active |-> 1, keys |-> [i \in {1} |-> drawn + 1]]
encrypt(keyring) == [id |-> keyring.active, bytes |-> keyring.keys[keyring.active]]
CanDecrypt(keyring, secret) ==
  secret.id \in DOMAIN keyring.keys /\ keyring.keys[secret.id] = secret.bytes

\* flock, external: converting a lock gives it up before it is taken again.
Free == lock.exclusive = NoProcess
Released(p) == [exclusive |-> IF lock.exclusive = p THEN NoProcess ELSE lock.exclusive,
                shared |-> lock.shared \ {p}]
take_exclusive(p) ==
  /\ Free /\ lock.shared = {}
  /\ lock' = [lock EXCEPT !.exclusive = p]
take_shared(p) ==
  /\ Free
  /\ lock' = [lock EXCEPT !.shared = @ \cup {p}]

-----------------------------------------------------------------------------
\* Database::open.  Whether the key file may be made is decided before the lock.
OpenAt(p, pc) == opened[p].pc = pc
To(p, pc) == opened' = [opened EXCEPT ![p].pc = pc]

open_inner(p) ==
  /\ OpenAt(p, "off")
  /\ opened' = [opened EXCEPT ![p] = [pc |-> "locking", initialize |-> ~schema,
                                      keyring |-> NoKeyring]]
  /\ UNCHANGED <<ring, synced, schema, rows, lock, rotation, drawn>>

lock_keyring(p) ==
  /\ OpenAt(p, "locking") /\ take_exclusive(p) /\ To(p, "reading")
  /\ UNCHANGED <<ring, synced, schema, rows, rotation, drawn>>

\* Its keyring is what it read: it keeps it while it converts the lock.
read_keyring(p) ==
  /\ OpenAt(p, "reading") /\ ring # NoKeyring
  /\ opened' = [opened EXCEPT ![p] = [pc |-> "converting", keyring |-> ring,
                                      initialize |-> opened[p].initialize]]
  /\ lock' = Released(p)
  /\ UNCHANGED <<ring, synced, schema, rows, rotation, drawn>>

create_keyring(p) ==
  /\ OpenAt(p, "reading") /\ ring = NoKeyring /\ opened[p].initialize
  /\ drawn < MaxKeys
  /\ drawn' = drawn + 1
  /\ ring' = new_stored_keyring
  /\ opened' = [opened EXCEPT ![p] = [pc |-> "syncing", keyring |-> ring',
                                      initialize |-> opened[p].initialize]]
  /\ UNCHANGED <<synced, schema, rows, lock, rotation>>

sync_created(p) ==
  /\ OpenAt(p, "syncing") /\ To(p, "converting")
  /\ synced' = ring /\ lock' = Released(p)
  /\ UNCHANGED <<ring, schema, rows, rotation, drawn>>

\* A missing key file of an initialized database, or a failing call.
open_fails(p) ==
  /\ opened[p].pc \notin {"off", "up"}
  /\ opened' = [opened EXCEPT ![p] = Closed] /\ lock' = Released(p)
  /\ UNCHANGED <<ring, synced, schema, rows, rotation, drawn>>

share_lock(p) ==
  /\ OpenAt(p, "converting") /\ take_shared(p) /\ To(p, "migrating")
  /\ UNCHANGED <<ring, synced, schema, rows, rotation, drawn>>

\* schema::migrate: before the key file is asked for, or on a first start now.
migrate(p) ==
  /\ OpenAt(p, "migrating") /\ To(p, "validating")
  /\ schema' = TRUE
  /\ UNCHANGED <<ring, synced, rows, lock, rotation, drawn>>

\* A service that cannot read every secret does not start.
validate_encrypted_secrets(p) ==
  /\ OpenAt(p, "validating")
  /\ \/ /\ \A r \in Stored : CanDecrypt(opened[p].keyring, rows[r])
        /\ To(p, "up") /\ UNCHANGED lock
     \/ /\ \E r \in Stored : ~CanDecrypt(opened[p].keyring, rows[r])
        /\ opened' = [opened EXCEPT ![p] = Closed] /\ lock' = Released(p)
  /\ UNCHANGED <<ring, synced, schema, rows, rotation, drawn>>

\* A running service; a commit carries earlier renames with it.
write_secret(p, r) ==
  /\ OpenAt(p, "up") /\ (r = FirstAdmin \/ FirstAdmin \in Stored)
  /\ rows' = [rows EXCEPT ![r] = encrypt(opened[p].keyring)]
  /\ synced' = ring
  /\ UNCHANGED <<ring, schema, lock, opened, rotation, drawn>>
delete_secret(p, r) ==
  /\ OpenAt(p, "up") /\ r \in Stored \ {FirstAdmin}
  /\ rows' = [rows EXCEPT ![r] = NoSecret]
  /\ synced' = ring
  /\ UNCHANGED <<ring, schema, lock, opened, rotation, drawn>>
stop(p) ==
  /\ OpenAt(p, "up")
  /\ opened' = [opened EXCEPT ![p] = Closed] /\ lock' = Released(p)
  /\ UNCHANGED <<ring, synced, schema, rows, rotation, drawn>>

-----------------------------------------------------------------------------
\* rotate_database.  The new key comes after the greatest id of the file.
\* Bug shape: the old keys go with the first step.
RotatingForgets(stored) ==
  LET id == Max(DOMAIN stored.keys) + 1
  IN [active |-> id, keys |-> [i \in {id} |-> drawn + 1]]
Rotating(stored) ==
  LET id == Max(DOMAIN stored.keys) + 1
  IN [active |-> id,
      keys |-> [i \in DOMAIN stored.keys \cup {id} |->
                  IF i = id THEN drawn + 1 ELSE stored.keys[i]]]
RotatedTo(stored) ==
  [stored EXCEPT !.keys = [i \in {stored.active} |-> stored.keys[stored.active]]]

RotationTo(pc) == rotation' = [rotation EXCEPT !.pc = pc]

rotate_secrets ==
  /\ rotation.pc = "off" /\ Stored # {}
  /\ RotationTo("locking")
  /\ UNCHANGED <<ring, synced, schema, rows, lock, opened, drawn>>
lock_rotation ==
  /\ rotation.pc = "locking" /\ take_exclusive("rotation") /\ RotationTo("locked")
  /\ UNCHANGED <<ring, synced, schema, rows, opened, drawn>>
publish_new_key ==
  /\ rotation.pc = "locked" /\ ring # NoKeyring /\ drawn < MaxKeys
  /\ drawn' = drawn + 1
  /\ ring' = Rotating(ring)
  /\ rotation' = [pc |-> "published", keyring |-> ring']
  /\ UNCHANGED <<synced, schema, rows, lock, opened>>
sync_new_key ==
  /\ rotation.pc = "published" /\ RotationTo("rewriting")
  /\ synced' = ring
  /\ UNCHANGED <<ring, schema, rows, lock, opened, drawn>>

\* One transaction over the three tables.
rotate_rows ==
  /\ rotation.pc = "rewriting"
  /\ \A r \in Stored : CanDecrypt(rotation.keyring, rows[r])
  /\ rows' = [r \in Secrets |-> IF r \in Stored THEN encrypt(rotation.keyring) ELSE NoSecret]
  /\ schema' = TRUE
  /\ RotationTo("committed")
  /\ UNCHANGED <<ring, synced, lock, opened, drawn>>
forget_old_keys ==
  /\ rotation.pc = "committed" /\ RotationTo("forgotten")
  /\ ring' = RotatedTo(rotation.keyring)
  /\ UNCHANGED <<synced, schema, rows, lock, opened, drawn>>
sync_old_keys ==
  /\ rotation.pc = "forgotten"
  /\ rotation' = NoRotation
  /\ synced' = ring /\ lock' = Released("rotation")
  /\ UNCHANGED <<ring, schema, rows, opened, drawn>>
rotation_fails ==
  /\ rotation.pc # "off"
  /\ rotation' = NoRotation /\ lock' = Released("rotation")
  /\ UNCHANGED <<ring, synced, schema, rows, opened, drawn>>

\* A rename that was not synced may be lost.
PowerFails ==
  /\ ring' \in {ring, synced} /\ synced' = ring'
  /\ opened' = [p \in Services |-> Closed]
  /\ rotation' = NoRotation
  /\ lock' = [exclusive |-> NoProcess, shared |-> {}]
  /\ UNCHANGED <<schema, rows, drawn>>

KeyringNext ==
  \/ \E p \in Services :
       \/ open_inner(p) \/ lock_keyring(p) \/ read_keyring(p) \/ create_keyring(p)
       \/ sync_created(p) \/ open_fails(p) \/ share_lock(p) \/ migrate(p)
       \/ validate_encrypted_secrets(p) \/ stop(p)
       \/ \E r \in Secrets : write_secret(p, r) \/ delete_secret(p, r)
  \/ rotate_secrets \/ lock_rotation \/ publish_new_key \/ sync_new_key
  \/ rotate_rows \/ forget_old_keys \/ sync_old_keys \/ rotation_fails
  \/ PowerFails

KeyringSpec == KeyringInit /\ [][KeyringNext]_keyringVars

-----------------------------------------------------------------------------
\* No secret is lost to a rotation, a first start or a failure between their
\* steps: the key file on the disk opens every stored secret, and the key that a
\* running service writes with is one the file keeps while the service holds the
\* lock (Keyring::open, rotate_database, validate_encrypted_secrets).
SecretsReadable ==
  /\ \A r \in Stored : ring # NoKeyring /\ CanDecrypt(ring, rows[r])
  /\ \A p \in Services : OpenAt(p, "up") =>
       ring # NoKeyring /\ CanDecrypt(ring, encrypt(opened[p].keyring))
=============================================================================
