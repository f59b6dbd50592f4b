---------------------------- MODULE KeyringProofs ----------------------------
EXTENDS Keyring, WellFoundedInduction, TLAPS

\* Every key of one keyring is in another; no key of one is in the other.  Bytes
\* are never drawn twice, so they tell keys apart.
Within(k, m) ==
  \A i \in DOMAIN k.keys : i \in DOMAIN m.keys /\ m.keys[i] = k.keys[i]
Apart(k, m) ==
  \A i \in DOMAIN k.keys, j \in DOMAIN m.keys : k.keys[i] # m.keys[j]

\* The keyrings that can be in a file once n keys have been drawn.
IsKeyring(k, n) ==
  /\ k \in Keyrings
  /\ k.active \in DOMAIN k.keys
  /\ \A i \in DOMAIN k.keys : i <= n /\ k.keys[i] <= n

OpenStates == {"off", "locking", "reading", "syncing", "converting", "migrating",
               "validating", "up"}
RotationStates == {"off", "locking", "locked", "published", "rewriting", "committed",
                   "forgotten"}

KeyringTypes ==
  /\ drawn \in 0 .. MaxKeys
  /\ ring # NoKeyring => IsKeyring(ring, drawn)
  /\ synced # NoKeyring => IsKeyring(synced, drawn)
  /\ schema \in BOOLEAN
  /\ rows \in [Secrets -> [id : KeyIds, bytes : KeyIds] \cup {NoSecret}]
  /\ lock \in [exclusive : Services \cup {"rotation", NoProcess}, shared : SUBSET Services]
  /\ opened \in [Services -> [pc : OpenStates, initialize : BOOLEAN,
                              keyring : Keyrings \cup {NoKeyring}]]
  /\ rotation \in [pc : RotationStates, keyring : Keyrings \cup {NoKeyring}]

Reads == {"reading", "syncing"}
HoldsShared == {"migrating", "validating", "up"}
HasRead == {"syncing", "converting", "migrating", "validating", "up"}
Publishes == {"published", "rewriting", "committed", "forgotten"}

\* Who holds the lock.
LockHolders ==
  /\ lock.exclusive # NoProcess => lock.shared = {}
  /\ \A p \in Services : /\ opened[p].pc \in Reads => lock.exclusive = p
                         /\ opened[p].pc \in HoldsShared => p \in lock.shared
  /\ rotation.pc \in {"locked"} \cup Publishes => lock.exclusive = "rotation"

\* Both the file and what a power failure leaves of it open the stored secrets.
Readable ==
  \A r \in Stored : /\ ring # NoKeyring /\ CanDecrypt(ring, rows[r])
                    /\ synced # NoKeyring /\ CanDecrypt(synced, rows[r])

\* The first administrator's secret comes first and stays.
AdminKept ==
  Stored # {} \/ rotation.pc # "off" => FirstAdmin \in Stored

\* What a service has read is still in the file, or all of it has been rotated
\* away, and then a stored secret will tell.
OpenedKeyrings ==
  \A p \in Services : opened[p].pc \in HasRead =>
    /\ ring # NoKeyring /\ IsKeyring(opened[p].keyring, drawn)
    /\ opened[p].pc = "syncing" => opened[p].keyring = ring
    /\ \/ Within(opened[p].keyring, ring)
       \/ /\ Apart(opened[p].keyring, ring) /\ FirstAdmin \in Stored
          /\ opened[p].pc # "up"

\* The file during a rotation; its new key is known to no service.
RotationKeyring ==
  rotation.pc \in Publishes =>
    /\ IsKeyring(rotation.keyring, drawn)
    /\ ring = IF rotation.pc = "forgotten" THEN RotatedTo(rotation.keyring) ELSE rotation.keyring
    /\ rotation.pc # "published" => synced = rotation.keyring
    /\ rotation.pc \in {"committed", "forgotten"} =>
         \A r \in Stored : rows[r] = encrypt(rotation.keyring)
    /\ \A p \in Services : opened[p].pc \in HasRead =>
         \A i \in DOMAIN opened[p].keyring.keys :
           opened[p].keyring.keys[i] # rotation.keyring.keys[rotation.keyring.active]

KeyringInv ==
  /\ KeyringTypes /\ LockHolders /\ Readable /\ AdminKept
  /\ OpenedKeyrings /\ RotationKeyring

-----------------------------------------------------------------------------
\* The greatest element of a bounded set of numbers.
LEMMA MaxProp ==
  ASSUME NEW n \in Nat, NEW S \in SUBSET (1 .. n), S # {}
  PROVE  Max(S) \in S /\ \A y \in S : y <= Max(S)
<1> DEFINE R == {ss \in Nat \X Nat : ss[1] < ss[2]}
           U == {k \in Nat : \A y \in S : y <= k}
<1>1. IsWellFoundedOn(R, Nat)
  BY NatLessThanWellFounded DEF OpToRel
<1>2. n \in U
  OBVIOUS
<1>3. PICK k \in U : \A j \in U : ~(<<j, k>> \in R)
  <2> HIDE DEF R
  <2> QED BY <1>1, <1>2, WFMin, Zenon
<1>4. k \in S
  <2>1. SUFFICES ASSUME k \notin S PROVE FALSE
    OBVIOUS
  <2>2. k \in Nat /\ \A y \in S : y \in 1 .. n /\ y <= k /\ y # k
    BY <2>1
  <2>3. PICK y \in S : TRUE
    BY Zenon
  <2>4. k > 0 /\ k - 1 \in Nat
    BY <2>2, <2>3
  <2>5. \A z \in S : z <= k - 1
    BY <2>2
  <2>6. k - 1 \in U
    BY <2>4, <2>5
  <2>7. <<k - 1, k>> \in R
    BY <2>2, <2>4
  <2> QED BY <1>3, <2>6, <2>7
<1>5. QED BY <1>3, <1>4, Zenon DEF Max

\* What a keyring is made of.
LEMMA KeyringShape ==
  ASSUME NEW k \in Keyrings
  PROVE  /\ k.active \in KeyIds /\ DOMAIN k.keys \in SUBSET KeyIds
         /\ k.keys \in [DOMAIN k.keys -> KeyIds]
         /\ k = [active |-> k.active, keys |-> k.keys]
<1>1. PICK S \in SUBSET KeyIds : k \in [active : KeyIds, keys : [S -> KeyIds]]
  BY DEF Keyrings
<1> QED BY <1>1

LEMMA MakeKeyring ==
  ASSUME NEW S \in SUBSET KeyIds, NEW f \in [S -> KeyIds], NEW a \in KeyIds
  PROVE  [active |-> a, keys |-> f] \in Keyrings
<1>1. [active |-> a, keys |-> f] \in [active : KeyIds, keys : [S -> KeyIds]]
  OBVIOUS
<1> QED BY <1>1 DEF Keyrings

\* The key file of a first start holds one key.
LEMMA FirstKeyring ==
  ASSUME NEW n \in KeyIds
  PROVE  IsKeyring([active |-> 1, keys |-> [i \in {1} |-> n]], n)
<1> DEFINE f == [i \in {1} |-> n]
<1>1. f \in [{1} -> KeyIds] /\ 1 \in KeyIds /\ 1 <= n /\ DOMAIN f = {1} /\ f[1] = n
  BY KeyringAssumption DEF KeyIds
<1> HIDE DEF f
<1>2. [active |-> 1, keys |-> f] \in Keyrings
  BY <1>1, MakeKeyring
<1>3. IsKeyring([active |-> 1, keys |-> f], n)
  BY <1>1, <1>2, KeyringAssumption DEF IsKeyring, KeyIds
<1> QED BY <1>3 DEF f

\* Later draws leave a keyring one.
LEMMA DrawnMore ==
  ASSUME NEW n \in Nat, NEW k, IsKeyring(k, n)
  PROVE  IsKeyring(k, n + 1)
<1>1. \A i \in DOMAIN k.keys : i \in Nat /\ k.keys[i] \in Nat
  BY KeyringShape, KeyringAssumption DEF IsKeyring, KeyIds
<1> QED BY <1>1 DEF IsKeyring

\* A rotation adds one key, which nobody has, and keeps the others.
LEMMA RotatingAdds ==
  ASSUME NEW k, drawn \in 0 .. MaxKeys, drawn < MaxKeys, IsKeyring(k, drawn)
  PROVE  /\ IsKeyring(Rotating(k), drawn + 1)
         /\ Within(k, Rotating(k))
         /\ Rotating(k).keys[Rotating(k).active] = drawn + 1
         /\ \A i \in DOMAIN Rotating(k).keys :
              Rotating(k).keys[i] = drawn + 1 \/ (i \in DOMAIN k.keys /\ Rotating(k).keys[i] = k.keys[i])
<1> DEFINE D == DOMAIN k.keys
           id == Max(D) + 1
           f == [i \in D \cup {id} |-> IF i = id THEN drawn + 1 ELSE k.keys[i]]
<1>1. /\ k.active \in D /\ D \in SUBSET KeyIds /\ k.keys \in [D -> KeyIds]
      /\ \A i \in D : i <= drawn /\ k.keys[i] <= drawn
  BY KeyringShape DEF IsKeyring
<1>2. Max(D) \in D /\ \A i \in D : i <= Max(D)
  <2> HIDE DEF D
  <2> QED BY <1>1, MaxProp, KeyringAssumption, Zenon DEF KeyIds
<1>3. id \in KeyIds /\ id <= drawn + 1 /\ id \notin D /\ drawn + 1 \in KeyIds
  <2> DEFINE x == Max(D)
  <2>1. x \in D /\ \A i \in D : i <= x
    BY <1>2
  <2> HIDE DEF x, D
  <2>2. x + 1 \in KeyIds /\ x + 1 <= drawn + 1 /\ x + 1 \notin D /\ drawn + 1 \in KeyIds
    BY <1>1, <2>1, KeyringAssumption DEF KeyIds
  <2> QED BY <2>2 DEF x
<1>4. Rotating(k) = [active |-> id, keys |-> f]
  BY DEF Rotating
<1> HIDE DEF id, D
<1>5. /\ f \in [D \cup {id} -> KeyIds] /\ DOMAIN f = D \cup {id} /\ f[id] = drawn + 1
      /\ \A i \in D : f[i] = k.keys[i] /\ f[i] <= drawn + 1 /\ i <= drawn + 1
  BY <1>1, <1>3, KeyringAssumption DEF KeyIds
<1> HIDE DEF f
<1>6. Rotating(k) \in Keyrings
  BY <1>1, <1>3, <1>4, <1>5, MakeKeyring
<1>7. Rotating(k).active = id /\ Rotating(k).keys = f
  BY <1>4
<1> QED BY <1>3, <1>5, <1>6, <1>7 DEF IsKeyring, Within, D

\* Forgetting the old keys leaves the active one.
LEMMA RotatedToKeeps ==
  ASSUME NEW n, NEW k, IsKeyring(k, n)
  PROVE  /\ IsKeyring(RotatedTo(k), n)
         /\ RotatedTo(k).active = k.active /\ DOMAIN RotatedTo(k).keys = {k.active}
         /\ RotatedTo(k).keys[k.active] = k.keys[k.active]
<1> DEFINE f == [i \in {k.active} |-> k.keys[k.active]]
<1>1. /\ k = [active |-> k.active, keys |-> k.keys]
      /\ k.active \in KeyIds /\ k.active \in DOMAIN k.keys /\ k.keys[k.active] \in KeyIds
      /\ \A i \in DOMAIN k.keys : i <= n /\ k.keys[i] <= n
  BY KeyringShape DEF IsKeyring
<1>2. RotatedTo(k) = [active |-> k.active, keys |-> f]
  BY <1>1 DEF RotatedTo
<1>3. f \in [{k.active} -> KeyIds] /\ DOMAIN f = {k.active} /\ f[k.active] = k.keys[k.active]
  BY <1>1
<1> HIDE DEF f
<1>4. RotatedTo(k) \in Keyrings
  BY <1>1, <1>2, <1>3, MakeKeyring
<1>5. RotatedTo(k).active = k.active /\ RotatedTo(k).keys = f
  BY <1>2
<1> QED BY <1>1, <1>3, <1>4, <1>5 DEF IsKeyring
-----------------------------------------------------------------------------
\* STEPS
USE DEF OpenStates, RotationStates, Reads, HoldsShared, HasRead, Publishes

\* Steps of a service that change neither the file nor the rows.
LEMMA OpenInnerStep ==
  ASSUME KeyringInv, NEW p \in Services, open_inner(p)
  PROVE  KeyringInv'
<1>1. KeyringTypes'
  BY KeyringAssumption DEF KeyringInv, KeyringTypes, open_inner, OpenAt
<1>2. LockHolders'
  BY KeyringAssumption DEF KeyringInv, KeyringTypes, LockHolders, open_inner, OpenAt
<1>3. Readable' /\ AdminKept'
  BY KeyringAssumption DEF KeyringInv, KeyringTypes, LockHolders, Readable, AdminKept,
      OpenedKeyrings, RotationKeyring, Stored, open_inner, OpenAt
<1>4. OpenedKeyrings'
  BY KeyringAssumption DEF KeyringInv, KeyringTypes, LockHolders, Readable, OpenedKeyrings,
      Stored, open_inner, OpenAt
<1>5. RotationKeyring'
  BY KeyringAssumption DEF KeyringInv, KeyringTypes, LockHolders, Readable, OpenedKeyrings,
      RotationKeyring, Stored, open_inner, OpenAt
<1> QED BY <1>1, <1>2, <1>3, <1>4, <1>5 DEF KeyringInv

LEMMA LockKeyringStep ==
  ASSUME KeyringInv, NEW p \in Services, lock_keyring(p)
  PROVE  KeyringInv'
<1>1. KeyringTypes'
  BY KeyringAssumption DEF KeyringInv, KeyringTypes, lock_keyring, OpenAt, To, take_exclusive, Free
<1>2. LockHolders'
  BY KeyringAssumption DEF KeyringInv, KeyringTypes, LockHolders, lock_keyring, OpenAt, To,
      take_exclusive, Free
<1>3. Readable' /\ AdminKept'
  BY KeyringAssumption DEF KeyringInv, KeyringTypes, LockHolders, Readable, AdminKept,
      OpenedKeyrings, RotationKeyring, Stored, lock_keyring, OpenAt, To, take_exclusive, Free
<1>4. OpenedKeyrings'
  BY KeyringAssumption DEF KeyringInv, KeyringTypes, LockHolders, Readable, OpenedKeyrings,
      Stored, lock_keyring, OpenAt, To, take_exclusive, Free
<1>5. RotationKeyring'
  BY KeyringAssumption DEF KeyringInv, KeyringTypes, LockHolders, Readable, OpenedKeyrings,
      RotationKeyring, Stored, lock_keyring, OpenAt, To, take_exclusive, Free
<1> QED BY <1>1, <1>2, <1>3, <1>4, <1>5 DEF KeyringInv

LEMMA SyncCreatedStep ==
  ASSUME KeyringInv, NEW p \in Services, sync_created(p)
  PROVE  KeyringInv'
<1>1. KeyringTypes'
  BY KeyringAssumption DEF KeyringInv, KeyringTypes, sync_created, OpenAt, To, Released
<1>2. LockHolders'
  BY KeyringAssumption DEF KeyringInv, KeyringTypes, LockHolders, sync_created, OpenAt, To, Released
<1>3. Readable' /\ AdminKept'
  BY KeyringAssumption DEF KeyringInv, KeyringTypes, LockHolders, Readable, AdminKept,
      OpenedKeyrings, RotationKeyring, Stored, sync_created, OpenAt, To, Released
<1>4. OpenedKeyrings'
  BY KeyringAssumption DEF KeyringInv, KeyringTypes, LockHolders, Readable, OpenedKeyrings,
      Stored, sync_created, OpenAt, To, Released
<1>5. RotationKeyring'
  BY KeyringAssumption DEF KeyringInv, KeyringTypes, LockHolders, Readable, OpenedKeyrings,
      RotationKeyring, Stored, sync_created, OpenAt, To, Released
<1> QED BY <1>1, <1>2, <1>3, <1>4, <1>5 DEF KeyringInv

LEMMA OpenFailsStep ==
  ASSUME KeyringInv, NEW p \in Services, open_fails(p)
  PROVE  KeyringInv'
<1>1. KeyringTypes'
  BY KeyringAssumption DEF KeyringInv, KeyringTypes, open_fails, Closed, Released
<1>2. LockHolders'
  BY KeyringAssumption DEF KeyringInv, KeyringTypes, LockHolders, open_fails, Closed, Released
<1>3. Readable' /\ AdminKept'
  BY KeyringAssumption DEF KeyringInv, KeyringTypes, LockHolders, Readable, AdminKept,
      OpenedKeyrings, RotationKeyring, Stored, open_fails, Closed, Released
<1>4. OpenedKeyrings'
  BY KeyringAssumption DEF KeyringInv, KeyringTypes, LockHolders, Readable, OpenedKeyrings,
      Stored, open_fails, Closed, Released
<1>5. RotationKeyring'
  BY KeyringAssumption DEF KeyringInv, KeyringTypes, LockHolders, Readable, OpenedKeyrings,
      RotationKeyring, Stored, open_fails, Closed, Released
<1> QED BY <1>1, <1>2, <1>3, <1>4, <1>5 DEF KeyringInv

LEMMA ShareLockStep ==
  ASSUME KeyringInv, NEW p \in Services, share_lock(p)
  PROVE  KeyringInv'
<1>1. KeyringTypes'
  BY KeyringAssumption DEF KeyringInv, KeyringTypes, share_lock, OpenAt, To, take_shared, Free
<1>2. LockHolders'
  BY KeyringAssumption DEF KeyringInv, KeyringTypes, LockHolders, share_lock, OpenAt, To,
      take_shared, Free
<1>3. Readable' /\ AdminKept'
  BY KeyringAssumption DEF KeyringInv, KeyringTypes, LockHolders, Readable, AdminKept,
      OpenedKeyrings, RotationKeyring, Stored, share_lock, OpenAt, To, take_shared, Free
<1>4. OpenedKeyrings'
  BY KeyringAssumption DEF KeyringInv, KeyringTypes, LockHolders, Readable, OpenedKeyrings,
      Stored, share_lock, OpenAt, To, take_shared, Free
<1>5. RotationKeyring'
  BY KeyringAssumption DEF KeyringInv, KeyringTypes, LockHolders, Readable, OpenedKeyrings,
      RotationKeyring, Stored, share_lock, OpenAt, To, take_shared, Free
<1> QED BY <1>1, <1>2, <1>3, <1>4, <1>5 DEF KeyringInv

LEMMA MigrateStep ==
  ASSUME KeyringInv, NEW p \in Services, migrate(p)
  PROVE  KeyringInv'
<1>1. KeyringTypes'
  BY KeyringAssumption DEF KeyringInv, KeyringTypes, migrate, OpenAt, To
<1>2. LockHolders'
  BY KeyringAssumption DEF KeyringInv, KeyringTypes, LockHolders, migrate, OpenAt, To
<1>3. Readable' /\ AdminKept'
  BY KeyringAssumption DEF KeyringInv, KeyringTypes, LockHolders, Readable, AdminKept,
      OpenedKeyrings, RotationKeyring, Stored, migrate, OpenAt, To
<1>4. OpenedKeyrings'
  BY KeyringAssumption DEF KeyringInv, KeyringTypes, LockHolders, Readable, OpenedKeyrings,
      Stored, migrate, OpenAt, To
<1>5. RotationKeyring'
  BY KeyringAssumption DEF KeyringInv, KeyringTypes, LockHolders, Readable, OpenedKeyrings,
      RotationKeyring, Stored, migrate, OpenAt, To
<1> QED BY <1>1, <1>2, <1>3, <1>4, <1>5 DEF KeyringInv

LEMMA StopStep ==
  ASSUME KeyringInv, NEW p \in Services, stop(p)
  PROVE  KeyringInv'
<1>1. KeyringTypes'
  BY KeyringAssumption DEF KeyringInv, KeyringTypes, stop, OpenAt, Closed, Released
<1>2. LockHolders'
  BY KeyringAssumption DEF KeyringInv, KeyringTypes, LockHolders, stop, OpenAt, Closed, Released
<1>3. Readable' /\ AdminKept'
  BY KeyringAssumption DEF KeyringInv, KeyringTypes, LockHolders, Readable, AdminKept,
      OpenedKeyrings, RotationKeyring, Stored, stop, OpenAt, Closed, Released
<1>4. OpenedKeyrings'
  BY KeyringAssumption DEF KeyringInv, KeyringTypes, LockHolders, Readable, OpenedKeyrings,
      Stored, stop, OpenAt, Closed, Released
<1>5. RotationKeyring'
  BY KeyringAssumption DEF KeyringInv, KeyringTypes, LockHolders, Readable, OpenedKeyrings,
      RotationKeyring, Stored, stop, OpenAt, Closed, Released
<1> QED BY <1>1, <1>2, <1>3, <1>4, <1>5 DEF KeyringInv

LEMMA ServiceStep ==
  ASSUME KeyringInv, NEW p \in Services,
         \/ open_inner(p) \/ lock_keyring(p) \/ sync_created(p) \/ open_fails(p)
         \/ share_lock(p) \/ migrate(p) \/ stop(p)
  PROVE  KeyringInv'
BY OpenInnerStep, LockKeyringStep, SyncCreatedStep, OpenFailsStep, ShareLockStep, MigrateStep,
      StopStep, Zenon

\* Steps of a rotation that write neither, and a power failure.
LEMMA RotateSecretsStep ==
  ASSUME KeyringInv, rotate_secrets
  PROVE  KeyringInv'
<1>1. KeyringTypes'
  BY KeyringAssumption DEF KeyringInv, KeyringTypes, rotate_secrets, RotationTo
<1>2. LockHolders'
  BY KeyringAssumption DEF KeyringInv, KeyringTypes, LockHolders, rotate_secrets, RotationTo
<1>3. Readable' /\ AdminKept'
  BY KeyringAssumption DEF KeyringInv, KeyringTypes, LockHolders, Readable, AdminKept,
      OpenedKeyrings, RotationKeyring, Stored, rotate_secrets, RotationTo
<1>4. OpenedKeyrings'
  BY KeyringAssumption DEF KeyringInv, KeyringTypes, LockHolders, Readable, OpenedKeyrings,
      Stored, rotate_secrets, RotationTo
<1>5. RotationKeyring'
  BY KeyringAssumption DEF KeyringInv, KeyringTypes, LockHolders, Readable, OpenedKeyrings,
      RotationKeyring, Stored, rotate_secrets, RotationTo
<1> QED BY <1>1, <1>2, <1>3, <1>4, <1>5 DEF KeyringInv

LEMMA LockRotationStep ==
  ASSUME KeyringInv, lock_rotation
  PROVE  KeyringInv'
<1>1. KeyringTypes'
  BY KeyringAssumption DEF KeyringInv, KeyringTypes, lock_rotation, RotationTo, take_exclusive, Free
<1>2. LockHolders'
  BY KeyringAssumption DEF KeyringInv, KeyringTypes, LockHolders, lock_rotation, RotationTo,
      take_exclusive, Free
<1>3. Readable' /\ AdminKept'
  BY KeyringAssumption DEF KeyringInv, KeyringTypes, LockHolders, Readable, AdminKept,
      OpenedKeyrings, RotationKeyring, Stored, lock_rotation, RotationTo, take_exclusive, Free
<1>4. OpenedKeyrings'
  BY KeyringAssumption DEF KeyringInv, KeyringTypes, LockHolders, Readable, OpenedKeyrings,
      Stored, lock_rotation, RotationTo, take_exclusive, Free
<1>5. RotationKeyring'
  BY KeyringAssumption DEF KeyringInv, KeyringTypes, LockHolders, Readable, OpenedKeyrings,
      RotationKeyring, Stored, lock_rotation, RotationTo, take_exclusive, Free
<1> QED BY <1>1, <1>2, <1>3, <1>4, <1>5 DEF KeyringInv

LEMMA SyncNewKeyStep ==
  ASSUME KeyringInv, sync_new_key
  PROVE  KeyringInv'
<1>1. KeyringTypes'
  BY KeyringAssumption DEF KeyringInv, KeyringTypes, sync_new_key, RotationTo
<1>2. LockHolders'
  BY KeyringAssumption DEF KeyringInv, KeyringTypes, LockHolders, sync_new_key, RotationTo
<1>3. Readable' /\ AdminKept'
  BY KeyringAssumption DEF KeyringInv, KeyringTypes, LockHolders, Readable, AdminKept,
      OpenedKeyrings, RotationKeyring, Stored, sync_new_key, RotationTo
<1>4. OpenedKeyrings'
  BY KeyringAssumption DEF KeyringInv, KeyringTypes, LockHolders, Readable, OpenedKeyrings,
      Stored, sync_new_key, RotationTo
<1>5. RotationKeyring'
  BY KeyringAssumption DEF KeyringInv, KeyringTypes, LockHolders, Readable, OpenedKeyrings,
      RotationKeyring, Stored, sync_new_key, RotationTo
<1> QED BY <1>1, <1>2, <1>3, <1>4, <1>5 DEF KeyringInv

LEMMA SyncOldKeysStep ==
  ASSUME KeyringInv, sync_old_keys
  PROVE  KeyringInv'
<1>1. KeyringTypes'
  BY KeyringAssumption DEF KeyringInv, KeyringTypes, sync_old_keys, NoRotation, Released
<1>2. LockHolders'
  BY KeyringAssumption DEF KeyringInv, KeyringTypes, LockHolders, sync_old_keys, NoRotation,
      Released
<1>3. Readable' /\ AdminKept'
  BY KeyringAssumption DEF KeyringInv, KeyringTypes, LockHolders, Readable, AdminKept,
      OpenedKeyrings, RotationKeyring, Stored, sync_old_keys, NoRotation, Released
<1>4. OpenedKeyrings'
  BY KeyringAssumption DEF KeyringInv, KeyringTypes, LockHolders, Readable, OpenedKeyrings,
      Stored, sync_old_keys, NoRotation, Released
<1>5. RotationKeyring'
  BY KeyringAssumption DEF KeyringInv, KeyringTypes, LockHolders, Readable, OpenedKeyrings,
      RotationKeyring, Stored, sync_old_keys, NoRotation, Released
<1> QED BY <1>1, <1>2, <1>3, <1>4, <1>5 DEF KeyringInv

LEMMA RotationFailsStep ==
  ASSUME KeyringInv, rotation_fails
  PROVE  KeyringInv'
<1>1. KeyringTypes'
  BY KeyringAssumption DEF KeyringInv, KeyringTypes, rotation_fails, NoRotation, Released
<1>2. LockHolders'
  BY KeyringAssumption DEF KeyringInv, KeyringTypes, LockHolders, rotation_fails, NoRotation,
      Released
<1>3. Readable' /\ AdminKept'
  BY KeyringAssumption DEF KeyringInv, KeyringTypes, LockHolders, Readable, AdminKept,
      OpenedKeyrings, RotationKeyring, Stored, rotation_fails, NoRotation, Released
<1>4. OpenedKeyrings'
  BY KeyringAssumption DEF KeyringInv, KeyringTypes, LockHolders, Readable, OpenedKeyrings,
      Stored, rotation_fails, NoRotation, Released
<1>5. RotationKeyring'
  BY KeyringAssumption DEF KeyringInv, KeyringTypes, LockHolders, Readable, OpenedKeyrings,
      RotationKeyring, Stored, rotation_fails, NoRotation, Released
<1> QED BY <1>1, <1>2, <1>3, <1>4, <1>5 DEF KeyringInv

LEMMA PowerFailsStep ==
  ASSUME KeyringInv, PowerFails
  PROVE  KeyringInv'
<1>1. KeyringTypes'
  BY KeyringAssumption DEF KeyringInv, KeyringTypes, PowerFails, NoRotation, Closed
<1>2. LockHolders'
  BY KeyringAssumption DEF KeyringInv, KeyringTypes, LockHolders, PowerFails, NoRotation, Closed
<1>3. Readable' /\ AdminKept'
  BY KeyringAssumption DEF KeyringInv, KeyringTypes, LockHolders, Readable, AdminKept,
      OpenedKeyrings, RotationKeyring, Stored, PowerFails, NoRotation, Closed
<1>4. OpenedKeyrings'
  BY KeyringAssumption DEF KeyringInv, KeyringTypes, LockHolders, Readable, OpenedKeyrings,
      Stored, PowerFails, NoRotation, Closed
<1>5. RotationKeyring'
  BY KeyringAssumption DEF KeyringInv, KeyringTypes, LockHolders, Readable, OpenedKeyrings,
      RotationKeyring, Stored, PowerFails, NoRotation, Closed
<1> QED BY <1>1, <1>2, <1>3, <1>4, <1>5 DEF KeyringInv

LEMMA RotationStep ==
  ASSUME KeyringInv,
         rotate_secrets \/ lock_rotation \/ sync_new_key \/ sync_old_keys \/ rotation_fails
         \/ PowerFails
  PROVE  KeyringInv'
BY RotateSecretsStep, LockRotationStep, SyncNewKeyStep, SyncOldKeysStep, RotationFailsStep,
      PowerFailsStep, Zenon

\* A starting service takes the keyring the file holds.
LEMMA ReadStep ==
  ASSUME KeyringInv, NEW p \in Services, read_keyring(p)
  PROVE  KeyringInv'
<1> USE KeyringAssumption DEF KeyringInv, KeyringTypes, read_keyring, OpenAt, Released
<1>1. KeyringTypes'
  <2>1. ring \in Keyrings
    BY DEF IsKeyring
  <2>2. opened' \in [Services -> [pc : OpenStates, initialize : BOOLEAN,
                                  keyring : Keyrings \cup {NoKeyring}]]
    BY <2>1
  <2> QED BY <2>2
<1>2. LockHolders' /\ Readable' /\ AdminKept'
  BY DEF LockHolders, Readable, AdminKept, Stored
<1>3. OpenedKeyrings'
  <2>1. Within(ring, ring)
    BY DEF Within
  <2> QED BY <2>1 DEF OpenedKeyrings, Stored
<1>4. RotationKeyring'
  BY DEF RotationKeyring, LockHolders, Stored
<1> QED BY <1>1, <1>2, <1>3, <1>4

\* The first keyring is made while nothing is stored and nobody has read one.
LEMMA CreateStep ==
  ASSUME KeyringInv, NEW p \in Services, create_keyring(p)
  PROVE  KeyringInv'
<1>1. /\ opened[p].pc = "reading" /\ ring = NoKeyring
      /\ drawn \in 0 .. MaxKeys /\ drawn < MaxKeys /\ drawn' = drawn + 1
      /\ ring' = new_stored_keyring
      /\ opened' = [opened EXCEPT ![p] = [pc |-> "syncing", keyring |-> ring',
                                         initialize |-> opened[p].initialize]]
      /\ UNCHANGED <<synced, schema, rows, lock, rotation>>
  BY DEF KeyringInv, KeyringTypes, create_keyring, OpenAt
<1>2. IsKeyring(ring', drawn')
  <2>1. drawn + 1 \in KeyIds
    BY <1>1, KeyringAssumption DEF KeyIds
  <2> QED BY <1>1, <2>1, FirstKeyring, Zenon DEF new_stored_keyring
<1>3. ring' \in Keyrings /\ ring' # NoKeyring
  BY <1>2, KeyringAssumption DEF IsKeyring
<1>4. Stored = {} /\ \A q \in Services : opened[q].pc \notin HasRead
  BY <1>1 DEF KeyringInv, Readable, OpenedKeyrings
<1>5. KeyringTypes'
  <2>1. opened' \in [Services -> [pc : OpenStates, initialize : BOOLEAN,
                                  keyring : Keyrings \cup {NoKeyring}]]
    BY <1>1, <1>3 DEF KeyringInv, KeyringTypes
  <2>2. synced' # NoKeyring => IsKeyring(synced', drawn')
    BY <1>1, DrawnMore, KeyringAssumption DEF KeyringInv, KeyringTypes
  <2> QED BY <1>1, <1>2, <2>1, <2>2, KeyringAssumption DEF KeyringInv, KeyringTypes
<1>6. LockHolders' /\ Readable' /\ AdminKept'
  BY <1>1, <1>4 DEF KeyringInv, KeyringTypes, LockHolders, Readable, AdminKept, Stored
<1>7. OpenedKeyrings'
  <2>1. Within(ring', ring')
    BY DEF Within
  <2>2. opened'[p].keyring = ring' /\ \A q \in Services : q # p => opened'[q].pc \notin HasRead
    BY <1>1, <1>4 DEF KeyringInv, KeyringTypes
  <2> QED BY <1>2, <1>3, <2>1, <2>2 DEF OpenedKeyrings
<1>8. RotationKeyring'
  BY <1>1, KeyringAssumption DEF KeyringInv, RotationKeyring, LockHolders
<1> QED BY <1>5, <1>6, <1>7, <1>8 DEF KeyringInv

\* Validation lets a service up only with a keyring the file still has.
LEMMA ValidationFailsStep ==
  ASSUME KeyringInv, NEW p \in Services, validate_encrypted_secrets(p),
         opened' = [opened EXCEPT ![p] = Closed] /\ lock' = Released(p)
  PROVE  KeyringInv'
<1>1. UNCHANGED <<ring, synced, schema, rows, rotation, drawn>> /\ opened[p].pc = "validating"
  BY DEF validate_encrypted_secrets, OpenAt
<1>2. KeyringTypes'
  BY <1>1, KeyringAssumption DEF KeyringInv, KeyringTypes, Closed, Released
<1>3. LockHolders'
  BY <1>1, KeyringAssumption DEF KeyringInv, KeyringTypes, LockHolders, Closed, Released
<1>4. Readable' /\ AdminKept'
  BY <1>1 DEF KeyringInv, Readable, AdminKept, Stored
<1>5. OpenedKeyrings'
  BY <1>1 DEF KeyringInv, KeyringTypes, OpenedKeyrings, Stored, Closed
<1>6. RotationKeyring'
  BY <1>1 DEF KeyringInv, KeyringTypes, RotationKeyring, Stored, Closed
<1> QED BY <1>2, <1>3, <1>4, <1>5, <1>6 DEF KeyringInv

LEMMA ValidationStep ==
  ASSUME KeyringInv, NEW p \in Services, validate_encrypted_secrets(p),
         /\ \A r \in Stored : CanDecrypt(opened[p].keyring, rows[r])
         /\ To(p, "up") /\ UNCHANGED lock
  PROVE  KeyringInv'
<1>1. UNCHANGED <<ring, synced, schema, rows, rotation, drawn>> /\ opened[p].pc = "validating"
  BY DEF validate_encrypted_secrets, OpenAt
<1>2. ~(Apart(opened[p].keyring, ring) /\ FirstAdmin \in Stored)
  BY DEF KeyringInv, Readable, Apart, CanDecrypt
<1>3. KeyringTypes' /\ LockHolders'
  BY <1>1 DEF KeyringInv, KeyringTypes, LockHolders, To
<1>4. Readable' /\ AdminKept'
  BY <1>1 DEF KeyringInv, Readable, AdminKept, Stored
<1>5. OpenedKeyrings'
  BY <1>1, <1>2 DEF KeyringInv, KeyringTypes, OpenedKeyrings, Stored, To
<1>6. RotationKeyring'
  BY <1>1 DEF KeyringInv, KeyringTypes, LockHolders, RotationKeyring, Stored, To
<1> QED BY <1>3, <1>4, <1>5, <1>6 DEF KeyringInv

LEMMA ValidateStep ==
  ASSUME KeyringInv, NEW p \in Services, validate_encrypted_secrets(p)
  PROVE  KeyringInv'
BY ValidationFailsStep, ValidationStep DEF validate_encrypted_secrets

\* A running service writes under a key of the file.
LEMMA DeleteStep ==
  ASSUME KeyringInv, NEW p \in Services, NEW r \in Secrets, delete_secret(p, r)
  PROVE  KeyringInv'
<1>1. KeyringTypes' /\ LockHolders'
  BY DEF KeyringInv, KeyringTypes, LockHolders, delete_secret
<1>2. Readable' /\ AdminKept'
  BY DEF KeyringInv, KeyringTypes, LockHolders, Readable, AdminKept, Stored, delete_secret
<1>3. OpenedKeyrings'
  BY DEF KeyringInv, KeyringTypes, OpenedKeyrings, Stored, delete_secret
<1>4. RotationKeyring'
  BY KeyringAssumption DEF KeyringInv, KeyringTypes, LockHolders, RotationKeyring, OpenAt,
    delete_secret
<1> QED BY <1>1, <1>2, <1>3, <1>4 DEF KeyringInv

LEMMA WriteStep ==
  ASSUME KeyringInv, NEW p \in Services, NEW r \in Secrets, write_secret(p, r)
  PROVE  KeyringInv'
<1> DEFINE k == opened[p].keyring
           s == encrypt(k)
<1>1. /\ ring # NoKeyring /\ IsKeyring(k, drawn) /\ Within(k, ring)
      /\ rotation.pc \notin Publishes
  BY KeyringAssumption DEF KeyringInv, KeyringTypes, write_secret, OpenAt, OpenedKeyrings,
    LockHolders
<1>2. s \in [id : KeyIds, bytes : KeyIds] /\ s # NoSecret
  BY <1>1, KeyringShape, KeyringAssumption DEF encrypt, IsKeyring
<1>3. CanDecrypt(ring, s)
  BY <1>1 DEF encrypt, CanDecrypt, Within, IsKeyring
<1>4. rows' = [rows EXCEPT ![r] = s] /\ synced' = ring /\ (r = FirstAdmin \/ FirstAdmin \in Stored)
  BY DEF write_secret
<1>5. UNCHANGED <<ring, schema, lock, opened, rotation, drawn>>
  BY DEF write_secret
<1> HIDE DEF k, s
<1>6. Stored' = Stored \cup {r} /\ FirstAdmin \in Stored'
  BY <1>2, <1>4 DEF KeyringInv, KeyringTypes, Stored
<1>7. KeyringTypes' /\ LockHolders'
  BY <1>2, <1>4, <1>5 DEF KeyringInv, KeyringTypes, LockHolders
<1>8. Readable'
  BY <1>1, <1>3, <1>4, <1>5, <1>6 DEF KeyringInv, KeyringTypes, Readable, Stored
<1>9. AdminKept' /\ OpenedKeyrings'
  BY <1>5, <1>6 DEF KeyringInv, AdminKept, OpenedKeyrings
<1>10. RotationKeyring'
  BY <1>1, <1>5 DEF KeyringInv, RotationKeyring
<1> QED BY <1>7, <1>8, <1>9, <1>10 DEF KeyringInv

\* The new key joins the file, which still opens everything.
LEMMA PublishStep ==
  ASSUME KeyringInv, publish_new_key
  PROVE  KeyringInv'
<1>1. /\ UNCHANGED <<synced, schema, rows, lock, opened>> /\ drawn' = drawn + 1
      /\ rotation.pc = "locked" /\ rotation' = [pc |-> "published", keyring |-> ring']
      /\ drawn \in 0 .. MaxKeys /\ drawn < MaxKeys /\ IsKeyring(ring, drawn)
  BY DEF KeyringInv, KeyringTypes, publish_new_key
<1>2. /\ IsKeyring(ring', drawn') /\ Within(ring, ring')
      /\ ring'.keys[ring'.active] = drawn + 1
      /\ \A i \in DOMAIN ring'.keys :
           ring'.keys[i] = drawn + 1 \/ (i \in DOMAIN ring.keys /\ ring'.keys[i] = ring.keys[i])
  BY <1>1, RotatingAdds DEF publish_new_key
<1>3. ring' \in Keyrings /\ ring' # NoKeyring
  BY <1>2, KeyringAssumption DEF IsKeyring
<1>4. \A k : IsKeyring(k, drawn) => IsKeyring(k, drawn')
  BY <1>1, DrawnMore, KeyringAssumption
<1>5. KeyringTypes'
  BY <1>1, <1>2, <1>3, <1>4, KeyringAssumption DEF KeyringInv, KeyringTypes
<1>6. LockHolders' /\ AdminKept'
  BY <1>1 DEF KeyringInv, LockHolders, AdminKept, Stored
<1>7. Readable'
  BY <1>1, <1>2, <1>3 DEF KeyringInv, Readable, Stored, Within, CanDecrypt
<1>8. ASSUME NEW p \in Services, opened[p].pc \in HasRead
      PROVE  /\ IsKeyring(opened[p].keyring, drawn')
             /\ \A i \in DOMAIN opened[p].keyring.keys : opened[p].keyring.keys[i] # drawn + 1
             /\ Within(opened[p].keyring, ring) => Within(opened[p].keyring, ring')
             /\ Apart(opened[p].keyring, ring) => Apart(opened[p].keyring, ring')
  <2> DEFINE k == opened[p].keyring
  <2>1. IsKeyring(k, drawn)
    BY <1>8 DEF KeyringInv, OpenedKeyrings
  <2> HIDE DEF k
  <2>2. IsKeyring(k, drawn')
    BY <2>1, <1>4
  <2>3. \A i \in DOMAIN k.keys : k.keys[i] \in Nat /\ k.keys[i] <= drawn
    BY <2>1, KeyringShape, KeyringAssumption DEF IsKeyring, KeyIds
  <2>4. \A i \in DOMAIN k.keys : k.keys[i] # drawn + 1
    BY <1>1, <2>3, KeyringAssumption
  <2>5. Within(k, ring) => Within(k, ring')
    BY <1>2 DEF Within
  <2>6. Apart(k, ring) => Apart(k, ring')
    BY <1>2, <2>4 DEF Apart
  <2> QED BY <2>2, <2>4, <2>5, <2>6 DEF k
<1>9. \A p \in Services : opened[p].pc # "syncing"
  BY <1>1, KeyringAssumption DEF KeyringInv, LockHolders
<1>10. OpenedKeyrings'
  BY <1>1, <1>3, <1>8, <1>9 DEF KeyringInv, OpenedKeyrings, Stored
<1>11. RotationKeyring'
  BY <1>1, <1>2, <1>8 DEF RotationKeyring
<1> QED BY <1>5, <1>6, <1>7, <1>10, <1>11 DEF KeyringInv

\* Every row goes to the new key, which the synced file has.
LEMMA RowsStep ==
  ASSUME KeyringInv, rotate_rows
  PROVE  KeyringInv'
<1> DEFINE s == encrypt(rotation.keyring)
<1>1. IsKeyring(rotation.keyring, drawn) /\ ring = rotation.keyring /\ synced = ring
  BY DEF KeyringInv, RotationKeyring, rotate_rows
<1>2. s \in [id : KeyIds, bytes : KeyIds] /\ s # NoSecret /\ CanDecrypt(ring, s)
  BY <1>1, KeyringShape, KeyringAssumption DEF encrypt, IsKeyring, CanDecrypt
<1>3. /\ rows' = [r \in Secrets |-> IF r \in Stored THEN s ELSE NoSecret]
      /\ schema' = TRUE /\ rotation.pc = "rewriting"
      /\ rotation' = [rotation EXCEPT !.pc = "committed"]
      /\ UNCHANGED <<ring, synced, lock, opened, drawn>>
  BY DEF rotate_rows, RotationTo
<1>4. s = encrypt(rotation'.keyring)
  BY <1>3 DEF encrypt
<1> HIDE DEF s
<1>5. Stored' = Stored /\ \A r \in Stored : rows'[r] = s
  BY <1>2, <1>3 DEF KeyringInv, KeyringTypes, Stored
<1>6. KeyringTypes' /\ LockHolders'
  BY <1>2, <1>3 DEF KeyringInv, KeyringTypes, LockHolders
<1>7. ring # NoKeyring
  BY <1>1, KeyringAssumption DEF IsKeyring
<1>8. Readable' /\ AdminKept'
  BY <1>1, <1>2, <1>3, <1>5, <1>7 DEF KeyringInv, KeyringTypes, Readable, AdminKept
<1>9. OpenedKeyrings'
  BY <1>3, <1>5 DEF KeyringInv, OpenedKeyrings
<1>10. RotationKeyring'
  BY <1>1, <1>3, <1>4, <1>5 DEF KeyringInv, KeyringTypes, RotationKeyring
<1> QED BY <1>6, <1>8, <1>9, <1>10 DEF KeyringInv

\* Only then are the old keys forgotten: a service that read them before is
\* apart from the file, and will fail its validation.
LEMMA ForgetStep ==
  ASSUME KeyringInv, forget_old_keys
  PROVE  KeyringInv'
<1>1. /\ rotation.pc = "committed" /\ rotation' = [rotation EXCEPT !.pc = "forgotten"]
      /\ ring' = RotatedTo(rotation.keyring)
      /\ UNCHANGED <<synced, schema, rows, lock, opened, drawn>>
  BY DEF forget_old_keys, RotationTo
<1>2. /\ IsKeyring(rotation.keyring, drawn) /\ ring = rotation.keyring /\ synced = ring
      /\ \A r \in Stored : rows[r] = encrypt(ring)
      /\ \A p \in Services : opened[p].pc \in HasRead =>
           \A i \in DOMAIN opened[p].keyring.keys :
             opened[p].keyring.keys[i] # ring.keys[ring.active]
  BY <1>1 DEF KeyringInv, KeyringTypes, RotationKeyring
<1>3. /\ IsKeyring(ring', drawn) /\ ring'.active = ring.active
      /\ DOMAIN ring'.keys = {ring.active} /\ ring'.keys[ring.active] = ring.keys[ring.active]
  BY <1>1, <1>2, RotatedToKeeps
<1>4. ring' # NoKeyring /\ CanDecrypt(ring', encrypt(ring))
  BY <1>3, KeyringAssumption DEF IsKeyring, CanDecrypt, encrypt
<1>5. KeyringTypes' /\ LockHolders'
  BY <1>1, <1>3, KeyringAssumption DEF KeyringInv, KeyringTypes, LockHolders
<1>6. Readable' /\ AdminKept'
  BY <1>1, <1>2, <1>4, KeyringAssumption DEF KeyringInv, KeyringTypes, Readable, AdminKept, Stored
<1>7. \A p \in Services : opened[p].pc \in HasRead => Apart(opened[p].keyring, ring')
  BY <1>2, <1>3 DEF Apart
<1>8. FirstAdmin \in Stored'
  BY <1>1 DEF KeyringInv, AdminKept, Stored
<1>9. \A p \in Services : opened[p].pc \notin {"syncing", "up"}
  BY <1>1, KeyringAssumption DEF KeyringInv, LockHolders
<1>10. OpenedKeyrings'
  BY <1>1, <1>4, <1>7, <1>8, <1>9 DEF KeyringInv, OpenedKeyrings
<1>11. RotationKeyring'
  BY <1>1, <1>2 DEF KeyringInv, KeyringTypes, RotationKeyring, Stored
<1> QED BY <1>5, <1>6, <1>10, <1>11 DEF KeyringInv

\* Nothing is stored, or one secret under the one key.
LEMMA KeyringInitInv ==
  ASSUME KeyringInit
  PROVE  KeyringInv
<1> USE KeyringAssumption DEF KeyringInit, KeyringTypes, NoRotation, Closed
<1>1. schema => IsKeyring(ring, drawn) /\ ring # NoKeyring
  <2>1. IsKeyring([active |-> 1, keys |-> [i \in {1} |-> 1]], 1)
    BY FirstKeyring DEF KeyIds
  <2>2. schema => IsKeyring(ring, drawn)
    BY <2>1
  <2> QED BY <2>2 DEF IsKeyring
<1>2. KeyringTypes
  BY <1>1 DEF KeyIds
<1>3. LockHolders /\ OpenedKeyrings /\ RotationKeyring
  BY DEF LockHolders, OpenedKeyrings, RotationKeyring
<1>4. Readable /\ AdminKept
  BY <1>1 DEF Readable, AdminKept, Stored, CanDecrypt
<1> QED BY <1>2, <1>3, <1>4 DEF KeyringInv

\* A running service's keyring is within the file.
LEMMA KeyringInvImplies ==
  ASSUME KeyringInv
  PROVE  SecretsReadable
<1>1. \A r \in Stored : ring # NoKeyring /\ CanDecrypt(ring, rows[r])
  BY DEF KeyringInv, Readable
<1>2. ASSUME NEW p \in Services, opened[p].pc = "up"
      PROVE  ring # NoKeyring /\ CanDecrypt(ring, encrypt(opened[p].keyring))
  BY <1>2 DEF KeyringInv, OpenedKeyrings, CanDecrypt, encrypt, Within, IsKeyring
<1> QED BY <1>1, <1>2 DEF SecretsReadable, OpenAt

LEMMA KeyringStepInv ==
  ASSUME KeyringInv, [KeyringNext]_keyringVars
  PROVE  KeyringInv'
<1>1. CASE UNCHANGED keyringVars
  <2>1. KeyringTypes' /\ LockHolders'
    BY <1>1 DEF KeyringInv, KeyringTypes, LockHolders, keyringVars
  <2>2. Readable' /\ AdminKept'
    BY <1>1 DEF KeyringInv, Readable, AdminKept, Stored, keyringVars
  <2>3. OpenedKeyrings'
    BY <1>1 DEF KeyringInv, OpenedKeyrings, Stored, keyringVars
  <2>4. RotationKeyring'
    BY <1>1 DEF KeyringInv, RotationKeyring, Stored, keyringVars
  <2> QED BY <2>1, <2>2, <2>3, <2>4 DEF KeyringInv
<1>2. ASSUME NEW p \in Services,
             \/ open_inner(p) \/ lock_keyring(p) \/ read_keyring(p) \/ create_keyring(p)
             \/ sync_created(p) \/ open_fails(p) \/ share_lock(p) \/ migrate(p)
             \/ validate_encrypted_secrets(p) \/ stop(p)
      PROVE  KeyringInv'
  BY <1>2, ServiceStep, ReadStep, CreateStep, ValidateStep
<1>3. ASSUME NEW p \in Services, NEW r \in Secrets, write_secret(p, r) \/ delete_secret(p, r)
      PROVE  KeyringInv'
  BY <1>3, WriteStep, DeleteStep
<1>4. CASE \/ rotate_secrets \/ lock_rotation \/ publish_new_key \/ sync_new_key
           \/ rotate_rows \/ forget_old_keys \/ sync_old_keys \/ rotation_fails
           \/ PowerFails
  BY <1>4, RotationStep, PublishStep, RowsStep, ForgetStep
<1> QED BY <1>1, <1>2, <1>3, <1>4 DEF KeyringNext

\* SecretsReadable for any number of services, secrets and rotations: with
\* rotate_database, Database::open and power failures interleaved in any way,
\* the key file opens every stored secret and everything a running service will
\* encrypt.
THEOREM SecretsStayReadable == KeyringSpec => []SecretsReadable
<1>1. KeyringInit => KeyringInv
  BY KeyringInitInv
<1>2. KeyringInv /\ [KeyringNext]_keyringVars => KeyringInv'
  BY KeyringStepInv
<1>3. KeyringInv => SecretsReadable
  BY KeyringInvImplies
<1> QED BY <1>1, <1>2, <1>3, PTL DEF KeyringSpec
=============================================================================
