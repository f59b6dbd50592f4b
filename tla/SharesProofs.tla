---------------------------- MODULE SharesProofs ----------------------------
(***************************************************************************)
(* What a visitor unlocked and sees is the share as it is now, for any     *)
(* number of shares, visitors and administrators; and the client addresses *)
(* deleted from the audit trail stay away, for any number of requests.     *)
(***************************************************************************)
EXTENDS Shares, AuditTrail, FiniteSetTheorems,
        WellFoundedInduction, TLAPS

TypeOK ==
  /\ target \in [Targets -> {"file", "directory", "nothing"}]
  /\ share \in [ShareIds -> ShareRow \cup {NoRow}]
  /\ unlocked \in [Visitors -> [share_id : ShareIds, verified : PasswordHashes \cup {NoRow}]
                                 \cup {NoRow}]
  /\ visit \in [Visitors -> [at : {"verified", "early", "recheck", "bind"}, id : ShareIds,
                             seen : ShareRow, guard : BOOLEAN] \cup {NoRow}]
  /\ change \in [ShareAdmins ->
       [op : {"create"}, path : Targets, kind : {"file", "directory", "nothing"},
        hash : PasswordHashes \cup {NoRow}]
       \cup [op : {"password"}, id : ShareIds, hash : PasswordHashes \cup {NoRow}]
       \cup {NoRow}]

\* A row that only expired since a visitor read it.
Stands(row, seen) ==
  /\ row # NoRow
  /\ row.token = seen.token
  /\ row.relative_path = seen.relative_path
  /\ row.password_hash = seen.password_hash

\* A page under the storage guard has read the row as it is; the page is bound
\* only under the guard.
GuardedIsCurrent ==
  \A v \in Visitors : visit[v] # NoRow =>
    /\ visit[v].guard => Stands(share[visit[v].id], visit[v].seen)
    /\ visit[v].at = "bind" => visit[v].guard

IInv == TypeOK /\ UnlockedByPresentPassword /\ GuardedIsCurrent

-----------------------------------------------------------------------------
\* The greatest element of a bounded set of numbers.
LEMMA MaxProp ==
  ASSUME NEW n \in Nat, NEW S \in SUBSET (1 .. n), S # {}
  PROVE  Max(S) \in S /\ \A y \in S : y <= Max(S)
<1> DEFINE R == {ss \in Nat \X Nat : ss[1] < ss[2]}
           U == {k \in Nat : \A y \in S : y <= k}
<1>1. IsWellFoundedOn(R, Nat)
  BY NatLessThanWellFounded DEF OpToRel
<1>2. n \in U
  OBVIOUS
<1>3. PICK k \in U : \A j \in U : ~(<<j, k>> \in R)
  <2> HIDE DEF R
  <2> QED BY <1>1, <1>2, WFMin, Zenon
<1>4. k \in S
  <2>1. SUFFICES ASSUME k \notin S PROVE FALSE
    OBVIOUS
  <2>2. k \in Nat /\ \A y \in S : y \in 1 .. n /\ y <= k /\ y # k
    BY <2>1
  <2>3. PICK y \in S : TRUE
    BY Zenon
  <2>4. k > 0 /\ k - 1 \in Nat
    BY <2>2, <2>3
  <2>5. \A z \in S : z <= k - 1
    BY <2>2
  <2>6. k - 1 \in U
    BY <2>4, <2>5
  <2>7. <<k - 1, k>> \in R
    BY <2>2, <2>4
  <2> QED BY <1>3, <2>6, <2>7
<1>5. QED BY <1>3, <1>4, Zenon DEF Max

\* AUTOINCREMENT is not used: still the id of a new row is not one in use.
LEMMA NewIdIsFree ==
  ASSUME NewRowId \in ShareIds
  PROVE  ~Exists(NewRowId)
<1> DEFINE used == {i \in ShareIds : Exists(i)}
           n == Cardinality(ShareIds)
<1>1. n \in Nat /\ used \in SUBSET (1 .. n)
  BY SharesAssumption
<1>2. CASE used = {}
  BY <1>2
<1>3. CASE used # {}
  <2> HIDE DEF used, n
  <2>1. Max(used) \in used /\ \A y \in used : y <= Max(used)
    BY <1>1, <1>3, MaxProp
  <2>2. Max(used) + 1 \notin used
    <3> DEFINE m == Max(used)
    <3>1. m \in used /\ \A y \in used : y <= m
      BY <2>1
    <3> HIDE DEF m
    <3>2. m + 1 \notin used
      BY <1>1, <3>1
    <3> QED BY <3>2 DEF m
  <2>3. NewRowId = Max(used) + 1
    BY <1>3 DEF NewRowId, used
  <2> QED BY <2>2, <2>3 DEF used
<1> QED BY <1>2, <1>3

\* A change of a row bumps its epoch, and keeps what it does not name.
LEMMA BumpedRow ==
  ASSUME NEW row \in ShareRow, row.upload_policy_epoch < MaxEpoch
  PROVE  /\ Bumped(row) \in ShareRow /\ Bumped(row).password_hash = row.password_hash
         /\ \A b \in BOOLEAN :
              LET new == [Bumped(row) EXCEPT !.active = b]
              IN new \in ShareRow /\ new.password_hash = row.password_hash
         /\ \A q \in Targets :
              LET new == [Bumped(row) EXCEPT !.relative_path = q]
              IN new \in ShareRow /\ new.password_hash = row.password_hash
         /\ \A h \in PasswordHashes \cup {NoRow} :
              [Bumped(row) EXCEPT !.password_hash = h] \in ShareRow
<1>1. Bumped(row) \in ShareRow /\ Bumped(row).password_hash = row.password_hash
  BY SharesAssumption DEF Bumped, ShareRow
<1>2. \A b \in BOOLEAN :
        LET new == [Bumped(row) EXCEPT !.active = b]
        IN new \in ShareRow /\ new.password_hash = row.password_hash
  BY <1>1 DEF ShareRow
<1>3. \A q \in Targets :
        LET new == [Bumped(row) EXCEPT !.relative_path = q]
        IN new \in ShareRow /\ new.password_hash = row.password_hash
  BY <1>1 DEF ShareRow
<1>4. \A h \in PasswordHashes \cup {NoRow} : [Bumped(row) EXCEPT !.password_hash = h] \in ShareRow
  BY <1>1 DEF ShareRow
<1> QED BY <1>1, <1>2, <1>3, <1>4

\* Under the mutation guard no page is being read, so whatever keeps the rows and
\* their passwords keeps the invariant.
LEMMA GuardedChange ==
  ASSUME IInv, TypeOK', MutationGuard, UNCHANGED <<unlocked, visit>>,
         \A i \in ShareIds : share[i] # NoRow =>
           share'[i] # NoRow /\ share'[i].password_hash = share[i].password_hash
  PROVE  IInv'
<1>1. UnlockedByPresentPassword'
  BY DEF IInv, TypeOK, UnlockedByPresentPassword, Exists
<1>2. GuardedIsCurrent'
  BY DEF IInv, TypeOK, GuardedIsCurrent, MutationGuard, Reading
<1> QED BY <1>1, <1>2 DEF IInv

\* The rows as they are when only what they do not show to visitors changes.
LEMMA OthersChange ==
  ASSUME IInv, TypeOK', UNCHANGED <<unlocked, visit, share>>
  PROVE  IInv'
  BY DEF IInv, TypeOK, UnlockedByPresentPassword, GuardedIsCurrent, Exists, Stands

LEMMA InitInv == SharesInit => IInv
  BY DEF SharesInit, IInv, TypeOK, UnlockedByPresentPassword, GuardedIsCurrent

LEMMA AdminStepInv ==
  ASSUME IInv, NEW a \in ShareAdmins, AdminStep(a)
  PROVE  IInv'
<1>1. ASSUME NEW p \in Targets, NEW h \in PasswordHashes \cup {NoRow}, prepare_create(a, p, h)
      PROVE  IInv'
  <2>1. TypeOK'
    BY <1>1 DEF prepare_create, IInv, TypeOK
  <2> QED BY <1>1, <2>1, OthersChange DEF prepare_create
<1>2. ASSUME NEW l \in Links, create_share(a, l) PROVE IInv'
  <2> DEFINE row == [token |-> l, relative_path |-> change[a].path,
                     is_directory |-> change[a].kind, password_hash |-> change[a].hash,
                     active |-> TRUE, expired |-> FALSE, upload_policy_epoch |-> 0]
  <2>1. CASE TargetStands(a) /\ NewRowId \in ShareIds
    <3>1. share' = [share EXCEPT ![NewRowId] = row] /\ MutationGuard
            /\ change' = [change EXCEPT ![a] = NoRow] /\ UNCHANGED <<target, unlocked, visit>>
      BY <1>2, <2>1 DEF create_share
    <3>2. row \in ShareRow
      BY <1>2, SharesAssumption DEF create_share, IInv, TypeOK, ShareRow
    <3> HIDE DEF row
    <3>3. TypeOK'
      BY <3>1, <3>2, Zenon DEF IInv, TypeOK
    <3>4. \A i \in ShareIds : share[i] # NoRow =>
            share'[i] # NoRow /\ share'[i].password_hash = share[i].password_hash
      BY <2>1, <3>1, NewIdIsFree DEF IInv, TypeOK, Exists
    <3> QED BY <3>1, <3>3, <3>4, GuardedChange
  <2>2. CASE ~(TargetStands(a) /\ NewRowId \in ShareIds)
    <3>1. UNCHANGED share /\ change' = [change EXCEPT ![a] = NoRow]
            /\ UNCHANGED <<target, unlocked, visit>>
      BY <1>2, <2>2 DEF create_share
    <3>2. TypeOK'
      BY <3>1 DEF IInv, TypeOK
    <3> QED BY <3>1, <3>2, OthersChange
  <2> QED BY <2>1, <2>2
<1>3. ASSUME NEW i \in ShareIds, NEW h \in PasswordHashes \cup {NoRow}, prepare_password(a, i, h)
      PROVE  IInv'
  <2>1. TypeOK'
    BY <1>3 DEF prepare_password, IInv, TypeOK
  <2> QED BY <1>3, <2>1, OthersChange DEF prepare_password
<1>4. CASE set_share_password(a)
  <2> DEFINE i == change[a].id
  <2>1. i \in ShareIds /\ change[a].hash \in PasswordHashes \cup {NoRow}
    BY <1>4 DEF set_share_password, IInv, TypeOK
  <2>2. MutationGuard /\ change' = [change EXCEPT ![a] = NoRow] /\ UNCHANGED <<target, visit>>
    BY <1>4 DEF set_share_password
  <2>3. CASE Exists(i)
    <3>1. /\ share[i].upload_policy_epoch < MaxEpoch
          /\ share' = [share EXCEPT ![i] =
                         [Bumped(share[i]) EXCEPT !.password_hash = change[a].hash]]
          /\ unlocked' = SessionsWithoutShare(i)
      BY <1>4, <2>1, <2>3 DEF set_share_password, IInv, TypeOK
    <3>2. share[i] \in ShareRow
      BY <2>1, <2>3 DEF Exists, IInv, TypeOK
    <3> HIDE DEF i
    <3>3. share'[i] \in ShareRow /\ share' \in [ShareIds -> ShareRow \cup {NoRow}]
      BY <2>1, <3>1, <3>2, BumpedRow DEF IInv, TypeOK
    <3>4. TypeOK'
      BY <2>1, <2>2, <3>1, <3>3 DEF IInv, TypeOK, SessionsWithoutShare
    <3>5. UnlockedByPresentPassword'
      BY <2>1, <3>1 DEF IInv, TypeOK, UnlockedByPresentPassword, Exists, SessionsWithoutShare
    <3>6. GuardedIsCurrent'
      BY <2>2 DEF IInv, TypeOK, GuardedIsCurrent, MutationGuard, Reading
    <3> QED BY <3>4, <3>5, <3>6 DEF IInv
  <2>4. CASE ~Exists(i)
    <3>1. UNCHANGED <<share, unlocked>>
      BY <1>4, <2>4 DEF set_share_password
    <3>2. TypeOK'
      BY <2>2, <3>1 DEF IInv, TypeOK
    <3> QED BY <2>2, <3>1, <3>2, OthersChange
  <2> QED BY <2>3, <2>4
<1>5. CASE AbandonChange(a)
  <2>1. TypeOK'
    BY <1>5 DEF AbandonChange, IInv, TypeOK
  <2> QED BY <1>5, <2>1, OthersChange DEF AbandonChange
<1> QED BY <1>1, <1>2, <1>3, <1>4, <1>5 DEF AdminStep

LEMMA ShareStepInv ==
  ASSUME IInv, NEW i \in ShareIds, ShareStep(i)
  PROVE  IInv'
\* A row is replaced by one with the same password.
<1>1. ASSUME NEW row \in ShareRow, Exists(i), row.password_hash = share[i].password_hash,
             MutationGuard, share' = [share EXCEPT ![i] = row],
             UNCHANGED <<target, unlocked, visit, change>>
      PROVE  IInv'
  <2>1. TypeOK'
    BY <1>1 DEF IInv, TypeOK
  <2>2. \A j \in ShareIds : share[j] # NoRow =>
          share'[j] # NoRow /\ share'[j].password_hash = share[j].password_hash
    BY <1>1, SharesAssumption DEF IInv, TypeOK
  <2> QED BY <1>1, <2>1, <2>2, GuardedChange
<1>2. MayBump(i) => share[i] \in ShareRow /\ share[i].upload_policy_epoch < MaxEpoch
                      /\ Exists(i) /\ MutationGuard /\ share[i].active \in BOOLEAN
  BY DEF MayBump, Exists, IInv, TypeOK, ShareRow
<1>3. CASE toggle_share(i)
  <2>1. /\ MayBump(i)
        /\ share' = [share EXCEPT ![i] = [Bumped(share[i]) EXCEPT !.active = ~share[i].active]]
        /\ UNCHANGED <<target, unlocked, visit, change>>
    BY <1>3 DEF toggle_share
  <2>2. (~share[i].active) \in BOOLEAN
    OBVIOUS
  <2> QED BY <1>1, <1>2, <2>1, <2>2, BumpedRow, Zenon
<1>4. ASSUME NEW active \in BOOLEAN, NEW controls \in BOOLEAN, update_share(i, active, controls)
      PROVE  IInv'
  <2>1. PICK row : /\ row = IF controls \/ active # share[i].active
                               THEN [Bumped(share[i]) EXCEPT !.active = active] ELSE share[i]
                   /\ share' = [share EXCEPT ![i] = row]
                   /\ MayBump(i) /\ UNCHANGED <<target, unlocked, visit, change>>
    BY <1>4, Zenon DEF update_share, IInv, TypeOK
  <2>2. row \in ShareRow /\ row.password_hash = share[i].password_hash
    BY <1>2, <2>1, BumpedRow
  <2> QED BY <1>1, <1>2, <2>1, <2>2, Zenon
<1>5. CASE set_share_upload_conflict(i)
  BY <1>1, <1>2, <1>5, BumpedRow, Zenon DEF set_share_upload_conflict, IInv, TypeOK
<1>6. CASE delete_share(i)
  <2>1. TypeOK'
    BY <1>6 DEF delete_share, SessionsWithoutShare, IInv, TypeOK
  <2>2. UnlockedByPresentPassword'
    BY <1>6 DEF delete_share, SessionsWithoutShare, IInv, TypeOK, UnlockedByPresentPassword, Exists
  <2>3. GuardedIsCurrent'
    BY <1>6 DEF delete_share, IInv, TypeOK, GuardedIsCurrent, MutationGuard, Reading
  <2> QED BY <2>1, <2>2, <2>3 DEF IInv
<1>7. CASE ShareExpires(i)
  <2>1. PICK row : /\ row = [share[i] EXCEPT !.expired = TRUE]
                   /\ share' = [share EXCEPT ![i] = row] /\ Exists(i)
                   /\ UNCHANGED <<target, unlocked, visit, change>>
    BY <1>7, Zenon DEF ShareExpires, IInv, TypeOK
  <2>2. share[i] \in ShareRow
    BY <2>1 DEF IInv, TypeOK, Exists
  <2>3. /\ row \in ShareRow /\ row # NoRow
        /\ row.password_hash = share[i].password_hash
        /\ row.token = share[i].token /\ row.relative_path = share[i].relative_path
    BY <2>1, <2>2, SharesAssumption, Zenon DEF ShareRow
  <2>4. TypeOK'
    BY <2>1, <2>3 DEF IInv, TypeOK
  <2>5. \A j \in ShareIds : share[j] # NoRow =>
          /\ share'[j] # NoRow /\ share'[j].password_hash = share[j].password_hash
          /\ share'[j].token = share[j].token
          /\ share'[j].relative_path = share[j].relative_path
    BY <2>1, <2>3 DEF IInv, TypeOK
  <2>6. UnlockedByPresentPassword'
    BY <2>1, <2>5 DEF IInv, TypeOK, UnlockedByPresentPassword, Exists
  <2>7. GuardedIsCurrent'
    BY <2>1, <2>5 DEF IInv, TypeOK, GuardedIsCurrent, Stands
  <2> QED BY <2>4, <2>6, <2>7 DEF IInv
<1> QED BY <1>3, <1>4, <1>5, <1>6, <1>7 DEF ShareStep

LEMMA TargetStepInv ==
  ASSUME IInv, NEW p \in Targets, TargetStep(p)
  PROVE  IInv'
<1>1. ASSUME NEW q \in Targets, rename_share_paths(p, q) PROVE IInv'
  <2>1. \A i \in ShareIds : share[i] # NoRow /\ share[i].relative_path = p =>
          /\ share[i] \in ShareRow /\ share[i].upload_policy_epoch < MaxEpoch
          /\ share'[i] = [Bumped(share[i]) EXCEPT !.relative_path = q]
    BY <1>1 DEF rename_share_paths, MayBump, Exists, IInv, TypeOK
  <2>2. \A i \in ShareIds : ~(share[i] # NoRow /\ share[i].relative_path = p) =>
          share'[i] = share[i]
    BY <1>1 DEF rename_share_paths, Exists
  <2>3. \A i \in ShareIds : /\ share'[i] \in ShareRow \cup {NoRow}
                            /\ share[i] # NoRow =>
                                 share'[i] # NoRow /\ share'[i].password_hash = share[i].password_hash
    <3> SUFFICES ASSUME NEW i \in ShareIds
                 PROVE  /\ share'[i] \in ShareRow \cup {NoRow}
                        /\ share[i] # NoRow =>
                             share'[i] # NoRow /\ share'[i].password_hash = share[i].password_hash
      OBVIOUS
    <3>1. CASE share[i] # NoRow /\ share[i].relative_path = p
      <4> DEFINE new == [Bumped(share[i]) EXCEPT !.relative_path = q]
      <4>1. share[i] \in ShareRow /\ share[i].upload_policy_epoch < MaxEpoch /\ share'[i] = new
        BY <2>1, <3>1
      <4>2. new \in ShareRow /\ new.password_hash = share[i].password_hash
        BY <4>1, BumpedRow
      <4> HIDE DEF new
      <4> QED BY <4>1, <4>2, SharesAssumption
    <3>2. CASE ~(share[i] # NoRow /\ share[i].relative_path = p)
      BY <2>2, <3>2 DEF IInv, TypeOK
    <3> QED BY <3>1, <3>2
  <2>4. TypeOK'
    <3>1. share' \in [ShareIds -> ShareRow \cup {NoRow}]
      BY <1>1, <2>3 DEF rename_share_paths
    <3>2. target' \in [Targets -> {"file", "directory", "nothing"}]
      BY <1>1 DEF rename_share_paths, IInv, TypeOK
    <3> QED BY <1>1, <3>1, <3>2 DEF rename_share_paths, IInv, TypeOK
  <2> QED BY <1>1, <2>3, <2>4, GuardedChange DEF rename_share_paths
<1>2. CASE deactivate_shares_for_path(p)
  <2>1. \A i \in ShareIds : share[i] # NoRow /\ share[i].relative_path = p /\ share[i].active =>
          /\ share[i] \in ShareRow /\ share[i].upload_policy_epoch < MaxEpoch
          /\ share'[i] = [Bumped(share[i]) EXCEPT !.active = FALSE]
    BY <1>2 DEF deactivate_shares_for_path, MayBump, Exists, IInv, TypeOK
  <2>2. \A i \in ShareIds :
          ~(share[i] # NoRow /\ share[i].relative_path = p /\ share[i].active) => share'[i] = share[i]
    BY <1>2 DEF deactivate_shares_for_path, Exists
  <2>3. \A i \in ShareIds : /\ share'[i] \in ShareRow \cup {NoRow}
                            /\ share[i] # NoRow =>
                                 share'[i] # NoRow /\ share'[i].password_hash = share[i].password_hash
    <3> SUFFICES ASSUME NEW i \in ShareIds
                 PROVE  /\ share'[i] \in ShareRow \cup {NoRow}
                        /\ share[i] # NoRow =>
                             share'[i] # NoRow /\ share'[i].password_hash = share[i].password_hash
      OBVIOUS
    <3>1. CASE share[i] # NoRow /\ share[i].relative_path = p /\ share[i].active
      <4> DEFINE new == [Bumped(share[i]) EXCEPT !.active = FALSE]
      <4>1. share[i] \in ShareRow /\ share[i].upload_policy_epoch < MaxEpoch /\ share'[i] = new
        BY <2>1, <3>1
      <4>2. new \in ShareRow /\ new.password_hash = share[i].password_hash
        BY <4>1, BumpedRow, Zenon
      <4> HIDE DEF new
      <4> QED BY <4>1, <4>2, SharesAssumption
    <3>2. CASE ~(share[i] # NoRow /\ share[i].relative_path = p /\ share[i].active)
      BY <2>2, <3>2 DEF IInv, TypeOK
    <3> QED BY <3>1, <3>2
  <2>4. TypeOK'
    <3>1. share' \in [ShareIds -> ShareRow \cup {NoRow}]
      BY <1>2, <2>3, Zenon DEF deactivate_shares_for_path
    <3>2. target' \in [Targets -> {"file", "directory", "nothing"}]
      BY <1>2 DEF deactivate_shares_for_path, IInv, TypeOK
    <3> QED BY <1>2, <3>1, <3>2 DEF deactivate_shares_for_path, IInv, TypeOK
  <2> QED BY <1>2, <2>3, <2>4, GuardedChange DEF deactivate_shares_for_path
<1>3. ASSUME NEW kind \in {"file", "directory"}, CreateTarget(p, kind) PROVE IInv'
  <2>1. TypeOK'
    BY <1>3 DEF CreateTarget, IInv, TypeOK
  <2> QED BY <1>3, <2>1, OthersChange DEF CreateTarget
<1> QED BY <1>1, <1>2, <1>3 DEF TargetStep

LEMMA VisitorStepInv ==
  ASSUME IInv, NEW v \in Visitors, VisitorStep(v)
  PROVE  IInv'
<1> DEFINE Visits == [at : {"verified", "early", "recheck", "bind"}, id : ShareIds,
                      seen : ShareRow, guard : BOOLEAN]
\* The visitor goes on to a place where the invariant holds of them.
<1>1. ASSUME NEW next \in Visits \cup {NoRow}, Step(v, next),
             next # NoRow =>
               /\ next.guard => Stands(share[next.id], next.seen)
               /\ next.at = "bind" => next.guard
      PROVE  IInv'
  <2>1. TypeOK'
    BY <1>1 DEF Step, IInv, TypeOK
  <2>2. UnlockedByPresentPassword'
    BY <1>1, SMTT(30) DEF Step, IInv, TypeOK, UnlockedByPresentPassword, Exists
  <2>3. GuardedIsCurrent'
    BY <1>1, SMTT(30) DEF Step, IInv, TypeOK, GuardedIsCurrent, Stands
  <2> QED BY <2>1, <2>2, <2>3 DEF IInv
\* What a visitor reads stands.
<1>2. ASSUME NEW i \in ShareIds, Exists(i), NEW at \in {"verified", "early", "recheck", "bind"},
             NEW guard \in BOOLEAN
      PROVE  /\ Visit(at, i, guard) \in Visits
             /\ Visit(at, i, guard).at = at /\ Visit(at, i, guard).guard = guard
             /\ Stands(share[Visit(at, i, guard).id], Visit(at, i, guard).seen)
  BY <1>2 DEF Visit, Exists, Stands, IInv, TypeOK
<1>3. ASSUME NEW i \in ShareIds, unlock_share(v, i) PROVE IInv'
  <2>1. Exists(i) /\ Step(v, Visit("verified", i, FALSE))
    BY <1>3, Zenon DEF unlock_share
  <2> QED BY <1>1, <1>2, <2>1, Zenon
<1>4. CASE create_unlock_session_for_verified_password_internal(v)
  <2> DEFINE i == visit[v].id
  <2>1. /\ i \in ShareIds /\ visit[v].seen \in ShareRow
        /\ visit' = [visit EXCEPT ![v] = NoRow] /\ UNCHANGED <<target, share, change>>
    BY <1>4, Zenon DEF create_unlock_session_for_verified_password_internal, IInv, TypeOK
  <2>2. GuardedIsCurrent'
    BY <2>1, Zenon DEF IInv, TypeOK, GuardedIsCurrent, Stands
  <2>3. CASE Exists(i) /\ VerifiedStands(share[i], visit[v].seen) /\ usable(share[i])
    <3>1. unlocked' = [unlocked EXCEPT ![v] =
                        [share_id |-> i, verified |-> visit[v].seen.password_hash]]
      BY <1>4, <2>3 DEF create_unlock_session_for_verified_password_internal
    <3>2. visit[v].seen.password_hash \in PasswordHashes \cup {NoRow}
      BY <2>1 DEF ShareRow
    <3>3. TypeOK'
      BY <2>1, <3>1, <3>2, Zenon DEF IInv, TypeOK
    <3>4. UnlockedByPresentPassword'
      BY <2>1, <2>3, <3>1, Zenon DEF IInv, TypeOK, UnlockedByPresentPassword, Exists, VerifiedStands
    <3> QED BY <2>2, <3>3, <3>4, SMTT(30) DEF IInv
  <2>4. CASE ~(Exists(i) /\ VerifiedStands(share[i], visit[v].seen) /\ usable(share[i]))
    <3>1. UNCHANGED unlocked
      BY <1>4, <2>4 DEF create_unlock_session_for_verified_password_internal
    <3>2. TypeOK' /\ UnlockedByPresentPassword'
      BY <2>1, <3>1, Zenon DEF IInv, TypeOK, UnlockedByPresentPassword, Exists
    <3> QED BY <2>2, <3>2, SMTT(30) DEF IInv
  <2> QED BY <2>3, <2>4
<1>5. ASSUME NEW i \in ShareIds, NEW clean \in BOOLEAN, public_page(v, i, clean) PROVE IInv'
  <2>1. PICK guard \in BOOLEAN : Exists(i) /\ Step(v, Visit("early", i, guard))
    BY <1>5, Zenon DEF public_page
  <2> QED BY <1>1, <1>2, <2>1
<1>6. CASE CheckUnlocked(v)
  <2>1. visit[v] # NoRow /\ visit[v] \in Visits /\ visit[v].at = "early"
          /\ (visit[v].guard => Stands(share[visit[v].id], visit[v].seen))
    BY <1>6 DEF CheckUnlocked, IInv, TypeOK, GuardedIsCurrent
  <2> DEFINE open == share_is_unlocked(v, visit[v].id, visit[v].seen)
  <2>2. CASE open /\ ~visit[v].guard
    <3>1. Step(v, [visit[v] EXCEPT !.at = "recheck"])
      BY <1>6, <2>2 DEF CheckUnlocked
    <3> HIDE DEF open
    <3>2. LET next == [visit[v] EXCEPT !.at = "recheck"]
          IN next \in Visits /\ ~next.guard /\ next.at # "bind"
      BY <2>1, <2>2
    <3> QED BY <1>1, <3>1, <3>2
  <2>3. CASE open /\ visit[v].guard /\ usable(share[visit[v].id])
    <3>1. Step(v, [visit[v] EXCEPT !.at = "bind"])
      BY <1>6, <2>3 DEF CheckUnlocked
    <3> HIDE DEF open
    <3>2. LET next == [visit[v] EXCEPT !.at = "bind"]
          IN next \in Visits /\ next.guard /\ next.id = visit[v].id /\ next.seen = visit[v].seen
      BY <2>1, <2>3
    <3> QED BY <1>1, <2>1, <2>3, <3>1, <3>2
  <2>4. CASE ~open \/ (visit[v].guard /\ ~usable(share[visit[v].id]))
    <3>1. Step(v, NoRow)
      BY <1>6, <2>4 DEF CheckUnlocked
    <3> QED BY <1>1, <3>1
  <2> QED BY <2>2, <2>3, <2>4
<1>7. CASE get_storage_share(v)
  <2>1. visit[v].id \in ShareIds
    BY <1>7 DEF get_storage_share, IInv, TypeOK
  <2>2. \/ Step(v, NoRow)
        \/ Exists(visit[v].id) /\ Step(v, Visit("bind", visit[v].id, TRUE))
    BY <1>7, Zenon DEF get_storage_share, ByLink
  <2> QED BY <1>1, <1>2, <2>1, <2>2, Zenon
<1>8. CASE bind_downloadable_directory(v)
  BY <1>1, <1>8 DEF bind_downloadable_directory
<1>9. CASE UnlockExpires(v)
  <2>1. TypeOK'
    BY <1>9 DEF UnlockExpires, IInv, TypeOK
  <2>2. UnlockedByPresentPassword' /\ GuardedIsCurrent'
    BY <1>9, Zenon DEF UnlockExpires, IInv, TypeOK, UnlockedByPresentPassword, GuardedIsCurrent,
                Exists, Stands
  <2> QED BY <2>1, <2>2, SMTT(30) DEF IInv
<1> QED BY <1>3, <1>4, <1>5, <1>6, <1>7, <1>8, <1>9 DEF VisitorStep

\* The invariant holds in every state of every behaviour of the shares and their
\* visitors (src/db/shares, src/web/public.rs).
THEOREM Inductive == SharesSpec => []IInv
<1>1. IInv /\ [SharesNext]_shareVars => IInv'
  <2> SUFFICES ASSUME IInv, [SharesNext]_shareVars PROVE IInv'
    OBVIOUS
  <2>1. CASE UNCHANGED shareVars
    <3>1. TypeOK'
      BY <2>1 DEF shareVars, IInv, TypeOK
    <3> QED BY <2>1, <3>1, OthersChange, SMTT(30) DEF shareVars
  <2> QED BY <2>1, AdminStepInv, ShareStepInv, TargetStepInv, VisitorStepInv DEF SharesNext
<1> QED BY <1>1, InitInv, PTL DEF SharesSpec

\* What a visitor unlocked and sees is the share as it is now (unlock_share,
\* public_page, create_unlock_session_for_verified_password_internal).
THEOREM PresentShareSeen == SharesSpec => []VisitorSeesPresentShare
<1>1. IInv => VisitorSeesPresentShare
  BY Zenon DEF IInv, TypeOK, VisitorSeesPresentShare, PageIsCurrent, GuardedIsCurrent, Stands, Exists
<1> QED BY <1>1, Inductive, PTL

-----------------------------------------------------------------------------
(* The audit trail.  The proof needs that the rows which survive a pass of *)
(* the retention are rows of the table before it: RowsWithout picks, for   *)
(* every place of the shorter table, a kept row (PlaceTaken).              *)

AuditRow == [security : BOOLEAN, ip : BOOLEAN]

\* Before the table decides, a request carries what the configuration file says;
\* once the addresses are deleted, nothing says that they are recorded.
AuditInv ==
  /\ audit \in Seq(AuditRow)
  /\ logging \in [table : BOOLEAN \cup {Unset}, snapshot : BOOLEAN]
  /\ event \in [Observers -> BOOLEAN \cup {Unset}]
  /\ purged \in BOOLEAN
  /\ logging.table = Unset => \A o \in Observers : event[o] \in {Unset, logging.snapshot}
  /\ purged => ~persisted_audit_client_ip_enabled(logging.snapshot)
  /\ DeletedAddressesStayAway

\* A set of numbers has a least one.
LEMMA LeastOf ==
  ASSUME NEW T, T \subseteq Nat, T # {}
  PROVE  \E n \in T : \A m \in T : n <= m
<1> DEFINE R == {ss \in Nat \X Nat : ss[1] < ss[2]}
<1>1. IsWellFoundedOn(R, Nat)
  BY NatLessThanWellFounded DEF OpToRel
<1>2. PICK n \in T : \A m \in T : ~(<<m, n>> \in R)
  <2> HIDE DEF R
  <2> QED BY <1>1, WFMin, Zenon
<1>3. \A m \in T : n <= m
  <2> SUFFICES ASSUME NEW m \in T PROVE n <= m
    OBVIOUS
  <2>1. n \in Nat /\ m \in Nat /\ ~(<<m, n>> \in R)
    BY <1>2
  <2> QED BY <2>1
<1> QED BY <1>3

\* In a finite set of numbers there is one for every place in their order.
LEMMA PlaceTaken ==
  ASSUME NEW n \in Nat, NEW kept \in SUBSET (1 .. n), NEW i \in 1 .. Cardinality(kept)
  PROVE  \E j \in kept : Cardinality({k \in kept : k < j}) = i - 1
<1> DEFINE First(m) == {k \in kept : k < m}
           T == {m \in Nat : Cardinality(First(m)) >= i}
<1>0. kept \subseteq 1 .. n /\ \A k \in kept : k \in Nat /\ k >= 1 /\ k <= n
  OBVIOUS
<1>1. IsFiniteSet(kept)
  <2>1. IsFiniteSet(1 .. n)
    BY FS_Interval
  <2> QED BY <1>0, <2>1, FS_Subset, Zenon
<1>2. \A m : IsFiniteSet(First(m)) /\ Cardinality(First(m)) \in Nat
  BY <1>1, FS_Subset, FS_CardinalityType
<1>3. Cardinality(kept) \in Nat /\ i \in Nat /\ i >= 1
  BY <1>1, FS_CardinalityType
<1>4. First(n + 1) = kept /\ First(0) = {}
  <2>1. \A k \in kept : k < n + 1 /\ ~(k < 0)
    BY <1>0
  <2> QED BY <2>1, Zenon
<1>5. n + 1 \in T
  <2>1. Cardinality(First(n + 1)) >= i
    BY <1>3, <1>4
  <2> QED BY <2>1
<1>6. 0 \notin T
  BY <1>3, <1>4, FS_EmptySet
<1>7. PICK m \in T : \A l \in T : m <= l
  <2>1. T \subseteq Nat /\ T # {}
    BY <1>5
  <2> HIDE DEF T
  <2> QED BY <2>1, LeastOf, Zenon
<1>8. m \in Nat /\ m - 1 \in Nat /\ m - 1 \notin T /\ Cardinality(First(m)) >= i
  BY <1>6, <1>7
<1>9. Cardinality(First(m - 1)) < i
  BY <1>2, <1>3, <1>8
<1>10. m - 1 \in kept
  <2>1. ASSUME m - 1 \notin kept PROVE FALSE
    <3>1. \A k \in kept : k < m <=> k < m - 1
      BY <1>0, <1>8, <2>1
    <3>2. First(m) = First(m - 1)
      BY <3>1, Zenon
    <3> HIDE DEF First
    <3> QED BY <1>2, <1>3, <1>8, <1>9, <3>2
  <2> QED BY <2>1
<1>11. First(m) = First(m - 1) \cup {m - 1} /\ m - 1 \notin First(m - 1)
  <2>1. ~(m - 1 < m - 1) /\ \A k \in kept : k < m <=> (k < m - 1 \/ k = m - 1)
    BY <1>0, <1>8
  <2> QED BY <1>10, <2>1, Zenon
<1>12. Cardinality(First(m)) = Cardinality(First(m - 1)) + 1
  <2> HIDE DEF First
  <2> QED BY <1>2, <1>11, FS_AddElement, Zenon
<1>13. Cardinality(First(m - 1)) = i - 1
  <2> HIDE DEF First
  <2> QED BY <1>2, <1>3, <1>8, <1>9, <1>12
<1> QED BY <1>10, <1>13, Zenon

\* What a batch leaves are rows that were there.
LEMMA RowsLeft ==
  ASSUME NEW gone, audit \in Seq(AuditRow)
  PROVE  /\ RowsWithout(gone) \in Seq(AuditRow)
         /\ \A i \in DOMAIN RowsWithout(gone) : \E j \in DOMAIN audit : RowsWithout(gone)[i] = audit[j]
<1> DEFINE kept == DOMAIN audit \ gone
           Place(i) == CHOOSE j \in kept : Cardinality({k \in kept : k < j}) = i - 1
<1>1. Len(audit) \in Nat /\ DOMAIN audit = 1 .. Len(audit) /\ \A j \in DOMAIN audit : audit[j] \in AuditRow
  OBVIOUS
<1>2. kept \in SUBSET (1 .. Len(audit)) /\ Cardinality(kept) \in Nat
  <2>1. kept \in SUBSET (1 .. Len(audit))
    BY <1>1
  <2> HIDE DEF kept
  <2>2. IsFiniteSet(1 .. Len(audit))
    BY <1>1, FS_Interval
  <2>3. IsFiniteSet(kept)
    BY <2>1, <2>2, FS_Subset, Zenon
  <2> QED BY <2>1, <2>3, FS_CardinalityType
<1>3. ASSUME NEW i \in 1 .. Cardinality(kept) PROVE Place(i) \in DOMAIN audit
  <2>1. \E j \in kept : Cardinality({k \in kept : k < j}) = i - 1
    <3> HIDE DEF kept
    <3> QED BY <1>1, <1>2, PlaceTaken, Zenon
  <2>2. Place(i) \in kept
    BY <2>1, Zenon
  <2> QED BY <2>2
<1>4. RowsWithout(gone) = [i \in 1 .. Cardinality(kept) |-> audit[Place(i)]]
  BY DEF RowsWithout
<1> HIDE DEF kept, Place
<1> QED BY <1>1, <1>2, <1>3, <1>4

LEMMA AuditStarts ==
  ASSUME AuditInit
  PROVE  AuditInv
<1>1. /\ audit = <<>> /\ purged = FALSE /\ logging \in [table : {Unset}, snapshot : BOOLEAN]
      /\ event = [o \in Observers |-> Unset]
  BY DEF AuditInit
<1>2. audit \in Seq(AuditRow)
  BY <1>1
<1>3. event \in [Observers -> BOOLEAN \cup {Unset}] /\ \A o \in Observers : event[o] = Unset
  BY <1>1
<1> QED BY <1>1, <1>2, <1>3, Zenon DEF AuditInv, DeletedAddressesStayAway

\* A row that is written while the addresses are gone has none.
LEMMA NoAddress ==
  ASSUME AuditInv, NEW o \in Observers, event[o] # Unset, NEW security \in BOOLEAN
  PROVE  /\ Row(security, event[o]) \in AuditRow
         /\ ~persisted_audit_client_ip_enabled(logging.snapshot) => ~Row(security, event[o]).ip
<1>1. /\ event[o] \in BOOLEAN /\ logging.table \in BOOLEAN \cup {Unset} /\ logging.snapshot \in BOOLEAN
      /\ logging.table = Unset => event[o] = logging.snapshot
  BY DEF AuditInv
<1>2. persisted_audit_client_ip_enabled(event[o]) \in BOOLEAN
  BY <1>1 DEF persisted_audit_client_ip_enabled
<1>3. Row(security, event[o]).ip = (event[o] /\ persisted_audit_client_ip_enabled(event[o]))
  BY DEF Row
<1>4. Row(security, event[o]) \in AuditRow
  BY <1>1, <1>2 DEF Row, AuditRow
<1>5. ASSUME ~persisted_audit_client_ip_enabled(logging.snapshot)
      PROVE  ~(event[o] /\ persisted_audit_client_ip_enabled(event[o]))
  BY <1>1, <1>5 DEF persisted_audit_client_ip_enabled
<1> QED BY <1>3, <1>4, <1>5, Zenon

LEMMA AppendedRow ==
  ASSUME NEW s \in Seq(AuditRow), NEW row \in AuditRow
  PROVE  /\ Append(s, row) \in Seq(AuditRow)
         /\ (\A i \in DOMAIN s : ~s[i].ip) /\ ~row.ip => \A i \in DOMAIN Append(s, row) : ~Append(s, row)[i].ip
OBVIOUS

LEMMA AuditSteps ==
  ASSUME AuditInv, [AuditNext]_auditVars
  PROVE  AuditInv'
<1>1. ASSUME NEW o \in Observers, enabled_audit_client_ip(o) PROVE AuditInv'
  <2>1. /\ audit' = audit /\ logging' = logging /\ purged' = purged
        /\ event' = [event EXCEPT ![o] = logging.snapshot]
    BY <1>1 DEF enabled_audit_client_ip
  <2>2. event' \in [Observers -> BOOLEAN \cup {Unset}]
    BY <2>1 DEF AuditInv
  <2>3. \A p \in Observers : event'[p] \in {event[p], logging.snapshot}
    BY <2>1, SMTT(30) DEF AuditInv
  <2> QED BY <2>1, <2>2, <2>3 DEF AuditInv, DeletedAddressesStayAway, persisted_audit_client_ip_enabled
<1>2. ASSUME NEW o \in Observers, NEW security \in BOOLEAN, insert_audit_event(o, security)
      PROVE  AuditInv'
  <2>1. /\ event[o] # Unset /\ audit' = Append(audit, Row(security, event[o]))
        /\ logging' = logging /\ purged' = purged /\ event' = [event EXCEPT ![o] = Unset]
    BY <1>2 DEF insert_audit_event
  <2>2. /\ event' \in [Observers -> BOOLEAN \cup {Unset}]
        /\ \A p \in Observers : event'[p] \in {event[p], Unset}
    BY <2>1, SMTT(30) DEF AuditInv
  <2>3. /\ audit' \in Seq(AuditRow)
        /\ purged => \A i \in DOMAIN audit' : ~audit'[i].ip
    BY <2>1, NoAddress, AppendedRow, SMTT(30) DEF AuditInv, DeletedAddressesStayAway
  <2> QED BY <2>1, <2>2, <2>3 DEF AuditInv, DeletedAddressesStayAway, persisted_audit_client_ip_enabled
<1>3. ASSUME NEW enabled \in BOOLEAN, replace_runtime_settings(enabled) PROVE AuditInv'
  <2> DEFINE row == [security |-> TRUE, ip |-> enabled]
  <2>1. /\ logging' = [table |-> enabled, snapshot |-> enabled] /\ event' = event
        /\ audit' = Append(audit, row) /\ purged' = (purged /\ ~enabled)
    BY <1>3 DEF replace_runtime_settings
  <2>2. row \in AuditRow /\ row.ip = enabled
    BY SMTT(30) DEF AuditRow
  <2>3. /\ audit' \in Seq(AuditRow)
        /\ purged /\ ~enabled => \A i \in DOMAIN audit' : ~audit'[i].ip
    <3> HIDE DEF row
    <3> QED BY <2>1, <2>2, AppendedRow DEF AuditInv, DeletedAddressesStayAway
  <2>4. enabled # Unset
    BY AuditAssumption
  <2> QED BY <2>1, <2>3, <2>4 DEF AuditInv, DeletedAddressesStayAway, persisted_audit_client_ip_enabled
<1>4. ASSUME NEW o \in Observers, delete_audit_client_ips(o) PROVE AuditInv'
  <2> DEFINE bare == [i \in DOMAIN audit |-> [audit[i] EXCEPT !.ip = FALSE]]
  <2>1. /\ event[o] # Unset /\ audit' = Append(bare, Row(TRUE, event[o]))
        /\ ~persisted_audit_client_ip_enabled(logging.snapshot)
        /\ logging' = logging /\ purged' = TRUE /\ event' = [event EXCEPT ![o] = Unset]
    BY <1>4 DEF delete_audit_client_ips
  <2>2. /\ event' \in [Observers -> BOOLEAN \cup {Unset}]
        /\ \A p \in Observers : event'[p] \in {event[p], Unset}
    BY <2>1 DEF AuditInv
  <2>3. bare \in Seq(AuditRow) /\ \A i \in DOMAIN bare : ~bare[i].ip
    <3>1. audit \in Seq(AuditRow)
      BY DEF AuditInv
    <3>2. ASSUME NEW row \in AuditRow
          PROVE  [row EXCEPT !.ip = FALSE] \in AuditRow /\ ~[row EXCEPT !.ip = FALSE].ip
      BY Zenon DEF AuditRow
    <3>3. Len(audit) \in Nat /\ \A i \in 1 .. Len(audit) : audit[i] \in AuditRow
      BY <3>1
    <3>4. bare = [i \in 1 .. Len(audit) |-> [audit[i] EXCEPT !.ip = FALSE]]
      BY <3>1
    <3>5. \A i \in 1 .. Len(audit) : bare[i] \in AuditRow /\ ~bare[i].ip
      BY <3>2, <3>3, <3>4
    <3>6. bare \in [1 .. Len(audit) -> AuditRow]
      BY <3>4, <3>5
    <3> HIDE DEF bare
    <3> QED BY <3>3, <3>5, <3>6
  <2> HIDE DEF bare
  <2>4. audit' \in Seq(AuditRow) /\ \A i \in DOMAIN audit' : ~audit'[i].ip
    BY <2>1, <2>3, NoAddress, AppendedRow, Zenon
  <2> QED BY <2>1, <2>2, <2>4, Zenon DEF AuditInv, DeletedAddressesStayAway, persisted_audit_client_ip_enabled
<1>5. ASSUME NEW p \in Passes, DeleteBatch(p) PROVE AuditInv'
  <2>1. PICK gone : audit' = RowsWithout(gone) /\ logging' = logging /\ event' = event /\ purged' = purged
    BY <1>5 DEF DeleteBatch
  <2>2. /\ audit' \in Seq(AuditRow)
        /\ purged => \A i \in DOMAIN audit' : ~audit'[i].ip
    BY <2>1, RowsLeft DEF AuditInv, DeletedAddressesStayAway
  <2> QED BY <2>1, <2>2 DEF AuditInv, DeletedAddressesStayAway, persisted_audit_client_ip_enabled
<1>6. ASSUME UNCHANGED <<audit, logging, event, purged>> PROVE AuditInv'
  BY <1>6, SMTT(30) DEF AuditInv, DeletedAddressesStayAway, persisted_audit_client_ip_enabled
<1>7. CASE AuditNext
  BY <1>1, <1>2, <1>3, <1>4, <1>5, <1>6, <1>7 DEF AuditNext, CountRows, RetentionFails
<1>8. CASE UNCHANGED auditVars
  BY <1>6, <1>8 DEF auditVars
<1> QED BY <1>7, <1>8

\* Deleted addresses stay away, for any number of requests, rows and passes of the
\* retention (delete_audit_client_ips_for_mfa_session, insert_audit_event).
THEOREM AddressesStayAway == AuditSpec => []DeletedAddressesStayAway
<1>1. AuditInit => AuditInv
  BY AuditStarts
<1>2. AuditInv /\ [AuditNext]_auditVars => AuditInv'
  BY AuditSteps
<1>3. AuditInv => DeletedAddressesStayAway
  BY DEF AuditInv
<1> QED BY <1>1, <1>2, <1>3, PTL DEF AuditSpec
=============================================================================
