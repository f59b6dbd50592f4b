------------------------------- MODULE Shares -------------------------------
(***************************************************************************)
(* Shares and the visitors of their public pages.  Administrators create,  *)
(* change and delete share rows under the storage mutation guard; SQLite   *)
(* hands the row id of a deleted share to the next one.  A visitor unlocks *)
(* a protected share by verifying its password and then storing a session, *)
(* and reads a page after checking the share, and the session, once before *)
(* and once under the storage read guard.                                  *)
(***************************************************************************)
EXTENDS Naturals, FiniteSets, FiniteSetsExt

CONSTANTS
  ShareIds,       \* row ids, 1 .. n
  Links,          \* the secret tokens in the shares' addresses
  PasswordHashes, \* salted, so no two settings of a password give the same
  Visitors,       \* browsers with their cookies
  ShareAdmins,    \* requests of administrators that hash a password first
  Targets,        \* paths below the storage root
  MaxEpoch,       \* bound on upload_policy_epoch
  NoRow           \* no row, no password, no session, no request

ShareRow ==
  [token : Links, relative_path : Targets, is_directory : {"file", "directory", "nothing"},
   password_hash : PasswordHashes \cup {NoRow}, active : BOOLEAN, expired : BOOLEAN,
   upload_policy_epoch : 0 .. MaxEpoch]

ASSUME SharesAssumption ==
  /\ Cardinality(ShareIds) \in Nat /\ ShareIds = 1 .. Cardinality(ShareIds)
  /\ MaxEpoch \in Nat /\ NoRow \notin ShareRow

VARIABLES
  target,     \* what is at each path
  share,      \* rows of shares
  unlocked,   \* a visitor's row of public_unlock_sessions
  visit,      \* a visitor's request
  change      \* an administrator's request

shareVars == <<target, share, unlocked, visit, change>>

SharesInit ==
  /\ target \in [Targets -> {"file", "directory"}]
  /\ share = [i \in ShareIds |-> NoRow]
  /\ unlocked = [v \in Visitors |-> NoRow]
  /\ visit = [v \in Visitors |-> NoRow]
  /\ change = [a \in ShareAdmins |-> NoRow]

Exists(i) == share[i] # NoRow
FreshHash(h) ==
  /\ \A i \in ShareIds : Exists(i) => share[i].password_hash # h
  /\ \A v \in Visitors : /\ unlocked[v] # NoRow => unlocked[v].verified # h
                         /\ visit[v] # NoRow => visit[v].seen.password_hash # h
  /\ \A a \in ShareAdmins : change[a] # NoRow => change[a].hash # h
FreshLink(l) ==
  /\ \A i \in ShareIds : Exists(i) => share[i].token # l
  /\ \A v \in Visitors : visit[v] # NoRow => visit[v].seen.token # l

\* The storage read guard: held by a page from before its (second) reading of
\* the share on.  The mutation guard excludes it.
Reading(v) == visit[v] # NoRow /\ visit[v].guard
MutationGuard == \A v \in Visitors : ~Reading(v)

-----------------------------------------------------------------------------
(* Creating                                                                *)

\* The target is looked at, and the password hashed, before the guard.
prepare_create(a, p, h) ==
  /\ change[a] = NoRow /\ target[p] # "nothing"
  /\ h # NoRow => FreshHash(h)
  /\ change' = [change EXCEPT ![a] = [op |-> "create", path |-> p, kind |-> target[p], hash |-> h]]
  /\ UNCHANGED <<target, share, unlocked, visit>>

\* An INTEGER PRIMARY KEY without AUTOINCREMENT: one more than the largest.
NewRowId == LET used == {i \in ShareIds : Exists(i)} IN IF used = {} THEN 1 ELSE Max(used) + 1

TargetStands(a) == target[change[a].path] = change[a].kind

\* Under the mutation guard: the target is looked at again, and the row
\* inserted; a taken alias or token is a conflict.
create_share(a, l) ==
  /\ change[a] # NoRow /\ change[a].op = "create" /\ MutationGuard
  /\ FreshLink(l)
  /\ IF TargetStands(a) /\ NewRowId \in ShareIds
       THEN share' = [share EXCEPT ![NewRowId] =
              [token |-> l, relative_path |-> change[a].path, is_directory |-> change[a].kind,
               password_hash |-> change[a].hash, active |-> TRUE, expired |-> FALSE,
               upload_policy_epoch |-> 0]]
       ELSE UNCHANGED share
  /\ change' = [change EXCEPT ![a] = NoRow]
  /\ UNCHANGED <<target, unlocked, visit>>

-----------------------------------------------------------------------------
(* Changing.  The share is read under the guard, so each is one step.      *)

Bumped(row) == [row EXCEPT !.upload_policy_epoch = @ + 1]
MayBump(i) == Exists(i) /\ share[i].upload_policy_epoch < MaxEpoch /\ MutationGuard

toggle_share(i) ==
  /\ MayBump(i)
  /\ share' = [share EXCEPT ![i] = [Bumped(@) EXCEPT !.active = ~share[i].active]]
  /\ UNCHANGED <<target, unlocked, visit, change>>

\* The API may set the state and the upload controls at once; the epoch grows
\* only if one of them gets another value.
update_share(i, active, controls) ==
  /\ MayBump(i)
  /\ share' = [share EXCEPT ![i] = IF controls \/ active # @.active
                                    THEN [Bumped(@) EXCEPT !.active = active] ELSE @]
  /\ UNCHANGED <<target, unlocked, visit, change>>

\* The form sets the controls of folders only.
set_share_upload_conflict(i) ==
  /\ MayBump(i) /\ share[i].is_directory = "directory"
  /\ share' = [share EXCEPT ![i] = Bumped(@)]
  /\ UNCHANGED <<target, unlocked, visit, change>>

\* ON DELETE CASCADE takes the unlock sessions with the row.
SessionsWithoutShare(i) ==
  [v \in Visitors |-> IF unlocked[v] # NoRow /\ unlocked[v].share_id = i THEN NoRow ELSE unlocked[v]]

delete_share(i) ==
  /\ Exists(i) /\ MutationGuard
  /\ share' = [share EXCEPT ![i] = NoRow]
  /\ unlocked' = SessionsWithoutShare(i)
  /\ UNCHANGED <<target, visit, change>>

\* The new password is hashed first; the share may be another one by then.
prepare_password(a, i, h) ==
  /\ change[a] = NoRow /\ Exists(i)
  /\ h # NoRow => FreshHash(h)
  /\ change' = [change EXCEPT ![a] = [op |-> "password", id |-> i, hash |-> h]]
  /\ UNCHANGED <<target, share, unlocked, visit>>
set_share_password(a) ==
  /\ change[a] # NoRow /\ change[a].op = "password" /\ MutationGuard
  /\ LET i == change[a].id
     IN IF Exists(i)
          THEN /\ share[i].upload_policy_epoch < MaxEpoch
               /\ share' = [share EXCEPT ![i] = [Bumped(@) EXCEPT !.password_hash = change[a].hash]]
               /\ unlocked' = SessionsWithoutShare(i)
          ELSE UNCHANGED <<share, unlocked>>
  /\ change' = [change EXCEPT ![a] = NoRow]
  /\ UNCHANGED <<target, visit>>
AbandonChange(a) ==
  /\ change[a] # NoRow
  /\ change' = [change EXCEPT ![a] = NoRow]
  /\ UNCHANGED <<target, share, unlocked, visit>>

\* File operations move or remove the target with the rows that name it.
rename_share_paths(p, q) ==
  /\ MutationGuard /\ target[p] # "nothing" /\ target[q] = "nothing"
  /\ \A i \in ShareIds : Exists(i) /\ share[i].relative_path = p => MayBump(i)
  /\ target' = [target EXCEPT ![p] = "nothing", ![q] = target[p]]
  /\ share' = [i \in ShareIds |-> IF Exists(i) /\ share[i].relative_path = p
                                    THEN [Bumped(share[i]) EXCEPT !.relative_path = q]
                                    ELSE share[i]]
  /\ UNCHANGED <<unlocked, visit, change>>
deactivate_shares_for_path(p) ==
  /\ MutationGuard /\ target[p] # "nothing"
  /\ \A i \in ShareIds : Exists(i) /\ share[i].relative_path = p /\ share[i].active => MayBump(i)
  /\ target' = [target EXCEPT ![p] = "nothing"]
  /\ share' = [i \in ShareIds |->
       IF Exists(i) /\ share[i].relative_path = p /\ share[i].active
         THEN [Bumped(share[i]) EXCEPT !.active = FALSE] ELSE share[i]]
  /\ UNCHANGED <<unlocked, visit, change>>
\* An upload or a new folder.
CreateTarget(p, kind) ==
  /\ MutationGuard /\ target[p] = "nothing"
  /\ target' = [target EXCEPT ![p] = kind]
  /\ UNCHANGED <<share, unlocked, visit, change>>

ShareExpires(i) ==
  /\ Exists(i) /\ ~share[i].expired
  /\ share' = [share EXCEPT ![i].expired = TRUE]
  /\ UNCHANGED <<target, unlocked, visit, change>>
UnlockExpires(v) ==
  /\ unlocked[v] # NoRow
  /\ unlocked' = [unlocked EXCEPT ![v] = NoRow]
  /\ UNCHANGED <<target, share, visit, change>>

-----------------------------------------------------------------------------
(* Visitors                                                                *)

usable(row) == row.active /\ ~row.expired
ByLink(l) == {i \in ShareIds : Exists(i) /\ share[i].token = l}
unlock_session(v, i) == unlocked[v] # NoRow /\ unlocked[v].share_id = i
share_is_unlocked(v, i, row) == row.password_hash = NoRow \/ unlock_session(v, i)

Visit(at, i, guard) == [at |-> at, id |-> i, seen |-> share[i], guard |-> guard]
Step(v, next) ==
  /\ visit' = [visit EXCEPT ![v] = next]
  /\ UNCHANGED <<target, share, unlocked, change>>

\* unlock_share reads the share and verifies the password against what it read.
unlock_share(v, i) ==
  /\ visit[v] = NoRow /\ Exists(i) /\ usable(share[i]) /\ share[i].password_hash # NoRow
  /\ Step(v, Visit("verified", i, FALSE))

\* Mutant: only the epoch is compared with what was verified.
EpochStands(row, seen) == row.upload_policy_epoch = seen.upload_policy_epoch

VerifiedStands(row, seen) ==
  /\ row.password_hash = seen.password_hash
  /\ row.upload_policy_epoch = seen.upload_policy_epoch

create_unlock_session_for_verified_password_internal(v) ==
  /\ visit[v] # NoRow /\ visit[v].at = "verified"
  /\ LET i == visit[v].id
     IN IF Exists(i) /\ VerifiedStands(share[i], visit[v].seen) /\ usable(share[i])
          THEN unlocked' = [unlocked EXCEPT ![v] =
                 [share_id |-> i, verified |-> visit[v].seen.password_hash]]
          ELSE UNCHANGED unlocked
  /\ visit' = [visit EXCEPT ![v] = NoRow]
  /\ UNCHANGED <<target, share, change>>

\* public_page tries for the guard first, if storage is clean and no one is
\* waiting for it, and keeps it for a share without a password.
public_page(v, i, clean) ==
  /\ visit[v] = NoRow /\ Exists(i) /\ usable(share[i])
  /\ Step(v, Visit("early", i, clean /\ share[i].password_hash = NoRow))

CheckUnlocked(v) ==
  /\ visit[v] # NoRow /\ visit[v].at = "early"
  /\ LET i == visit[v].id
         open == share_is_unlocked(v, i, visit[v].seen)
     IN Step(v, CASE open /\ ~visit[v].guard -> [visit[v] EXCEPT !.at = "recheck"]
                  [] open /\ visit[v].guard /\ usable(share[i]) -> [visit[v] EXCEPT !.at = "bind"]
                  [] OTHER -> NoRow)

\* The guard, then the share by its link again, then its lock again.
get_storage_share(v) ==
  /\ visit[v] # NoRow /\ visit[v].at = "recheck"
  /\ LET found == ByLink(visit[v].seen.token)
     IN Step(v, IF /\ found = {visit[v].id}
                   /\ usable(share[visit[v].id])
                   /\ share_is_unlocked(v, visit[v].id, share[visit[v].id])
                  THEN Visit("bind", visit[v].id, TRUE) ELSE NoRow)

\* The directory is bound and the guard returned.
bind_downloadable_directory(v) ==
  /\ visit[v] # NoRow /\ visit[v].at = "bind"
  /\ Step(v, NoRow)

-----------------------------------------------------------------------------
AdminStep(a) ==
  \/ \E p \in Targets, h \in PasswordHashes \cup {NoRow} : prepare_create(a, p, h)
  \/ \E l \in Links : create_share(a, l)
  \/ \E i \in ShareIds, h \in PasswordHashes \cup {NoRow} : prepare_password(a, i, h)
  \/ set_share_password(a)
  \/ AbandonChange(a)
ShareStep(i) ==
  \/ toggle_share(i)
  \/ \E active, controls \in BOOLEAN : update_share(i, active, controls)
  \/ set_share_upload_conflict(i)
  \/ delete_share(i)
  \/ ShareExpires(i)
TargetStep(p) ==
  \/ \E q \in Targets : rename_share_paths(p, q)
  \/ deactivate_shares_for_path(p)
  \/ \E kind \in {"file", "directory"} : CreateTarget(p, kind)
VisitorStep(v) ==
  \/ \E i \in ShareIds : unlock_share(v, i)
  \/ create_unlock_session_for_verified_password_internal(v)
  \/ \E i \in ShareIds, clean \in BOOLEAN : public_page(v, i, clean)
  \/ CheckUnlocked(v)
  \/ get_storage_share(v)
  \/ bind_downloadable_directory(v)
  \/ UnlockExpires(v)

SharesNext ==
  \/ \E a \in ShareAdmins : AdminStep(a)
  \/ \E i \in ShareIds : ShareStep(i)
  \/ \E p \in Targets : TargetStep(p)
  \/ \E v \in Visitors : VisitorStep(v)

SharesSpec == SharesInit /\ [][SharesNext]_shareVars

-----------------------------------------------------------------------------
\* An unlock session belongs to the share whose present password the visitor
\* gave: neither a new password nor a share that inherited the row id lets an
\* earlier verification through.
UnlockedByPresentPassword ==
  \A v \in Visitors : unlocked[v] # NoRow =>
    /\ Exists(unlocked[v].share_id)
    /\ share[unlocked[v].share_id].password_hash = unlocked[v].verified

\* A page is bound to what the row says at that moment: the same link, path and
\* password as the row the visit was admitted by (get_storage_share).
PageIsCurrent ==
  \A v \in Visitors : visit[v] # NoRow /\ visit[v].at = "bind" =>
    LET i == visit[v].id
    IN /\ Exists(i)
       /\ share[i].token = visit[v].seen.token
       /\ share[i].relative_path = visit[v].seen.relative_path
       /\ share[i].password_hash = visit[v].seen.password_hash

\* What a visitor unlocked and sees is the share as it is now, not as it was
\* when a check on it began (unlock_share, public_page).
VisitorSeesPresentShare == UnlockedByPresentPassword /\ PageIsCurrent

=============================================================================
