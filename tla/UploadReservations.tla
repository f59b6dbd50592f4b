------------------------- MODULE UploadReservations -------------------------
(***************************************************************************)
(* Public upload reservations: the SQLite transactions behind the byte,    *)
(* file and directory quotas of an upload share                            *)
(* (src/db/transfers/reservations.rs) and the share mutations that         *)
(* invalidate them (src/db/shares/mutations.rs).                           *)
(*                                                                         *)
(* An upload begins a reservation with no bytes, extends it while it       *)
(* receives data, and commits it, which charges the share's usage row.     *)
(* A reservation belongs to one upload policy epoch of its share: every    *)
(* change of the share's path, password, state or limits starts a new      *)
(* epoch, and the quotas count the reservations of the current one only.   *)
(*                                                                         *)
(* begin, extend and commit read the clock before they wait for the write  *)
(* guard, so they may purge and decide with a stale `now`; the epoch that  *)
(* begin expects was read even earlier, with the share.                    *)
(***************************************************************************)
EXTENDS Integers, FiniteSets

CONSTANTS Shares,           \* row ids of upload shares
          Tokens,           \* random reservation tokens; each is used once
          TotalLimits,      \* values of max_upload_total_size
          FileLimits,       \* values of max_upload_files
          ShareExpires,     \* expires_at of a share row
          MaxSqliteUnsigned,
          MaxDirectories,   \* directories an upload share may create
          ReservationTTL,
          MaxTime,          \* bound: the last instant of a behaviour
          MaxEpoch,         \* bound: the last policy epoch of a share
          MaxRequest        \* bound: bytes or directories one call asks for

ASSUME LimitsAssumption ==
    /\ TotalLimits \subseteq Nat \ {0}
    /\ FileLimits \subseteq Nat \ {0}
    /\ TotalLimits # {} /\ FileLimits # {}
    /\ MaxSqliteUnsigned \in Nat
    /\ MaxDirectories \in Nat
    /\ MaxRequest \in Nat

ASSUME TimeAssumption ==
    /\ ShareExpires \in [Shares -> Nat]
    /\ ReservationTTL \in Nat \ {0}
    /\ MaxTime \in Nat
    /\ MaxEpoch \in Nat

VARIABLES clock,          \* wall-clock time
          shares,         \* share rows: state, limits and policy epoch
          usage,          \* public_upload_usage; a missing row is all zero
          reservations,   \* public_upload_reservations, by token
          issued,         \* tokens some begin has used
          revoked,        \* history: reservations overtaken by a policy change
          charged         \* history: reservations whose upload was charged

vars == <<clock, shares, usage, reservations, issued, revoked, charged>>

ShareRow == [state : {"active", "inactive", "deleted"}, epoch : Nat,
             total : TotalLimits, files : FileLimits]
UsageRow == [bytes : Nat, files : Nat, directories : Nat]
Reservation == [share : Shares, bytes : Nat, expires : Nat, epoch : Nat]

NoUsage == [bytes |-> 0, files |-> 0, directories |-> 0]

-----------------------------------------------------------------------------
Keep(table, rows) == [r \in rows |-> table[r]]
Insert(table, row, value) ==
    [r \in DOMAIN table \cup {row} |-> IF r = row THEN value ELSE table[r]]
Delete(table, row) == Keep(table, DOMAIN table \ {row})

(* DELETE FROM public_upload_reservations WHERE expires_at<=now *)
Purge(rs, now) == Keep(rs, {t \in DOMAIN rs : rs[t].expires > now})

(* The reservations of one policy epoch of a share. *)
Of(rs, s, epoch) == {t \in DOMAIN rs : rs[t].share = s /\ rs[t].epoch = epoch}

(* SUM(reserved_bytes) over some reservations, counted byte by byte. *)
Units(rs, ts) == UNION {{t} \X (1 .. rs[t].bytes) : t \in ts}
Reserved(rs, ts) == Cardinality(Units(rs, ts))

(* An upload share that is active, unexpired and still in the given epoch. *)
Available(s, epoch, now) ==
    /\ shares[s].state = "active"
    /\ shares[s].epoch = epoch
    /\ ShareExpires[s] > now

FileQuotaReached(rs, s, epoch) ==
    usage[s].files + Cardinality(Of(rs, s, epoch)) >= shares[s].files

(* Mutant: forgets the bytes other uploads have reserved. *)
AvailableIgnoringOthers(rs, t) ==
    shares[rs[t].share].total - usage[rs[t].share].bytes

(* What total, usage and the other reservations of the epoch leave for t. *)
AvailableBytes(rs, t) ==
    LET s      == rs[t].share
        others == Of(rs, s, rs[t].epoch) \ {t}
    IN  shares[s].total - usage[s].bytes - Reserved(rs, others)

-----------------------------------------------------------------------------
NewShare(total, files) ==
    [state |-> "active", epoch |-> 0, total |-> total, files |-> files]

Init ==
    /\ clock = 0
    /\ shares \in [Shares -> {NewShare(b, n) : b \in TotalLimits, n \in FileLimits}]
    /\ usage = [s \in Shares |-> NoUsage]
    /\ reservations = [t \in {} |-> NoUsage]
    /\ issued = {}
    /\ revoked = {}
    /\ charged = {}

(* A refusal commits the purge. *)
begin_upload_reservation(t, s, epoch, now) ==
    LET rs      == Purge(reservations, now)
        refused == \/ ~Available(s, epoch, now)
                   \/ usage[s].bytes >= shares[s].total
                   \/ FileQuotaReached(rs, s, epoch)
        new     == [share |-> s, bytes |-> 0,
                    expires |-> now + ReservationTTL, epoch |-> epoch]
    IN  /\ t \notin issued
        /\ \/ refused /\ reservations' = rs /\ UNCHANGED issued
           \/ /\ ~refused
              /\ reservations' = Insert(rs, t, new)
              /\ issued' = issued \cup {t}
        /\ UNCHANGED <<clock, shares, usage, revoked, charged>>

(* The preferred target if the quota has room for it, else the minimum. *)
ChosenBytes(available, minimum, preferred) ==
    IF preferred <= available /\ preferred <= MaxSqliteUnsigned
    THEN preferred ELSE minimum

(* A minimum below the current reservation is an error that rolls back. *)
extend_upload_reservation_up_to(t, minimum, preferred, now) ==
    LET rs      == Purge(reservations, now)
        gone    == t \notin DOMAIN rs
        usable  == ~gone /\ Available(rs[t].share, rs[t].epoch, now)
        shrinks == usable /\ minimum < rs[t].bytes
        refused == \/ minimum > MaxSqliteUnsigned
                   \/ minimum > AvailableBytes(rs, t)
    IN  /\ t \in issued
        /\ minimum <= preferred
        /\ \/ gone /\ reservations' = rs
           \/ ~gone /\ ~usable /\ reservations' = Delete(rs, t)
           \/ shrinks /\ UNCHANGED reservations
           \/ usable /\ ~shrinks /\ refused /\ reservations' = rs
           \/ /\ usable /\ ~shrinks /\ ~refused
              /\ reservations' = [rs EXCEPT
                    ![t].bytes = ChosenBytes(AvailableBytes(rs, t), minimum, preferred),
                    ![t].expires = now + ReservationTTL]
        /\ UNCHANGED <<clock, shares, usage, issued, revoked, charged>>

Charge(s, bytes, directories) ==
    [usage EXCEPT ![s] = [bytes       |-> @.bytes + bytes,
                          files       |-> @.files + 1,
                          directories |-> @.directories + directories]]

(***************************************************************************)
(* More bytes than reserved is an error that rolls back, and so is an      *)
(* upload operation that is not committing or that was charged before.     *)
(***************************************************************************)
commit_upload_reservation(t, bytes, directories, now) ==
    LET rs     == Purge(reservations, now)
        s      == rs[t].share
        gone   == t \notin DOMAIN rs
        usable == ~gone /\ Available(s, rs[t].epoch, now)
        covers == usable /\ bytes <= MaxSqliteUnsigned /\ bytes <= rs[t].bytes
        full   == usage[s].directories + directories > MaxDirectories
    IN  /\ t \in issued
        /\ \/ /\ gone /\ reservations' = rs
              /\ UNCHANGED <<usage, charged>>
           \/ /\ ~gone /\ ~usable /\ reservations' = Delete(rs, t)
              /\ UNCHANGED <<usage, charged>>
           \/ /\ usable /\ (covers => ~full)
              /\ UNCHANGED <<reservations, usage, charged>>
           \/ /\ covers /\ full /\ reservations' = Delete(rs, t)
              /\ UNCHANGED <<usage, charged>>
           \/ /\ covers /\ ~full /\ reservations' = Delete(rs, t)
              /\ usage' = Charge(s, bytes, directories)
              /\ charged' = charged \cup {t}
        /\ UNCHANGED <<clock, shares, issued, revoked>>

cancel_upload_reservation(t) ==
    /\ t \in issued
    /\ reservations' = Delete(reservations, t)
    /\ UNCHANGED <<clock, shares, usage, issued, revoked, charged>>

-----------------------------------------------------------------------------
(* Share mutations.  `changes` says whether the policy really changes. *)

Exists(s) == shares[s].state # "deleted"

(* Mutant: a change of the share keeps its policy epoch. *)
ReviseSameEpoch(s, row, changes) ==
    /\ shares' = [shares EXCEPT ![s] = row]
    /\ revoked' = IF changes
                  THEN revoked \cup {t \in DOMAIN reservations :
                                        reservations[t].share = s}
                  ELSE revoked

Revise(s, row, changes) ==
    /\ changes => shares[s].epoch < MaxEpoch
    /\ shares' = [shares EXCEPT ![s] =
                     IF changes THEN [row EXCEPT !.epoch = @ + 1] ELSE row]
    /\ revoked' = IF changes
                  THEN revoked \cup {t \in DOMAIN reservations :
                                        reservations[t].share = s}
                  ELSE revoked

set_share_active(s, state) ==
    /\ Exists(s)
    /\ Revise(s, [shares[s] EXCEPT !.state = state], shares[s].state # state)
    /\ UNCHANGED <<clock, usage, reservations, issued, charged>>

deactivate_shares_for_path(s) ==
    /\ shares[s].state = "active"
    /\ Revise(s, [shares[s] EXCEPT !.state = "inactive"], TRUE)
    /\ UNCHANGED <<clock, usage, reservations, issued, charged>>

(* A renamed path and a new password start an epoch without comparing. *)
RenameOrPassword(s) ==
    /\ Exists(s)
    /\ Revise(s, shares[s], TRUE)
    /\ UNCHANGED <<clock, usage, reservations, issued, charged>>

(* The new limits have to cover usage and the reservations of the epoch. *)
QuotaConflict(rs, s, total, files) ==
    LET current == Of(rs, s, shares[s].epoch)
    IN  \/ total < usage[s].bytes + Reserved(rs, current)
        \/ files < usage[s].files + Cardinality(current)

update_share_controls(s, state, strategyChanges) ==
    LET rs  == Purge(reservations, clock)
        row == [shares[s] EXCEPT !.state = state]
    IN  /\ reservations' = rs
        /\ \/ ~Exists(s) /\ UNCHANGED <<shares, revoked>>
           \/ /\ Exists(s)
              /\ Revise(s, row, row # shares[s] \/ strategyChanges)
           \/ \E total \in TotalLimits, files \in FileLimits :
                 LET limited == [row EXCEPT !.total = total, !.files = files]
                 IN  /\ Exists(s)
                     /\ IF QuotaConflict(rs, s, total, files)
                        THEN UNCHANGED <<shares, revoked>>
                        ELSE Revise(s, limited,
                                    limited # shares[s] \/ strategyChanges)
        /\ UNCHANGED <<clock, usage, issued, charged>>

(* Deleting the row cascades to its usage and its reservations. *)
delete_share(s) ==
    LET its == {t \in DOMAIN reservations : reservations[t].share = s}
    IN  /\ Exists(s)
        /\ shares' = [shares EXCEPT ![s].state = "deleted"]
        /\ usage' = [usage EXCEPT ![s] = NoUsage]
        /\ reservations' = Keep(reservations, DOMAIN reservations \ its)
        /\ revoked' = revoked \cup its
        /\ UNCHANGED <<clock, issued, charged>>

(* SQLite may give a new share the row id of a deleted one. *)
create_share(s) ==
    /\ ~Exists(s)
    /\ \E total \in TotalLimits, files \in FileLimits :
          shares' = [shares EXCEPT ![s] = NewShare(total, files)]
    /\ UNCHANGED <<clock, usage, reservations, issued, revoked, charged>>

Tick ==
    /\ clock < MaxTime
    /\ clock' = clock + 1
    /\ UNCHANGED <<shares, usage, reservations, issued, revoked, charged>>

Next ==
    \/ \E t \in Tokens, now \in 0 .. clock :
          \/ \E s \in Shares, epoch \in 0 .. MaxEpoch :
                begin_upload_reservation(t, s, epoch, now)
          \/ \E minimum, preferred \in 0 .. MaxRequest :
                extend_upload_reservation_up_to(t, minimum, preferred, now)
          \/ \E bytes, directories \in 0 .. MaxRequest :
                commit_upload_reservation(t, bytes, directories, now)
    \/ \E t \in Tokens : cancel_upload_reservation(t)
    \/ \E s \in Shares :
          \/ \E state \in {"active", "inactive"} :
                \/ set_share_active(s, state)
                \/ \E strategyChanges \in BOOLEAN :
                      update_share_controls(s, state, strategyChanges)
          \/ deactivate_shares_for_path(s)
          \/ RenameOrPassword(s)
          \/ delete_share(s)
          \/ create_share(s)
    \/ Tick

Spec == Init /\ [][Next]_vars

-----------------------------------------------------------------------------
(* Every variable has its type; a share never owns more created directories *)
(* than MAX_PUBLIC_UPLOAD_CREATED_DIRECTORIES_PER_SHARE.                    *)
TypeOK ==
    /\ clock \in Nat
    /\ shares \in [Shares -> ShareRow]
    /\ usage \in [Shares -> UsageRow]
    /\ \A s \in Shares : usage[s].directories <= MaxDirectories
    /\ reservations = Keep(reservations, DOMAIN reservations)
    /\ DOMAIN reservations \subseteq issued
    /\ \A t \in DOMAIN reservations : reservations[t] \in Reservation
    /\ issued \subseteq Tokens
    /\ revoked \subseteq issued
    /\ charged \subseteq issued

Current(s) == Of(reservations, s, shares[s].epoch)

(* Stored files plus the uploads in flight under the current policy never    *)
(* exceed max_upload_files: commit adds a file without asking again, purges  *)
(* run with stale clocks, and limits change while uploads are in flight.     *)
FileQuota ==
    \A s \in Shares :
        usage[s].files + Cardinality(Current(s)) <= shares[s].files

(* Stored bytes plus the bytes reserved under the current policy never       *)
(* exceed max_upload_total_size, through speculative extensions, commits of  *)
(* fewer bytes than reserved, expiry, and updates of the limits.             *)
ByteQuota ==
    \A s \in Shares :
        usage[s].bytes + Reserved(reservations, Current(s)) <= shares[s].total

(* Both quotas of a share hold whatever is in flight (begin, extend and       *)
(* commit of a reservation, update_share_controls).                           *)
Quotas == FileQuota /\ ByteQuota

(* An upload begun before its share was renamed, deactivated, re-limited,    *)
(* given another password or deleted is never charged, not even after the    *)
(* share has been reactivated or its row id reused: commit compares epochs.  *)
NoChargeAfterRevocationStep == (charged' \ charged) \cap revoked = {}
NoChargeAfterRevocation == [][NoChargeAfterRevocationStep]_vars

=============================================================================
