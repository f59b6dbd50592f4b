--------------------------- MODULE TransferLeases ---------------------------
(***************************************************************************)
(* Public transfer grants and leases: the SQLite transactions behind       *)
(* `max_downloads` (src/db/transfers.rs, src/db/transfers/leases.rs).      *)
(*                                                                         *)
(* A grant is the logical, count-once transfer of one client session, one  *)
(* share and one resource.  A lease is one HTTP request working under a    *)
(* grant.  A grant that is not yet counted reserves a download slot for as *)
(* long as it has a live lease; the first completed lease of a grant (or   *)
(* the heartbeat that meets the absolute lifetime) counts it.              *)
(*                                                                         *)
(* Every operation is one IMMEDIATE transaction behind the transfer write  *)
(* guard, so an operation is one action.  What the transactions do not     *)
(* share is their clock: completion, cancellation and heartbeat read the   *)
(* time before they queue for the guard and may run with a stale `now`.    *)
(***************************************************************************)
EXTENDS Naturals, FiniteSets

CONSTANTS Shares,               \* share row ids
          Clients,              \* transfer sessions
          Resources,            \* resource key and action of a request
          LeaseTokens,          \* random lease tokens; each is issued once
          MaxDownloads,         \* max_downloads of a share row, or Unlimited
          Unlimited,            \* the NULL limit
          ShareExpires,         \* expires_at of a share row
          UnlockSessionTTL,
          TransferSessionTTL,
          LeaseMaxLifetime,
          MaxTime               \* bound: the last instant of a behaviour

ASSUME SharesAssumption ==
    /\ Unlimited \notin Nat
    /\ MaxDownloads \in [Shares -> (Nat \ {0}) \cup {Unlimited}]
    /\ ShareExpires \in [Shares -> Nat]

ASSUME TimeAssumption ==
    /\ UnlockSessionTTL \in Nat
    /\ TransferSessionTTL \in Nat \ {0}
    /\ LeaseMaxLifetime \in Nat
    /\ TransferSessionTTL <= LeaseMaxLifetime
    /\ MaxTime \in Nat

VARIABLES clock,       \* wall-clock time
          shares,      \* share rows: lifecycle state and download_count
          unlocked,    \* public_unlock_sessions: client, share and deadline
          grants,      \* public_transfer_grants, by their UNIQUE key
          leases,      \* public_transfer_leases, by token
          issued,      \* lease tokens handed to a request so far
          audits       \* transfer audit rows (and monthly counts) written

vars == <<clock, shares, unlocked, grants, leases, issued, audits>>

GrantKeys == [client : Clients, share : Shares, resource : Resources]
Grant == [counted : BOOLEAN, expires : Nat]
Lease == [grant : GrantKeys, created : Nat, expires : Nat]
ShareRow == [state : {"active", "inactive", "deleted"},
             protected : BOOLEAN, download_count : Nat]
NewShare(protected) ==
    [state |-> "active", protected |-> protected, download_count |-> 0]

-----------------------------------------------------------------------------
(* Tables as partial functions. *)

Keep(table, rows) == [r \in rows |-> table[r]]
Insert(table, row, value) ==
    [r \in DOMAIN table \cup {row} |-> IF r = row THEN value ELSE table[r]]
Delete(table, row) == Keep(table, DOMAIN table \ {row})

(* The leases that are live at an instant, and the grants one of them holds. *)
LiveLeases(ls, now) == {t \in DOMAIN ls : ls[t].expires > now}
HeldAt(ls, now) == {ls[t].grant : t \in LiveLeases(ls, now)}

(***************************************************************************)
(* The three cleanup statements, in their order, with the foreign key's    *)
(* ON DELETE CASCADE after each grant deletion.  `spared` is {} for        *)
(* cleanup_transfer_state and the current lease for the heartbeat variant. *)
(***************************************************************************)
Cleanup(gs, ls, now, spared) ==
    LET held    == {ls[t].grant : t \in spared \cap DOMAIN ls}
        alive   == {t \in DOMAIN ls : ls[t].expires > now \/ t \in spared}
        current == {k \in DOMAIN gs : gs[k].expires > now \/ k \in held}
        covered == {t \in alive : ls[t].grant \in current}
        kept    == {k \in current :
                       \/ gs[k].counted
                       \/ k \in held
                       \/ \E t \in covered :
                             ls[t].grant = k /\ ls[t].expires > now}
    IN  [grants |-> Keep(gs, kept),
         leases |-> Keep(ls, {t \in covered : ls[t].grant \in kept})]

cleanup_transfer_state(gs, ls, now) == Cleanup(gs, ls, now, {})
cleanup_transfer_state_before_heartbeat(gs, ls, now, current) ==
    Cleanup(gs, ls, now, {current})

(* Uncounted, unexpired grants of a share with a live lease. *)
PendingGrants(gs, ls, s, now) ==
    {k \in DOMAIN gs : /\ k.share = s
                       /\ ~gs[k].counted
                       /\ gs[k].expires > now
                       /\ k \in HeldAt(ls, now)}

ExistingGrant(gs, ls, k, now) ==
    /\ k \in DOMAIN gs
    /\ gs[k].expires > now
    /\ gs[k].counted \/ k \in HeldAt(ls, now)

ShareAvailable(s, now) == shares[s].state = "active" /\ ShareExpires[s] > now

(* Mutant: compares the limit with the counted downloads only. *)
LimitIgnoringPending(gs, ls, s, now) ==
    /\ MaxDownloads[s] # Unlimited
    /\ shares[s].download_count >= MaxDownloads[s]

LimitReached(gs, ls, s, now) ==
    /\ MaxDownloads[s] # Unlimited
    /\ shares[s].download_count + Cardinality(PendingGrants(gs, ls, s, now))
          >= MaxDownloads[s]

Authorized(c, s, now) ==
    shares[s].protected =>
        \E u \in unlocked : u.client = c /\ u.share = s /\ u.expires > now

(* What a request for a grant may do, in the order the code decides it. *)
transfer_access_state(gs, ls, k, now) ==
    CASE ~ShareAvailable(k.share, now) -> "ShareUnavailable"
      [] /\ ShareAvailable(k.share, now)
         /\ ~Authorized(k.client, k.share, now) -> "Unauthorized"
      [] OTHER -> IF ExistingGrant(gs, ls, k, now) THEN "ExistingGrant"
                  ELSE IF LimitReached(gs, ls, k.share, now)
                       THEN "LimitReached" ELSE "Available"

(* The bodyless preflight: one read snapshot, no cleanup, no reservation. *)
check_authorized_transfer_availability(k) ==
    transfer_access_state(grants, leases, k, clock)

-----------------------------------------------------------------------------
Init ==
    /\ clock = 0
    /\ \E protected \in [Shares -> BOOLEAN] :
          shares = [s \in Shares |-> NewShare(protected[s])]
    /\ unlocked = {}
    /\ grants = [k \in {} |-> [counted |-> FALSE, expires |-> 0]]
    /\ leases = [t \in {} |-> [grant |-> {}, created |-> 0, expires |-> 0]]
    /\ issued = {}
    /\ audits = 0

(***************************************************************************)
(* begin_authorized_transfer_lease.  It reads the clock inside its         *)
(* transaction, cleans up and decides with that one instant.               *)
(***************************************************************************)
NewLease(k, now) ==
    [grant |-> k, created |-> now, expires |-> now + TransferSessionTTL]

(* Mutant: a second request does not move the deadline of its grant. *)
BeginExistingUnextended(t, k) ==
    LET now == clock
        c   == cleanup_transfer_state(grants, leases, now)
    IN  /\ t \notin issued
        /\ transfer_access_state(c.grants, c.leases, k, now) = "ExistingGrant"
        /\ grants' = c.grants
        /\ leases' = Insert(c.leases, t, NewLease(k, now))
        /\ issued' = issued \cup {t}
        /\ UNCHANGED <<clock, shares, unlocked, audits>>

BeginExisting(t, k) ==
    LET now == clock
        c   == cleanup_transfer_state(grants, leases, now)
    IN  /\ t \notin issued
        /\ transfer_access_state(c.grants, c.leases, k, now) = "ExistingGrant"
        /\ grants' = IF c.grants[k].counted THEN c.grants
                     ELSE [c.grants EXCEPT
                             ![k].expires = now + TransferSessionTTL]
        /\ leases' = Insert(c.leases, t, NewLease(k, now))
        /\ issued' = issued \cup {t}
        /\ UNCHANGED <<clock, shares, unlocked, audits>>

BeginNew(t, k) ==
    LET now == clock
        c   == cleanup_transfer_state(grants, leases, now)
    IN  /\ t \notin issued
        /\ transfer_access_state(c.grants, c.leases, k, now) = "Available"
        /\ grants' = Insert(c.grants, k,
                            [counted |-> FALSE,
                             expires |-> now + TransferSessionTTL])
        /\ leases' = Insert(c.leases, t, NewLease(k, now))
        /\ issued' = issued \cup {t}
        /\ UNCHANGED <<clock, shares, unlocked, audits>>

(* A refusal commits the cleanup; an unauthorized one rolls it back. *)
BeginRefused(k) ==
    LET now    == clock
        c      == cleanup_transfer_state(grants, leases, now)
        access == transfer_access_state(c.grants, c.leases, k, now)
    IN  /\ access \in {"Unauthorized", "LimitReached", "ShareUnavailable"}
        /\ IF access = "Unauthorized"
           THEN UNCHANGED <<grants, leases>>
           ELSE grants' = c.grants /\ leases' = c.leases
        /\ UNCHANGED <<clock, shares, unlocked, issued, audits>>

begin_authorized_transfer_lease ==
    \E k \in GrantKeys :
        \/ BeginRefused(k)
        \/ \E t \in LeaseTokens : BeginExisting(t, k) \/ BeginNew(t, k)

(***************************************************************************)
(* The other calls carry a token that an earlier begin issued.  They read  *)
(* the clock before they wait for the write guard: `now` is any instant    *)
(* between the creation of the lease and the transaction.                  *)
(***************************************************************************)
CallTimes(t) ==
    IF t \in DOMAIN leases THEN leases[t].created .. clock ELSE 0 .. clock

(* Mutant: forgets to mark the grant as counted. *)
CountGrantUnmarked(gs, k, now) ==
    [gs EXCEPT ![k].expires = now + TransferSessionTTL]

(* The first completion of a grant: share counter, grant and audit row. *)
CountGrant(gs, k, now) ==
    [gs EXCEPT ![k] = [counted |-> TRUE, expires |-> now + TransferSessionTTL]]
CountShare(k) == [shares EXCEPT ![k.share].download_count = @ + 1]

complete_transfer_lease(t, now) ==
    LET c    == cleanup_transfer_state(grants, leases, now)
        k    == c.leases[t].grant
        live == /\ t \in DOMAIN c.leases
                /\ c.leases[t].expires > now
                /\ c.grants[k].expires > now
    IN  /\ t \in issued
        /\ \/ /\ ~live
              /\ grants' = c.grants
              /\ leases' = c.leases
              /\ UNCHANGED <<shares, audits>>
           \/ /\ live
              /\ c.grants[k].counted
              /\ grants' = c.grants
              /\ leases' = Delete(c.leases, t)
              /\ UNCHANGED <<shares, audits>>
           \/ /\ live
              /\ ~c.grants[k].counted
              /\ grants' = CountGrant(c.grants, k, now)
              /\ leases' = Delete(c.leases, t)
              /\ shares' = CountShare(k)
              /\ audits' = audits + 1
        /\ UNCHANGED <<clock, unlocked, issued>>

cancel_transfer_lease(t, now) ==
    LET c    == cleanup_transfer_state(grants, leases, now)
        k    == c.leases[t].grant
        rest == Delete(c.leases, t)
    IN  /\ t \in issued
        /\ \/ /\ t \notin DOMAIN c.leases
              /\ grants' = c.grants
              /\ leases' = c.leases
           \/ /\ t \in DOMAIN c.leases
              /\ leases' = rest
              /\ grants' = IF \/ c.grants[k].counted
                              \/ \E u \in DOMAIN rest : rest[u].grant = k
                           THEN c.grants ELSE Delete(c.grants, k)
        /\ UNCHANGED <<clock, shares, unlocked, issued, audits>>

(***************************************************************************)
(* heartbeat_transfer_lease spares its own lease from the first cleanup so *)
(* that a lease past its absolute lifetime is counted rather than lost.    *)
(***************************************************************************)
IsLastExpiry(m, ls, k) ==
    /\ \E u \in DOMAIN ls : ls[u].grant = k /\ ls[u].expires = m
    /\ \A u \in DOMAIN ls : ls[u].grant = k => ls[u].expires <= m

HeartbeatGone(t, now) ==
    LET c == cleanup_transfer_state_before_heartbeat(grants, leases, now, t)
        d == cleanup_transfer_state(c.grants, c.leases, now)
    IN  /\ t \in DOMAIN c.leases =>
              /\ c.leases[t].created + LeaseMaxLifetime > now
              /\ c.leases[t].expires <= now
        /\ grants' = d.grants
        /\ leases' = d.leases
        /\ UNCHANGED <<shares, audits>>

HeartbeatCapped(t, now) ==
    LET c     == cleanup_transfer_state_before_heartbeat(grants, leases, now, t)
        k     == c.leases[t].grant
        first == ~c.grants[k].counted
        d     == cleanup_transfer_state(
                     IF first THEN CountGrant(c.grants, k, now) ELSE c.grants,
                     Delete(c.leases, t), now)
    IN  /\ t \in DOMAIN c.leases
        /\ c.leases[t].created + LeaseMaxLifetime <= now
        /\ grants' = d.grants
        /\ leases' = d.leases
        /\ IF first THEN shares' = CountShare(k) /\ audits' = audits + 1
                    ELSE UNCHANGED <<shares, audits>>

(* The deadline a heartbeat gives a lease: rolling, capped absolutely. *)
ExtendedExpiry(lease, now) ==
    LET rolling  == now + TransferSessionTTL
        absolute == lease.created + LeaseMaxLifetime
    IN  IF rolling <= absolute THEN rolling ELSE absolute

HeartbeatExtended(t, now) ==
    LET c == cleanup_transfer_state_before_heartbeat(grants, leases, now, t)
        k == c.leases[t].grant
    IN  /\ t \in DOMAIN c.leases
        /\ c.leases[t].created + LeaseMaxLifetime > now
        /\ c.leases[t].expires > now
        /\ leases' = [c.leases EXCEPT ![t].expires =
                         ExtendedExpiry(c.leases[t], now)]
        /\ IF c.grants[k].counted THEN grants' = c.grants
           ELSE \E u \in DOMAIN c.leases :
                   LET m == leases'[u].expires
                   IN  /\ IsLastExpiry(m, leases', k)
                       /\ grants' = [c.grants EXCEPT ![k].expires = m]
        /\ UNCHANGED <<shares, audits>>

heartbeat_transfer_lease(t, now) ==
    /\ t \in issued
    /\ HeartbeatGone(t, now) \/ HeartbeatCapped(t, now) \/ HeartbeatExtended(t, now)
    /\ UNCHANGED <<clock, unlocked, issued>>

-----------------------------------------------------------------------------
(* The share rows and unlock sessions the transactions read. *)

set_share_active(s) ==
    /\ shares[s].state # "deleted"
    /\ shares' = [shares EXCEPT ![s].state =
                     IF @ = "active" THEN "inactive" ELSE "active"]
    /\ UNCHANGED <<clock, unlocked, grants, leases, issued, audits>>

(* Deleting the row cascades to its grants, their leases and its unlocks. *)
delete_share(s) ==
    /\ shares[s].state # "deleted"
    /\ shares' = [shares EXCEPT ![s].state = "deleted"]
    /\ unlocked' = {u \in unlocked : u.share # s}
    /\ grants' = Keep(grants, {k \in DOMAIN grants : k.share # s})
    /\ leases' = Keep(leases, {t \in DOMAIN leases : leases[t].grant.share # s})
    /\ UNCHANGED <<clock, issued, audits>>

(* SQLite may give a new share the row id of a deleted one. *)
create_share(s) ==
    /\ shares[s].state = "deleted"
    /\ \E protected \in BOOLEAN :
          shares' = [shares EXCEPT ![s] = NewShare(protected)]
    /\ UNCHANGED <<clock, unlocked, grants, leases, issued, audits>>

(* Only while the verified password is still the share's. *)
create_unlock_session(c, s) ==
    LET current == {u \in unlocked : u.expires > clock}
    IN  /\ unlocked' = IF shares[s].protected /\ ShareAvailable(s, clock)
                       THEN current \cup
                            {[client |-> c, share |-> s,
                              expires |-> clock + UnlockSessionTTL]}
                       ELSE current
        /\ UNCHANGED <<clock, shares, grants, leases, issued, audits>>

(* Setting or removing the password deletes the share's unlock sessions. *)
set_share_password(s) ==
    /\ shares[s].state # "deleted"
    /\ \E protected \in BOOLEAN :
          shares' = [shares EXCEPT ![s].protected = protected]
    /\ unlocked' = {u \in unlocked : u.share # s}
    /\ UNCHANGED <<clock, grants, leases, issued, audits>>

Tick ==
    /\ clock < MaxTime
    /\ clock' = clock + 1
    /\ UNCHANGED <<shares, unlocked, grants, leases, issued, audits>>

Next ==
    \/ begin_authorized_transfer_lease
    \/ \E t \in LeaseTokens : \E now \in CallTimes(t) :
          \/ complete_transfer_lease(t, now)
          \/ cancel_transfer_lease(t, now)
          \/ heartbeat_transfer_lease(t, now)
    \/ \E s \in Shares :
          \/ set_share_active(s)
          \/ delete_share(s)
          \/ create_share(s)
          \/ set_share_password(s)
          \/ \E c \in Clients : create_unlock_session(c, s)
    \/ Tick

Spec == Init /\ [][Next]_vars

-----------------------------------------------------------------------------
(* Every variable has its type, and no lease refers to a missing grant: the *)
(* cleanup, cancellation and share deletion keep the foreign keys whole.    *)
TypeOK ==
    /\ clock \in Nat
    /\ shares \in [Shares -> ShareRow]
    /\ unlocked \subseteq [client : Clients, share : Shares, expires : Nat]
    /\ grants = Keep(grants, DOMAIN grants)
    /\ DOMAIN grants \subseteq GrantKeys
    /\ \A k \in DOMAIN grants : grants[k] \in Grant
    /\ leases = Keep(leases, DOMAIN leases)
    /\ DOMAIN leases \subseteq issued
    /\ \A t \in DOMAIN leases :
          leases[t] \in Lease /\ leases[t].grant \in DOMAIN grants
    /\ issued \subseteq LeaseTokens
    /\ audits \in Nat

UncountedIn(gs, s) == {k \in DOMAIN gs : k.share = s /\ ~gs[k].counted}
Uncounted(s) == UncountedIn(grants, s)

(* The download limit holds whatever the interleaving: the downloads already *)
(* counted and every grant row that may still be counted, expired or not,    *)
(* never exceed max_downloads.  Completion and the capped heartbeat count a  *)
(* grant without looking at the limit again, and with a stale clock.         *)
DownloadLimit ==
    \A s \in Shares : MaxDownloads[s] # Unlimited =>
        shares[s].download_count + Cardinality(Uncounted(s)) <= MaxDownloads[s]

(* A pending grant never expires before a lease that works under it, so the  *)
(* cleanup of another request cannot cascade away a transfer that still      *)
(* heartbeats: begin and heartbeat move both deadlines.                      *)
PendingGrantOutlivesLeases ==
    \A t \in DOMAIN leases :
        LET g == grants[leases[t].grant]
        IN  ~g.counted => leases[t].expires <= g.expires

(* No sequence of heartbeats extends a lease past its absolute lifetime, and  *)
(* none reaches further than one session TTL into the future.                *)
LeaseLifetimeBounded ==
    \A t \in DOMAIN leases :
        /\ leases[t].expires <= leases[t].created + LeaseMaxLifetime
        /\ leases[t].expires <= clock + TransferSessionTTL

(* The bodyless preflight (check_authorized_transfer_availability) decides   *)
(* on the raw tables what a begin at the same instant decides after its      *)
(* cleanup: expired and orphaned rows that no transaction has removed yet    *)
(* never change the answer.                                                  *)
PreflightAgrees ==
    \A k \in GrantKeys :
        LET c == cleanup_transfer_state(grants, leases, clock)
        IN  check_authorized_transfer_availability(k)
              = transfer_access_state(c.grants, c.leases, k, clock)

(* The rows of a deleted share are gone, so a share that reuses the row id   *)
(* starts with all of its slots.                                             *)
DeletedShareHasNoGrants ==
    \A k \in DOMAIN grants : shares[k.share].state # "deleted"

(* The two tables stay in order between transactions: deadlines, preflight    *)
(* and the rows of deleted shares, as above.                                  *)
LeaseTablesSound ==
    /\ PendingGrantOutlivesLeases
    /\ LeaseLifetimeBounded
    /\ PreflightAgrees
    /\ DeletedShareHasNoGrants

NewlyCounted(s) ==
    {k \in Uncounted(s) : k \in DOMAIN grants' /\ grants'[k].counted}

CountsOnce(s) ==
    /\ shares'[s].download_count = shares[s].download_count
          + Cardinality(NewlyCounted(s))
    /\ audits' >= audits + Cardinality(NewlyCounted(s))

CountedOnceStep ==
    /\ \A s \in Shares :
          \/ CountsOnce(s)
          \/ shares[s].state = "deleted" /\ shares'[s].download_count = 0
    /\ \A k \in DOMAIN grants \cap DOMAIN grants' :
          grants[k].counted /\ grants[k].expires > clock => grants'[k].counted

(* A download is counted exactly when a pending grant turns counted, with    *)
(* its audit row in the same transaction; until its session expires, a       *)
(* counted grant never turns pending again, so retries, resumed ranges and   *)
(* the capped heartbeat cannot count one logical transfer twice.             *)
CountedOnce == [][CountedOnceStep]_vars

-----------------------------------------------------------------------------
(* The slots of a share: what is counted and what a pending grant reserves.   *)
Slots == INSTANCE DownloadSlots WITH
            Holders <- GrantKeys,
            Limit <- MaxDownloads,
            count <- [s \in Shares |-> shares[s].download_count],
            reserved <- [s \in Shares |-> Uncounted(s)]

(* The grant and lease transactions, with their cleanups, deadlines and stale *)
(* clocks, do nothing but reserve a slot under the limit, count a reserved    *)
(* one once or free some.                                                     *)
ImplementsSlots == Slots!Spec

=============================================================================
