------------------------ MODULE TransferLeasesProofs ------------------------
(***************************************************************************)
(* Proofs about the transfer grant and lease transactions for every set of *)
(* shares, clients, resources and lease tokens, every limit and every TTL. *)
(***************************************************************************)
EXTENDS TransferLeases, FiniteSetTheorems, TLAPS

(* A pair of tables is well formed when its rows have their types and every *)
(* lease refers to a grant row.                                             *)
Tables(gs, ls) ==
    /\ gs = Keep(gs, DOMAIN gs)
    /\ DOMAIN gs \subseteq GrantKeys
    /\ \A k \in DOMAIN gs : gs[k] \in Grant
    /\ ls = Keep(ls, DOMAIN ls)
    /\ \A t \in DOMAIN ls : ls[t] \in Lease /\ ls[t].grant \in DOMAIN gs

(* A table is a part of another when rows were only deleted. *)
Part(small, big) ==
    /\ small = Keep(small, DOMAIN small)
    /\ DOMAIN small \subseteq DOMAIN big
    /\ \A r \in DOMAIN small : small[r] = big[r]

-----------------------------------------------------------------------------
(* What the cleanup leaves: parts of both tables, with the foreign keys kept. *)
LEMMA CleanupPart ==
    ASSUME NEW gs, NEW ls, NEW now, NEW spared, Tables(gs, ls)
    PROVE  LET c == Cleanup(gs, ls, now, spared)
           IN  Part(c.grants, gs) /\ Part(c.leases, ls) /\ Tables(c.grants, c.leases)
  BY ZenonT(60) DEF Cleanup, Tables, Part, Keep

(* After cleanup_transfer_state every row is live at `now`, and every pending *)
(* grant has a live lease.                                                    *)
LEMMA CleanupLive ==
    ASSUME NEW gs, NEW ls, NEW now, Tables(gs, ls)
    PROVE  LET c == cleanup_transfer_state(gs, ls, now)
           IN  /\ \A k \in DOMAIN c.grants :
                     /\ c.grants[k].expires > now
                     /\ c.grants[k].counted \/ k \in HeldAt(c.leases, now)
               /\ \A t \in DOMAIN c.leases : c.leases[t].expires > now
  BY DEF cleanup_transfer_state, Cleanup, Tables, Keep, HeldAt, LiveLeases

(* The heartbeat's own lease survives the cleanup that spares it. *)
LEMMA CleanupSpares ==
    ASSUME NEW gs, NEW ls, NEW now, NEW t, Tables(gs, ls), t \in DOMAIN ls
    PROVE  LET c == cleanup_transfer_state_before_heartbeat(gs, ls, now, t)
           IN  t \in DOMAIN c.leases
  BY DEF cleanup_transfer_state_before_heartbeat, Cleanup, Tables, Keep

(* Deleting rows never adds a pending grant. *)
LEMMA UncountedShrinks ==
    ASSUME NEW big, NEW small, NEW s, Part(small, big), IsFiniteSet(DOMAIN big)
    PROVE  /\ IsFiniteSet(DOMAIN small)
           /\ IsFiniteSet(UncountedIn(big, s))
           /\ IsFiniteSet(UncountedIn(small, s))
           /\ Cardinality(UncountedIn(small, s)) \in Nat
           /\ Cardinality(UncountedIn(big, s)) \in Nat
           /\ Cardinality(UncountedIn(small, s)) <= Cardinality(UncountedIn(big, s))
  <1>1. UncountedIn(small, s) \subseteq UncountedIn(big, s)
        BY DEF UncountedIn, Part
  <1>2. UncountedIn(big, s) \subseteq DOMAIN big
        BY DEF UncountedIn
  <1>3. IsFiniteSet(UncountedIn(big, s)) /\ IsFiniteSet(DOMAIN small)
        BY <1>2, FS_Subset DEF Part
  <1>4. QED BY <1>1, <1>3, FS_Subset, FS_CardinalityType

-----------------------------------------------------------------------------
(***************************************************************************)
(* The inductive invariant.  `Rows` is the part about the two tables, as a *)
(* predicate of them and of the clock, so that the lemmas can speak of the *)
(* intermediate tables of a transaction.                                   *)
(***************************************************************************)
Bounded(ls, time) ==
    \A t \in DOMAIN ls :
        /\ ls[t].expires <= ls[t].created + LeaseMaxLifetime
        /\ ls[t].expires <= time + TransferSessionTTL

Outlives(gs, ls) ==
    \A t \in DOMAIN ls :
        ~gs[ls[t].grant].counted => ls[t].expires <= gs[ls[t].grant].expires

Rows(gs, ls, time) ==
    /\ Tables(gs, ls)
    /\ IsFiniteSet(DOMAIN gs)
    /\ Bounded(ls, time)
    /\ Outlives(gs, ls)

Rest ==
    /\ clock \in Nat
    /\ shares \in [Shares -> ShareRow]
    /\ unlocked \subseteq [client : Clients, share : Shares, expires : Nat]
    /\ DOMAIN leases \subseteq issued
    /\ issued \subseteq LeaseTokens
    /\ audits \in Nat

IInv ==
    /\ Rest
    /\ Rows(grants, leases, clock)
    /\ DeletedShareHasNoGrants
    /\ DownloadLimit

LEMMA IInvImplies ==
    ASSUME IInv
    PROVE  /\ TypeOK
           /\ PendingGrantOutlivesLeases
           /\ LeaseLifetimeBounded
           /\ DownloadLimit
           /\ DeletedShareHasNoGrants
  BY DEF IInv, Rest, Rows, Tables, Bounded, Outlives, TypeOK,
         PendingGrantOutlivesLeases, LeaseLifetimeBounded

LEMMA InitIInv == Init => IInv
  <1> SUFFICES ASSUME Init PROVE IInv
      OBVIOUS
  <1>1. DOMAIN grants = {} /\ DOMAIN leases = {}
        BY DEF Init
  <1>2. Rest
        BY <1>1 DEF Init, Rest, ShareRow, NewShare
  <1>3. Rows(grants, leases, clock)
        BY <1>1, FS_EmptySet DEF Rows, Tables, Bounded, Outlives, Init, Keep
  <1>4. DeletedShareHasNoGrants
        BY <1>1 DEF DeletedShareHasNoGrants
  <1>5. \A s \in Shares : Uncounted(s) = {} /\ shares[s].download_count = 0
        BY <1>1 DEF Uncounted, UncountedIn, Init, NewShare
  <1>6. DownloadLimit
    <2> SUFFICES ASSUME NEW s \in Shares, MaxDownloads[s] # Unlimited
                 PROVE  shares[s].download_count + Cardinality(Uncounted(s))
                           <= MaxDownloads[s]
        BY DEF DownloadLimit
    <2>1. Cardinality(Uncounted(s)) = 0
          BY <1>5, FS_EmptySet
    <2>2. MaxDownloads[s] \in Nat
          BY SharesAssumption
    <2>3. shares[s].download_count = 0
          BY <1>5
    <2>4. ASSUME NEW m \in Nat PROVE 0 + 0 <= m
          OBVIOUS
    <2>5. QED BY <2>1, <2>2, <2>3, <2>4
  <1>7. QED BY <1>2, <1>3, <1>4, <1>6 DEF IInv

(* Deleting rows keeps the tables in order. *)
LEMMA RowsPart ==
    ASSUME NEW gs, NEW ls, NEW gs2, NEW ls2, NEW time,
           Rows(gs, ls, time), Part(gs2, gs), Part(ls2, ls), Tables(gs2, ls2)
    PROVE  Rows(gs2, ls2, time)
  <1>1. IsFiniteSet(DOMAIN gs2)
        BY FS_Subset DEF Rows, Part
  <1>2. Bounded(ls2, time)
        BY DEF Rows, Part, Bounded
  <1>3. Outlives(gs2, ls2)
        BY DEF Rows, Part, Outlives, Tables
  <1>4. QED BY <1>1, <1>2, <1>3 DEF Rows

LEMMA PartOfPart ==
    ASSUME NEW a, NEW b, NEW c, Part(a, b), Part(b, c)
    PROVE  Part(a, c)
  BY DEF Part

(* A cleanup keeps the tables in order. *)
LEMMA RowsCleanup ==
    ASSUME NEW gs, NEW ls, NEW now, NEW spared, NEW time, Rows(gs, ls, time)
    PROVE  LET c == Cleanup(gs, ls, now, spared)
           IN  /\ Rows(c.grants, c.leases, time)
               /\ Part(c.grants, gs)
               /\ Part(c.leases, ls)
  <1> DEFINE c == Cleanup(gs, ls, now, spared)
  <1>1. Tables(gs, ls)
        BY DEF Rows
  <1>2. Part(c.grants, gs) /\ Part(c.leases, ls) /\ Tables(c.grants, c.leases)
        BY <1>1, CleanupPart
  <1>3. QED BY <1>2, RowsPart

(* So does deleting one lease. *)
LEMMA RowsDeleteLease ==
    ASSUME NEW gs, NEW ls, NEW t, NEW time, Rows(gs, ls, time)
    PROVE  /\ Rows(gs, Delete(ls, t), time)
           /\ Part(Delete(ls, t), ls)
           /\ DOMAIN Delete(ls, t) = DOMAIN ls \ {t}
  <1>1. Part(Delete(ls, t), ls) /\ DOMAIN Delete(ls, t) = DOMAIN ls \ {t}
        BY DEF Part, Delete, Keep
  <1>2. Part(gs, gs) /\ Tables(gs, Delete(ls, t))
        BY DEF Rows, Tables, Part, Delete, Keep
  <1>3. QED BY <1>1, <1>2, RowsPart

(* A new lease under a grant whose deadline covers it. *)
LEMMA RowsNewLease ==
    ASSUME NEW gs, NEW ls, NEW t, NEW k \in DOMAIN gs, NEW time \in Nat,
           Rows(gs, ls, time),
           ~gs[k].counted => time + TransferSessionTTL <= gs[k].expires
    PROVE  Rows(gs, Insert(ls, t, NewLease(k, time)), time)
  <1> DEFINE ls2 == Insert(ls, t, NewLease(k, time))
  <1>1. /\ ls2 = Keep(ls2, DOMAIN ls2)
        /\ DOMAIN ls2 = DOMAIN ls \cup {t}
        /\ ls2[t] = NewLease(k, time)
        /\ \A u \in DOMAIN ls2 : u # t => u \in DOMAIN ls /\ ls2[u] = ls[u]
        BY DEF Insert, Keep
  <1>2. /\ NewLease(k, time) \in Lease
        /\ NewLease(k, time).grant = k
        /\ NewLease(k, time).created = time
        /\ NewLease(k, time).expires = time + TransferSessionTTL
        BY TimeAssumption DEF NewLease, Lease, Rows, Tables
  <1> HIDE DEF ls2
  <1>3. Tables(gs, ls2)
        BY <1>1, <1>2 DEF Rows, Tables
  <1>4. Bounded(ls2, time)
        BY <1>1, <1>2, TimeAssumption DEF Rows, Bounded
  <1>5. Outlives(gs, ls2)
        BY <1>1, <1>2 DEF Rows, Outlives
  <1>6. Rows(gs, ls2, time)
        BY <1>3, <1>4, <1>5 DEF Rows
  <1>7. QED BY <1>6 DEF ls2

(* A grant row may change when its new deadline covers its leases, or when it *)
(* turns counted.                                                             *)
LEMMA RowsUpdateGrant ==
    ASSUME NEW gs, NEW ls, NEW k \in DOMAIN gs, NEW g \in Grant, NEW time,
           Rows(gs, ls, time),
           ~g.counted =>
              \A t \in DOMAIN ls : ls[t].grant = k => ls[t].expires <= g.expires
    PROVE  Rows([gs EXCEPT ![k] = g], ls, time)
  <1> DEFINE gs2 == [gs EXCEPT ![k] = g]
  <1>1. /\ gs2 = Keep(gs2, DOMAIN gs2)
        /\ DOMAIN gs2 = DOMAIN gs
        /\ gs2[k] = g
        /\ \A j \in DOMAIN gs2 : j # k => gs2[j] = gs[j]
        BY DEF Keep
  <1> HIDE DEF gs2
  <1>2. Tables(gs2, ls) /\ Bounded(ls, time) /\ IsFiniteSet(DOMAIN gs2)
        BY <1>1 DEF Rows, Tables
  <1>3. Outlives(gs2, ls)
        BY <1>1 DEF Rows, Outlives, Tables
  <1>4. Rows(gs2, ls, time)
        BY <1>2, <1>3 DEF Rows
  <1>5. QED BY <1>4 DEF gs2

(* Inserting a grant that has no row yet. *)
LEMMA RowsInsertGrant ==
    ASSUME NEW gs, NEW ls, NEW k \in GrantKeys, NEW g \in Grant, NEW time,
           Rows(gs, ls, time), k \notin DOMAIN gs
    PROVE  Rows(Insert(gs, k, g), ls, time)
  <1> DEFINE gs2 == Insert(gs, k, g)
  <1>1. /\ gs2 = Keep(gs2, DOMAIN gs2)
        /\ DOMAIN gs2 = DOMAIN gs \cup {k}
        /\ gs2[k] = g
        /\ \A j \in DOMAIN gs : gs2[j] = gs[j]
        BY DEF Insert, Keep
  <1> HIDE DEF gs2
  <1>2. IsFiniteSet(DOMAIN gs2)
        BY <1>1, FS_AddElement DEF Rows
  <1>3. Tables(gs2, ls)
        BY <1>1 DEF Rows, Tables
  <1>4. Outlives(gs2, ls)
        BY <1>1 DEF Rows, Outlives, Tables
  <1>5. Rows(gs2, ls, time)
        BY <1>2, <1>3, <1>4 DEF Rows
  <1>6. QED BY <1>5 DEF gs2

-----------------------------------------------------------------------------
(* The limit as a predicate of a grant table and the share rows. *)
Within(gs, sh) ==
    \A s \in Shares : MaxDownloads[s] # Unlimited =>
        sh[s].download_count + Cardinality(UncountedIn(gs, s)) <= MaxDownloads[s]

LEMMA WithinPart ==
    ASSUME NEW gs, NEW gs2, NEW sh \in [Shares -> ShareRow],
           Within(gs, sh), Part(gs2, gs), IsFiniteSet(DOMAIN gs)
    PROVE  Within(gs2, sh)
  <1> SUFFICES ASSUME NEW s \in Shares, MaxDownloads[s] # Unlimited
               PROVE  sh[s].download_count + Cardinality(UncountedIn(gs2, s))
                         <= MaxDownloads[s]
      BY DEF Within
  <1> DEFINE n  == sh[s].download_count
             u  == Cardinality(UncountedIn(gs, s))
             u2 == Cardinality(UncountedIn(gs2, s))
  <1>1. n \in Nat /\ MaxDownloads[s] \in Nat
        BY SharesAssumption DEF ShareRow
  <1>2. u \in Nat /\ u2 \in Nat /\ u2 <= u
        BY UncountedShrinks
  <1>3. n + u <= MaxDownloads[s]
        BY DEF Within
  <1> HIDE DEF n, u, u2
  <1>4. n + u2 <= MaxDownloads[s]
        BY <1>1, <1>2, <1>3
  <1>5. QED BY <1>4 DEF n, u2

(* Rows whose `counted` flags agree reserve the same slots. *)
LEMMA WithinSame ==
    ASSUME NEW gs, NEW gs2, NEW sh, Within(gs, sh),
           DOMAIN gs2 = DOMAIN gs,
           \A k \in DOMAIN gs : gs2[k].counted <=> gs[k].counted
    PROVE  Within(gs2, sh)
  <1>1. \A s \in Shares : UncountedIn(gs2, s) = UncountedIn(gs, s)
        BY DEF UncountedIn
  <1>2. QED BY <1>1 DEF Within

(* Counting a pending grant moves its slot from reserved to used. *)
LEMMA WithinCount ==
    ASSUME NEW gs, NEW sh \in [Shares -> ShareRow], NEW k \in DOMAIN gs,
           NEW g, k.share \in Shares, g.counted, ~gs[k].counted,
           Within(gs, sh), IsFiniteSet(DOMAIN gs)
    PROVE  Within([gs EXCEPT ![k] = g],
                  [sh EXCEPT ![k.share].download_count = @ + 1])
  <1> DEFINE gs2 == [gs EXCEPT ![k] = g]
             sh2 == [sh EXCEPT ![k.share].download_count = @ + 1]
  <1> SUFFICES ASSUME NEW s \in Shares, MaxDownloads[s] # Unlimited
               PROVE  sh2[s].download_count + Cardinality(UncountedIn(gs2, s))
                         <= MaxDownloads[s]
      BY DEF Within
  <1> DEFINE n  == sh[s].download_count
             n2 == sh2[s].download_count
             U  == UncountedIn(gs, s)
             U2 == UncountedIn(gs2, s)
  <1>1. n \in Nat /\ MaxDownloads[s] \in Nat
        BY SharesAssumption DEF ShareRow
  <1>2. U \subseteq DOMAIN gs
        BY DEF UncountedIn
  <1>3. IsFiniteSet(U) /\ Cardinality(U) \in Nat
        BY <1>2, FS_Subset, FS_CardinalityType
  <1>4. n + Cardinality(U) <= MaxDownloads[s]
        BY DEF Within
  <1>5. CASE s = k.share
    <2>1. n2 = n + 1
          BY <1>5 DEF ShareRow
    <2>2. U2 = U \ {k} /\ k \in U
          BY <1>5 DEF UncountedIn
    <2>3. Cardinality(U2) = Cardinality(U) - 1 /\ Cardinality(U2) \in Nat
          BY <1>3, <2>2, FS_RemoveElement, FS_CardinalityType, ZenonT(60)
    <2> HIDE DEF n, n2, U, U2
    <2>4. n2 + Cardinality(U2) <= MaxDownloads[s]
          BY <1>1, <1>3, <1>4, <2>1, <2>3
    <2>5. QED BY <2>4 DEF n2, U2
  <1>6. CASE s # k.share
    <2>1. n2 = n
          BY <1>6 DEF ShareRow
    <2>2. U2 = U
          BY <1>6 DEF UncountedIn
    <2>3. QED BY <1>4, <2>1, <2>2
  <1>7. QED BY <1>5, <1>6

(* A new pending grant takes a slot that the limit check found free. *)
LEMMA WithinInsert ==
    ASSUME NEW gs, NEW sh \in [Shares -> ShareRow], NEW k, NEW g,
           k.share \in Shares, k \notin DOMAIN gs, ~g.counted,
           Within(gs, sh), IsFiniteSet(DOMAIN gs),
           MaxDownloads[k.share] # Unlimited =>
              sh[k.share].download_count
                + Cardinality(UncountedIn(gs, k.share)) < MaxDownloads[k.share]
    PROVE  Within(Insert(gs, k, g), sh)
  <1> DEFINE gs2 == Insert(gs, k, g)
  <1> SUFFICES ASSUME NEW s \in Shares, MaxDownloads[s] # Unlimited
               PROVE  sh[s].download_count + Cardinality(UncountedIn(gs2, s))
                         <= MaxDownloads[s]
      BY DEF Within
  <1> DEFINE n  == sh[s].download_count
             U  == UncountedIn(gs, s)
             U2 == UncountedIn(gs2, s)
  <1>1. n \in Nat /\ MaxDownloads[s] \in Nat
        BY SharesAssumption DEF ShareRow
  <1>2. U \subseteq DOMAIN gs
        BY DEF UncountedIn
  <1>3. IsFiniteSet(U) /\ Cardinality(U) \in Nat
        BY <1>2, FS_Subset, FS_CardinalityType
  <1>4. CASE s = k.share
    <2>1. U2 = U \cup {k} /\ k \notin U
          BY <1>4 DEF UncountedIn, Insert
    <2>2. Cardinality(U2) = Cardinality(U) + 1
          BY <1>3, <2>1, FS_AddElement
    <2>3. n + Cardinality(U) < MaxDownloads[s]
          BY <1>4
    <2> HIDE DEF n, U, U2
    <2>4. n + Cardinality(U2) <= MaxDownloads[s]
          BY <1>1, <1>3, <2>2, <2>3
    <2>5. QED BY <2>4 DEF n, U2
  <1>5. CASE s # k.share
    <2>1. U2 = U
          BY <1>5 DEF UncountedIn, Insert
    <2>2. n + Cardinality(U) <= MaxDownloads[s]
          BY DEF Within
    <2>3. QED BY <2>1, <2>2
  <1>6. QED BY <1>4, <1>5

-----------------------------------------------------------------------------
(* One lemma per operation: it keeps the inductive invariant. *)

LEMMA StepBeginExisting ==
    ASSUME IInv, NEW t \in LeaseTokens, NEW k \in GrantKeys, BeginExisting(t, k)
    PROVE  IInv'
  <1> DEFINE c == cleanup_transfer_state(grants, leases, clock)
             g == [c.grants[k] EXCEPT !.expires = clock + TransferSessionTTL]
  <1>1. /\ Rows(c.grants, c.leases, clock)
        /\ Part(c.grants, grants) /\ Part(c.leases, leases)
        BY RowsCleanup DEF IInv, cleanup_transfer_state
  <1>2. /\ k \in DOMAIN c.grants
        /\ grants' = IF c.grants[k].counted THEN c.grants
                     ELSE [c.grants EXCEPT ![k].expires = clock + TransferSessionTTL]
        /\ leases' = Insert(c.leases, t, NewLease(k, clock))
        /\ issued' = issued \cup {t}
        /\ UNCHANGED <<clock, shares, unlocked, audits>>
        BY DEF BeginExisting, transfer_access_state, ExistingGrant
  <1>3. clock \in Nat /\ c.grants[k] \in Grant /\ g \in Grant
        /\ g.counted = c.grants[k].counted
        /\ g.expires = clock + TransferSessionTTL
        BY <1>1, <1>2, TimeAssumption DEF IInv, Rest, Rows, Tables, Grant
  <1> HIDE DEF c
  <1>4. Rows([c.grants EXCEPT ![k] = g], c.leases, clock)
    <2>1. \A u \in DOMAIN c.leases : c.leases[u].expires <= g.expires
          BY <1>1, <1>3 DEF Rows, Bounded
    <2>2. QED BY <1>1, <1>2, <1>3, <2>1, RowsUpdateGrant
  <1>5. Rows(grants', c.leases, clock)
        BY <1>1, <1>2, <1>4
  <1>6. /\ DOMAIN grants' = DOMAIN c.grants
        /\ \A j \in DOMAIN c.grants : grants'[j].counted <=> c.grants[j].counted
        /\ ~grants'[k].counted => grants'[k].expires = clock + TransferSessionTTL
        BY <1>2, <1>3
  <1>7. Rows(grants', leases', clock)
    <2>1. ~grants'[k].counted => clock + TransferSessionTTL <= grants'[k].expires
          BY <1>3, <1>6, TimeAssumption
    <2>2. QED BY <1>2, <1>3, <1>5, <1>6, <2>1, RowsNewLease
  <1>8. Within(grants', shares)
        BY <1>1, <1>6, WithinPart, WithinSame
        DEF IInv, Rest, Rows, DownloadLimit, Within, Uncounted
  <1>9. DOMAIN leases' \subseteq issued'
        BY <1>1, <1>2 DEF IInv, Rest, Part, Insert
  <1>10. DeletedShareHasNoGrants'
        BY <1>1, <1>2, <1>6 DEF IInv, DeletedShareHasNoGrants, Part
  <1>11. QED BY <1>2, <1>7, <1>8, <1>9, <1>10
         DEF IInv, Rest, DownloadLimit, Within, Uncounted

(* After the cleanup a free key has no row: the UNIQUE constraint holds. *)
LEMMA AvailableIsFree ==
    ASSUME NEW gs, NEW ls, NEW now, NEW k, Tables(gs, ls),
           LET c == cleanup_transfer_state(gs, ls, now)
           IN  transfer_access_state(c.grants, c.leases, k, now) = "Available"
    PROVE  LET c == cleanup_transfer_state(gs, ls, now)
           IN  /\ k \notin DOMAIN c.grants
               /\ ~LimitReached(c.grants, c.leases, k.share, now)
               /\ shares[k.share].state = "active"
  <1> DEFINE c == cleanup_transfer_state(gs, ls, now)
  <1>1. /\ ~ExistingGrant(c.grants, c.leases, k, now)
        /\ ~LimitReached(c.grants, c.leases, k.share, now)
        /\ shares[k.share].state = "active"
        BY DEF transfer_access_state, ShareAvailable
  <1>2. \A j \in DOMAIN c.grants :
           /\ c.grants[j].expires > now
           /\ c.grants[j].counted \/ j \in HeldAt(c.leases, now)
        BY CleanupLive
  <1> HIDE DEF c
  <1>3. k \notin DOMAIN c.grants
        BY <1>1, <1>2 DEF ExistingGrant
  <1>4. QED BY <1>1, <1>3 DEF c

LEMMA StepBeginNew ==
    ASSUME IInv, NEW t \in LeaseTokens, NEW k \in GrantKeys, BeginNew(t, k)
    PROVE  IInv'
  <1> DEFINE c == cleanup_transfer_state(grants, leases, clock)
             g == [counted |-> FALSE, expires |-> clock + TransferSessionTTL]
  <1>1. /\ Rows(c.grants, c.leases, clock)
        /\ Part(c.grants, grants) /\ Part(c.leases, leases)
        BY RowsCleanup DEF IInv, cleanup_transfer_state
  <1>2. /\ transfer_access_state(c.grants, c.leases, k, clock) = "Available"
        /\ grants' = Insert(c.grants, k, g)
        /\ leases' = Insert(c.leases, t, NewLease(k, clock))
        /\ issued' = issued \cup {t}
        /\ UNCHANGED <<clock, shares, unlocked, audits>>
        BY DEF BeginNew
  <1>3. /\ k \notin DOMAIN c.grants
        /\ ~LimitReached(c.grants, c.leases, k.share, clock)
        /\ shares[k.share].state = "active"
        BY <1>2, AvailableIsFree DEF IInv, Rows
  <1>4. /\ \A j \in DOMAIN c.grants :
              /\ c.grants[j].expires > clock
              /\ c.grants[j].counted \/ j \in HeldAt(c.leases, clock)
        BY CleanupLive DEF IInv, Rows
  <1>5. clock \in Nat /\ g \in Grant /\ ~g.counted /\ k.share \in Shares
        BY TimeAssumption DEF IInv, Rest, Grant, GrantKeys
  <1>6. /\ k \in DOMAIN grants'
        /\ DOMAIN grants' = DOMAIN c.grants \cup {k}
        /\ grants'[k].expires = clock + TransferSessionTTL
        BY <1>2 DEF Insert
  <1> HIDE DEF c, g
  <1>7. Rows(grants', c.leases, clock)
        BY <1>1, <1>2, <1>3, <1>5, RowsInsertGrant
  <1>8. Rows(grants', leases', clock)
    <2>1. clock + TransferSessionTTL <= grants'[k].expires
          BY <1>5, <1>6, TimeAssumption
    <2>2. QED BY <1>2, <1>5, <1>6, <1>7, <2>1, RowsNewLease
  <1>9. Within(grants', shares)
    <2>1. PendingGrants(c.grants, c.leases, k.share, clock)
             = UncountedIn(c.grants, k.share)
          BY <1>4 DEF PendingGrants, UncountedIn
    <2>2. shares \in [Shares -> ShareRow] /\ IsFiniteSet(DOMAIN c.grants)
          BY <1>1 DEF IInv, Rest, Rows
    <2>3. Cardinality(UncountedIn(c.grants, k.share)) \in Nat
          BY <1>1, <2>2, UncountedShrinks DEF IInv, Rows
    <2>4. MaxDownloads[k.share] # Unlimited =>
             shares[k.share].download_count
               + Cardinality(UncountedIn(c.grants, k.share)) < MaxDownloads[k.share]
      <3> DEFINE n == shares[k.share].download_count
                 u == Cardinality(UncountedIn(c.grants, k.share))
                 m == MaxDownloads[k.share]
      <3> SUFFICES ASSUME m # Unlimited PROVE n + u < m
          OBVIOUS
      <3>1. n \in Nat /\ m \in Nat
            BY <1>5, <2>2, SharesAssumption DEF ShareRow
      <3>2. ~(n + u >= m)
            BY <1>3, <2>1 DEF LimitReached
      <3> HIDE DEF n, u, m
      <3>3. QED BY <2>3, <3>1, <3>2 DEF u
    <2>5. Within(c.grants, shares)
          BY <1>1, <2>2, WithinPart
          DEF IInv, Rows, DownloadLimit, Within, Uncounted
    <2>6. QED BY <1>2, <1>3, <1>5, <2>2, <2>4, <2>5, WithinInsert
  <1>10. DOMAIN leases' \subseteq issued'
        BY <1>1, <1>2 DEF IInv, Rest, Part, Insert
  <1>11. DeletedShareHasNoGrants'
        BY <1>1, <1>2, <1>3, <1>6 DEF IInv, DeletedShareHasNoGrants, Part
  <1>12. QED BY <1>2, <1>8, <1>9, <1>10, <1>11
         DEF IInv, Rest, DownloadLimit, Within, Uncounted

(* A transaction that only deletes rows. *)
LEMMA StepShrink ==
    ASSUME IInv, Part(grants', grants), Part(leases', leases),
           Tables(grants', leases'),
           UNCHANGED <<clock, shares, unlocked, issued, audits>>
    PROVE  IInv'
  <1>1. Rows(grants', leases', clock)
        BY RowsPart DEF IInv
  <1>2. Within(grants', shares)
        BY WithinPart DEF IInv, Rest, Rows, DownloadLimit, Within, Uncounted
  <1>3. DOMAIN leases' \subseteq issued
        BY DEF IInv, Rest, Part
  <1>4. DeletedShareHasNoGrants'
        BY DEF IInv, DeletedShareHasNoGrants, Part
  <1>5. QED BY <1>1, <1>2, <1>3, <1>4
        DEF IInv, Rest, DownloadLimit, Within, Uncounted

LEMMA StepBeginRefused ==
    ASSUME IInv, NEW k \in GrantKeys, BeginRefused(k)
    PROVE  IInv'
  <1> DEFINE c == cleanup_transfer_state(grants, leases, clock)
  <1>1. /\ Part(c.grants, grants) /\ Part(c.leases, leases)
        /\ Tables(c.grants, c.leases)
        BY CleanupPart DEF IInv, Rows, cleanup_transfer_state
  <1>2. /\ Part(grants, grants) /\ Part(leases, leases) /\ Tables(grants, leases)
        BY DEF IInv, Rows, Tables, Part
  <1>3. /\ \/ grants' = grants /\ leases' = leases
           \/ grants' = c.grants /\ leases' = c.leases
        /\ UNCHANGED <<clock, shares, unlocked, issued, audits>>
        BY DEF BeginRefused
  <1> HIDE DEF c
  <1>4. QED BY <1>1, <1>2, <1>3, StepShrink

(* Counting a grant and deleting the lease that did it. *)
LEMMA StepCount ==
    ASSUME IInv, NEW gs, NEW ls, NEW k \in DOMAIN gs, NEW now \in Nat,
           Rows(gs, ls, clock), Part(gs, grants), Part(ls, leases),
           ~gs[k].counted,
           Part(grants', CountGrant(gs, k, now)), Part(leases', ls),
           Tables(grants', leases'),
           shares' = CountShare(k), audits' = audits + 1,
           UNCHANGED <<clock, unlocked, issued>>
    PROVE  IInv'
  <1> DEFINE g   == [counted |-> TRUE, expires |-> now + TransferSessionTTL]
             gs2 == CountGrant(gs, k, now)
  <1>1. g \in Grant /\ g.counted
        BY TimeAssumption DEF Grant
  <1>2. gs2 = [gs EXCEPT ![k] = g]
        BY DEF CountGrant
  <1>3. k.share \in Shares /\ shares \in [Shares -> ShareRow]
        BY DEF Rows, Tables, GrantKeys, IInv, Rest
  <1> HIDE DEF g, gs2
  <1>4. Rows(gs2, ls, clock)
        BY <1>1, <1>2, RowsUpdateGrant
  <1>5. Rows(grants', leases', clock)
        BY <1>4, RowsPart DEF gs2
  <1>6. Within(gs, shares) /\ IsFiniteSet(DOMAIN gs) /\ IsFiniteSet(DOMAIN gs2)
        BY <1>3, <1>4, WithinPart DEF IInv, Rows, DownloadLimit, Within, Uncounted
  <1>7. Within(gs2, shares')
        BY <1>1, <1>2, <1>3, <1>6, WithinCount DEF CountShare
  <1>8. /\ shares' \in [Shares -> ShareRow]
        /\ \A s \in Shares : shares'[s].state = shares[s].state
        BY <1>3 DEF CountShare, ShareRow
  <1>9. Within(grants', shares')
        BY <1>6, <1>7, <1>8, WithinPart DEF gs2
  <1>10. DOMAIN leases' \subseteq issued
        BY DEF IInv, Rest, Part
  <1>11. DOMAIN grants' \subseteq DOMAIN grants /\ DOMAIN grants \subseteq GrantKeys
        BY <1>2 DEF Part, gs2, IInv, Rows, Tables
  <1>12. DeletedShareHasNoGrants'
        BY <1>8, <1>11 DEF IInv, DeletedShareHasNoGrants, GrantKeys
  <1>13. QED BY <1>5, <1>8, <1>9, <1>10, <1>12
         DEF IInv, Rest, DownloadLimit, Within, Uncounted

LEMMA StepComplete ==
    ASSUME IInv, NEW t \in LeaseTokens, NEW now \in Nat,
           complete_transfer_lease(t, now)
    PROVE  IInv'
  <1> DEFINE c == cleanup_transfer_state(grants, leases, now)
             k == c.leases[t].grant
             ls == Delete(c.leases, t)
  <1>1. /\ Rows(c.grants, c.leases, clock)
        /\ Part(c.grants, grants) /\ Part(c.leases, leases)
        BY RowsCleanup DEF IInv, cleanup_transfer_state
  <1>2. UNCHANGED <<clock, unlocked, issued>>
        BY DEF complete_transfer_lease
  <1>3. \/ /\ grants' = c.grants /\ leases' = c.leases
           /\ UNCHANGED <<shares, audits>>
        \/ /\ grants' = c.grants /\ leases' = ls
           /\ UNCHANGED <<shares, audits>>
        \/ /\ t \in DOMAIN c.leases /\ ~c.grants[k].counted
           /\ grants' = CountGrant(c.grants, k, now) /\ leases' = ls
           /\ shares' = CountShare(k) /\ audits' = audits + 1
        BY DEF complete_transfer_lease
  <1> HIDE DEF c
  <1>4. Rows(c.grants, ls, clock) /\ Part(ls, c.leases)
        BY <1>1, RowsDeleteLease
  <1>5. Part(ls, leases)
        BY <1>1, <1>4, PartOfPart
  <1>6. CASE grants' = c.grants /\ leases' \in {c.leases, ls} /\ UNCHANGED <<shares, audits>>
        BY <1>1, <1>2, <1>4, <1>5, <1>6, StepShrink DEF Rows
  <1>7. CASE /\ t \in DOMAIN c.leases /\ ~c.grants[k].counted
             /\ grants' = CountGrant(c.grants, k, now) /\ leases' = ls
             /\ shares' = CountShare(k) /\ audits' = audits + 1
    <2>1. k \in DOMAIN c.grants
          BY <1>1, <1>7 DEF Rows, Tables
    <2>2. Part(ls, ls)
          BY <1>4 DEF Part
    <2> DEFINE g == [counted |-> TRUE, expires |-> now + TransferSessionTTL]
    <2> HIDE DEF k, ls
    <2>3. /\ CountGrant(c.grants, k, now) = [c.grants EXCEPT ![k] = g]
          /\ g \in Grant /\ g.counted
          BY TimeAssumption DEF CountGrant, Grant
    <2> HIDE DEF g
    <2>4. Rows(CountGrant(c.grants, k, now), ls, clock)
          BY <1>4, <2>1, <2>3, RowsUpdateGrant
    <2>5. /\ Part(CountGrant(c.grants, k, now), CountGrant(c.grants, k, now))
          /\ Tables(CountGrant(c.grants, k, now), ls)
          BY <2>4 DEF Rows, Tables, Part
    <2>6. QED BY <1>1, <1>2, <1>4, <1>5, <1>7, <2>1, <2>2, <2>5, StepCount
  <1>8. QED BY <1>3, <1>6, <1>7

LEMMA StepCancel ==
    ASSUME IInv, NEW t \in LeaseTokens, NEW now \in Nat,
           cancel_transfer_lease(t, now)
    PROVE  IInv'
  <1> DEFINE c    == cleanup_transfer_state(grants, leases, now)
             k    == c.leases[t].grant
             rest == Delete(c.leases, t)
  <1>1. /\ Rows(c.grants, c.leases, clock)
        /\ Part(c.grants, grants) /\ Part(c.leases, leases)
        BY RowsCleanup DEF IInv, cleanup_transfer_state
  <1>2. /\ UNCHANGED <<clock, shares, unlocked, issued, audits>>
        /\ \/ grants' = c.grants /\ leases' = c.leases
           \/ grants' = c.grants /\ leases' = rest
           \/ /\ grants' = Delete(c.grants, k) /\ leases' = rest
              /\ \A u \in DOMAIN rest : rest[u].grant # k
        BY DEF cancel_transfer_lease
  <1> HIDE DEF c
  <1>3. Rows(c.grants, rest, clock) /\ Part(rest, c.leases)
        BY <1>1, RowsDeleteLease
  <1>4. Part(rest, leases)
        BY <1>1, <1>3, PartOfPart
  <1> HIDE DEF k, rest
  <1>5. CASE \A u \in DOMAIN rest : rest[u].grant # k
    <2>1. /\ Part(Delete(c.grants, k), c.grants)
          /\ Tables(Delete(c.grants, k), rest)
          BY <1>3, <1>5 DEF Rows, Tables, Part, Delete, Keep
    <2>2. Part(Delete(c.grants, k), grants)
          BY <1>1, <2>1, PartOfPart
    <2>3. QED BY <1>1, <1>2, <1>3, <1>4, <2>1, <2>2, StepShrink DEF Rows
  <1>6. CASE grants' = c.grants
        BY <1>1, <1>2, <1>3, <1>4, <1>6, StepShrink DEF Rows
  <1>7. QED BY <1>2, <1>5, <1>6

LEMMA StepHeartbeatGone ==
    ASSUME IInv, NEW t \in LeaseTokens, NEW now \in Nat,
           HeartbeatGone(t, now), UNCHANGED <<clock, unlocked, issued>>
    PROVE  IInv'
  <1> DEFINE c == cleanup_transfer_state_before_heartbeat(grants, leases, now, t)
             d == cleanup_transfer_state(c.grants, c.leases, now)
  <1>1. /\ Part(c.grants, grants) /\ Part(c.leases, leases)
        /\ Tables(c.grants, c.leases)
        BY CleanupPart DEF IInv, Rows, cleanup_transfer_state_before_heartbeat
  <1>2. /\ grants' = d.grants /\ leases' = d.leases
        /\ UNCHANGED <<shares, audits>>
        BY DEF HeartbeatGone
  <1> HIDE DEF c
  <1>3. /\ Part(d.grants, c.grants) /\ Part(d.leases, c.leases)
        /\ Tables(d.grants, d.leases)
        BY <1>1, CleanupPart DEF cleanup_transfer_state
  <1> HIDE DEF d
  <1>4. Part(d.grants, grants) /\ Part(d.leases, leases)
        BY <1>1, <1>3, PartOfPart
  <1>5. QED BY <1>2, <1>3, <1>4, StepShrink

LEMMA StepHeartbeatCapped ==
    ASSUME IInv, NEW t \in LeaseTokens, NEW now \in Nat,
           HeartbeatCapped(t, now), UNCHANGED <<clock, unlocked, issued>>
    PROVE  IInv'
  <1> DEFINE c  == cleanup_transfer_state_before_heartbeat(grants, leases, now, t)
             k  == c.leases[t].grant
             gs == IF ~c.grants[k].counted THEN CountGrant(c.grants, k, now)
                                           ELSE c.grants
             ls == Delete(c.leases, t)
             d  == cleanup_transfer_state(gs, ls, now)
             g  == [counted |-> TRUE, expires |-> now + TransferSessionTTL]
  <1>1. /\ Rows(c.grants, c.leases, clock)
        /\ Part(c.grants, grants) /\ Part(c.leases, leases)
        BY RowsCleanup DEF IInv, cleanup_transfer_state_before_heartbeat
  <1>2. /\ t \in DOMAIN c.leases
        /\ grants' = d.grants /\ leases' = d.leases
        /\ IF ~c.grants[k].counted THEN shares' = CountShare(k) /\ audits' = audits + 1
                                   ELSE UNCHANGED <<shares, audits>>
        BY DEF HeartbeatCapped
  <1> HIDE DEF c
  <1>3. k \in DOMAIN c.grants
        BY <1>1, <1>2 DEF Rows, Tables
  <1>4. Rows(c.grants, ls, clock) /\ Part(ls, c.leases)
        BY <1>1, RowsDeleteLease
  <1> HIDE DEF k, ls
  <1>5. /\ CountGrant(c.grants, k, now) = [c.grants EXCEPT ![k] = g]
        /\ g \in Grant /\ g.counted
    <2>1. now + TransferSessionTTL \in Nat
          BY TimeAssumption
    <2>2. g \in Grant /\ g.counted
          BY <2>1 DEF Grant
    <2>3. QED BY <2>2, Zenon DEF CountGrant
  <1> HIDE DEF g
  <1>6. Rows(CountGrant(c.grants, k, now), ls, clock)
        BY <1>3, <1>4, <1>5, RowsUpdateGrant
  <1>7. Tables(gs, ls)
        BY <1>4, <1>6 DEF Rows
  <1> HIDE DEF gs
  <1>8. Part(d.grants, gs) /\ Part(d.leases, ls) /\ Tables(d.grants, d.leases)
        BY <1>7, CleanupPart DEF cleanup_transfer_state
  <1>9. Part(ls, leases)
        BY <1>1, <1>4, PartOfPart
  <1> HIDE DEF d
  <1>10. CASE c.grants[k].counted
    <2>1. gs = c.grants
          BY <1>10 DEF gs
    <2>2. Part(grants', grants) /\ Part(leases', leases) /\ Tables(grants', leases')
          BY <1>1, <1>2, <1>8, <1>9, <2>1, PartOfPart
    <2>3. QED BY <1>2, <1>10, <2>2, StepShrink
  <1>11. CASE ~c.grants[k].counted
    <2>1. gs = CountGrant(c.grants, k, now)
          BY <1>11 DEF gs
    <2>2. /\ Part(grants', CountGrant(c.grants, k, now)) /\ Part(leases', ls)
          /\ Tables(grants', leases')
          BY <1>2, <1>8, <2>1
    <2>3. QED BY <1>1, <1>2, <1>3, <1>4, <1>9, <1>11, <2>2, StepCount
  <1>12. QED BY <1>10, <1>11

LEMMA StepHeartbeatExtended ==
    ASSUME IInv, NEW t \in LeaseTokens, NEW now \in Nat, now <= clock,
           HeartbeatExtended(t, now), UNCHANGED <<clock, unlocked, issued>>
    PROVE  IInv'
  <1> DEFINE c == cleanup_transfer_state_before_heartbeat(grants, leases, now, t)
             k == c.leases[t].grant
             e == ExtendedExpiry(c.leases[t], now)
             ls2 == [c.leases EXCEPT ![t].expires = e]
  <1>1. /\ Rows(c.grants, c.leases, clock)
        /\ Part(c.grants, grants) /\ Part(c.leases, leases)
        BY RowsCleanup DEF IInv, cleanup_transfer_state_before_heartbeat
  <1>2. /\ t \in DOMAIN c.leases
        /\ leases' = ls2
        /\ UNCHANGED <<shares, audits>>
        /\ \/ c.grants[k].counted /\ grants' = c.grants
           \/ \E u \in DOMAIN c.leases :
                /\ IsLastExpiry(ls2[u].expires, ls2, k)
                /\ grants' = [c.grants EXCEPT ![k].expires = ls2[u].expires]
        BY DEF HeartbeatExtended
  <1>3. c.leases[t] \in Lease /\ k \in DOMAIN c.grants /\ clock \in Nat
        BY <1>1, <1>2 DEF Rows, Tables, IInv, Rest
  <1> HIDE DEF c
  <1>4. /\ e \in Nat
        /\ e <= c.leases[t].created + LeaseMaxLifetime
        /\ e <= clock + TransferSessionTTL
        BY <1>3, TimeAssumption DEF ExtendedExpiry, Lease
  <1> HIDE DEF e
  <1>5. /\ ls2 = Keep(ls2, DOMAIN ls2)
        /\ DOMAIN ls2 = DOMAIN c.leases
        /\ ls2[t] \in Lease /\ ls2[t].grant = k
        /\ ls2[t].created = c.leases[t].created /\ ls2[t].expires = e
        /\ \A u \in DOMAIN ls2 : u # t => ls2[u] = c.leases[u]
        BY <1>2, <1>3, <1>4 DEF Keep, Lease
  <1> HIDE DEF ls2
  <1>6. Tables(c.grants, ls2) /\ Bounded(ls2, clock)
        BY <1>1, <1>3, <1>4, <1>5 DEF Rows, Tables, Bounded
  <1>7. /\ Rows(grants', ls2, clock)
        /\ DOMAIN grants' = DOMAIN c.grants
        /\ \A j \in DOMAIN c.grants : grants'[j].counted <=> c.grants[j].counted
    <2>1. CASE c.grants[k].counted /\ grants' = c.grants
      <3>1. Outlives(c.grants, ls2)
            BY <1>1, <1>5, <2>1 DEF Rows, Outlives
      <3>2. QED BY <1>1, <1>6, <2>1, <3>1 DEF Rows
    <2>2. ASSUME NEW u \in DOMAIN c.leases,
                 IsLastExpiry(ls2[u].expires, ls2, k),
                 grants' = [c.grants EXCEPT ![k].expires = ls2[u].expires]
          PROVE  /\ Rows(grants', ls2, clock)
                 /\ DOMAIN grants' = DOMAIN c.grants
                 /\ \A j \in DOMAIN c.grants :
                       grants'[j].counted <=> c.grants[j].counted
      <3> DEFINE m == ls2[u].expires
      <3>1. m \in Nat
            BY <1>5, <1>6 DEF Tables, Lease
      <3>2. \A v \in DOMAIN ls2 : ls2[v].grant = k => ls2[v].expires <= m
            BY <2>2 DEF IsLastExpiry
      <3> HIDE DEF m
      <3>3. c.grants[k] \in Grant
            BY <1>1, <1>3 DEF Rows, Tables
      <3>4. /\ grants' = Keep(grants', DOMAIN grants')
            /\ DOMAIN grants' = DOMAIN c.grants
            /\ grants'[k] \in Grant
            /\ grants'[k].expires = m
            /\ grants'[k].counted <=> c.grants[k].counted
            /\ \A j \in DOMAIN c.grants : j # k => grants'[j] = c.grants[j]
            BY <1>3, <2>2, <3>1, <3>3 DEF Keep, Grant, m
      <3>5. Tables(grants', ls2) /\ IsFiniteSet(DOMAIN grants')
            BY <1>1, <1>6, <3>4 DEF Tables, Rows
      <3>6. Outlives(grants', ls2)
            BY <1>1, <1>5, <3>2, <3>4, <3>5, ZenonT(60) DEF Rows, Outlives, Tables
      <3>7. QED BY <1>6, <3>4, <3>5, <3>6 DEF Rows
    <2>3. QED BY <1>2, <2>1, <2>2
  <1>8. Within(grants', shares)
        BY <1>1, <1>7, WithinPart, WithinSame
        DEF IInv, Rest, Rows, DownloadLimit, Within, Uncounted
  <1>9. DOMAIN leases' \subseteq issued
        BY <1>1, <1>2, <1>5 DEF IInv, Rest, Part
  <1>10. DeletedShareHasNoGrants'
        BY <1>1, <1>2, <1>7 DEF IInv, DeletedShareHasNoGrants, Part
  <1>11. QED BY <1>2, <1>7, <1>8, <1>9, <1>10
         DEF IInv, Rest, DownloadLimit, Within, Uncounted

LEMMA StepShares ==
    ASSUME IInv, NEW s \in Shares,
           \/ set_share_active(s) \/ set_share_password(s)
           \/ delete_share(s) \/ create_share(s)
    PROVE  IInv'
  <1>0. /\ shares \in [Shares -> ShareRow] /\ Rows(grants, leases, clock)
        /\ Within(grants, shares) /\ IsFiniteSet(DOMAIN grants)
        BY DEF IInv, Rest, Rows, DownloadLimit, Within, Uncounted
  <1>1. CASE set_share_active(s) \/ set_share_password(s)
    <2>1. /\ shares' \in [Shares -> ShareRow]
          /\ \A r \in Shares : shares'[r].download_count = shares[r].download_count
          /\ \A r \in Shares : shares[r].state # "deleted" => shares'[r].state # "deleted"
          /\ UNCHANGED <<clock, grants, leases, issued, audits>>
          /\ unlocked' \subseteq unlocked
          BY <1>0, <1>1 DEF set_share_active, set_share_password, ShareRow
    <2>2. Within(grants, shares')
          BY <1>0, <2>1 DEF Within
    <2>3. DeletedShareHasNoGrants'
          BY <1>0, <2>1 DEF IInv, DeletedShareHasNoGrants, Rows, Tables, GrantKeys
    <2>4. QED BY <1>0, <2>1, <2>2, <2>3
          DEF IInv, Rest, DownloadLimit, Within, Uncounted
  <1>2. CASE delete_share(s)
    <2>1. /\ shares' \in [Shares -> ShareRow]
          /\ \A r \in Shares : shares'[r].download_count = shares[r].download_count
          /\ \A r \in Shares : r # s => shares'[r] = shares[r]
          /\ UNCHANGED <<clock, issued, audits>>
          /\ unlocked' \subseteq unlocked
          BY <1>0, <1>2 DEF delete_share, ShareRow
    <2>2. /\ Part(grants', grants) /\ Part(leases', leases)
          /\ \A k \in DOMAIN grants' : k.share # s
          BY <1>2 DEF delete_share, Part, Keep
    <2>3. Tables(grants', leases')
          BY <1>0, <1>2 DEF Rows, Tables, delete_share, Keep
    <2>4. Rows(grants', leases', clock)
          BY <1>0, <2>2, <2>3, RowsPart
    <2>5. Within(grants', shares)
          BY <1>0, <2>2, WithinPart
    <2>6. Within(grants', shares')
          BY <2>1, <2>5 DEF Within
    <2>7. DeletedShareHasNoGrants'
          BY <1>0, <2>1, <2>2
          DEF IInv, DeletedShareHasNoGrants, Part, Rows, Tables, GrantKeys
    <2>8. DOMAIN leases' \subseteq issued
          BY <2>2 DEF IInv, Rest, Part
    <2>9. QED BY <2>1, <2>4, <2>6, <2>7, <2>8
          DEF IInv, Rest, DownloadLimit, Within, Uncounted
  <1>3. CASE create_share(s)
    <2>1. /\ shares' \in [Shares -> ShareRow]
          /\ shares'[s].download_count = 0
          /\ shares'[s].state = "active"
          /\ \A r \in Shares : r # s => shares'[r] = shares[r]
          /\ UNCHANGED <<clock, unlocked, grants, leases, issued, audits>>
          BY <1>0, <1>3 DEF create_share, NewShare, ShareRow
    <2>2. UncountedIn(grants, s) = {}
          BY <1>3 DEF create_share, UncountedIn, IInv, DeletedShareHasNoGrants
    <2>3. Within(grants, shares')
      <3> SUFFICES ASSUME NEW r \in Shares, MaxDownloads[r] # Unlimited
                   PROVE  shares'[r].download_count
                            + Cardinality(UncountedIn(grants, r)) <= MaxDownloads[r]
          BY DEF Within
      <3>1. CASE r = s
        <4>1. Cardinality(UncountedIn(grants, r)) = 0 /\ shares'[r].download_count = 0
              BY <2>1, <2>2, <3>1, FS_EmptySet
        <4>2. ASSUME NEW m \in Nat PROVE 0 + 0 <= m
              OBVIOUS
        <4>3. MaxDownloads[r] \in Nat
              BY SharesAssumption
        <4>4. QED BY <4>1, <4>2, <4>3
      <3>2. CASE r # s
            BY <1>0, <2>1, <3>2 DEF Within
      <3>3. QED BY <3>1, <3>2
    <2>4. DeletedShareHasNoGrants'
          BY <1>0, <2>1 DEF IInv, DeletedShareHasNoGrants, Rows, Tables, GrantKeys
    <2>5. QED BY <1>0, <2>1, <2>3, <2>4
          DEF IInv, Rest, DownloadLimit, Within, Uncounted
  <1>4. QED BY <1>1, <1>2, <1>3

(* Later deadlines, in arithmetic alone. *)
LEMMA LaterDeadline ==
    ASSUME NEW a \in Nat, NEW b \in Nat, a <= b, NEW d \in Nat
    PROVE  a + d \in Nat /\ b + d \in Nat /\ a + d <= b + d
  OBVIOUS

(* Time and unlock sessions leave the tables alone. *)
LEMMA StepOther ==
    ASSUME IInv, UNCHANGED <<shares, grants, leases, issued, audits>>,
           clock' \in Nat, clock <= clock',
           unlocked' \subseteq [client : Clients, share : Shares, expires : Nat]
    PROVE  IInv'
  <1>1. Bounded(leases, clock')
    <2>1. \A t \in DOMAIN leases : leases[t].expires \in Nat
          BY DEF IInv, Rows, Tables, Lease
    <2>2. Bounded(leases, clock) /\ clock \in Nat
          BY DEF IInv, Rest, Rows
    <2>3. /\ clock + TransferSessionTTL \in Nat
          /\ clock' + TransferSessionTTL \in Nat
          /\ clock + TransferSessionTTL <= clock' + TransferSessionTTL
          BY ONLY <2>2, clock' \in Nat, clock <= clock', TimeAssumption, LaterDeadline
    <2>4. QED BY <2>1, <2>2, <2>3 DEF Bounded
  <1>2. Rows(grants', leases', clock')
        BY <1>1 DEF IInv, Rows
  <1>3. Rest'
        BY DEF IInv, Rest
  <1>4. DeletedShareHasNoGrants' /\ DownloadLimit'
        BY DEF IInv, DownloadLimit, Uncounted, DeletedShareHasNoGrants
  <1>5. QED BY <1>2, <1>3, <1>4 DEF IInv

LEMMA CallTimesAreInstants ==
    ASSUME IInv, NEW t, NEW now \in CallTimes(t)
    PROVE  now \in Nat /\ now <= clock
  <1>1. clock \in Nat /\ (t \in DOMAIN leases => leases[t].created \in Nat)
        BY DEF IInv, Rest, Rows, Tables, Lease
  <1>2. QED BY <1>1 DEF CallTimes

LEMMA NextIInv == IInv /\ [Next]_vars => IInv'
  <1> SUFFICES ASSUME IInv, [Next]_vars PROVE IInv'
      OBVIOUS
  <1>0. /\ clock \in Nat
        /\ unlocked \subseteq [client : Clients, share : Shares, expires : Nat]
        BY DEF IInv, Rest
  <1>1. CASE begin_authorized_transfer_lease
        BY <1>1, StepBeginRefused, StepBeginExisting, StepBeginNew
        DEF begin_authorized_transfer_lease
  <1>2. ASSUME NEW t \in LeaseTokens, NEW now \in CallTimes(t),
               \/ complete_transfer_lease(t, now)
               \/ cancel_transfer_lease(t, now)
               \/ heartbeat_transfer_lease(t, now)
        PROVE  IInv'
    <2>1. now \in Nat /\ now <= clock
          BY CallTimesAreInstants
    <2>2. QED BY <1>2, <2>1, StepComplete, StepCancel, StepHeartbeatGone,
                 StepHeartbeatCapped, StepHeartbeatExtended
              DEF heartbeat_transfer_lease
  <1>3. ASSUME NEW s \in Shares,
               \/ set_share_active(s) \/ set_share_password(s)
               \/ delete_share(s) \/ create_share(s)
        PROVE  IInv'
        BY <1>3, StepShares
  <1>4. ASSUME NEW s \in Shares,
               \E c \in Clients : create_unlock_session(c, s)
        PROVE  IInv'
    <2>1. unlocked' \subseteq [client : Clients, share : Shares, expires : Nat]
          BY <1>0, <1>4, TimeAssumption DEF create_unlock_session
    <2>2. QED BY <1>0, <1>4, <2>1, StepOther DEF create_unlock_session
  <1>5. CASE Tick
        BY <1>0, <1>5, StepOther DEF Tick
  <1>6. CASE UNCHANGED vars
        BY <1>0, <1>6, StepOther DEF vars
  <1>7. QED BY <1>1, <1>2, <1>3, <1>4, <1>5, <1>6 DEF Next

-----------------------------------------------------------------------------
(* The inductive invariant holds in every behaviour. *)
THEOREM Inductive == Spec => []IInv
  BY InitIInv, NextIInv, PTL DEF Spec

(* Type correctness and whole foreign keys, for all constants. *)
THEOREM TypeCorrect == Spec => []TypeOK
  BY Inductive, IInvImplies, PTL

(* Counted downloads and reserved slots never exceed max_downloads. *)
THEOREM DownloadLimitHolds == Spec => []DownloadLimit
  BY Inductive, IInvImplies, PTL

(* A pending grant outlives every lease under it. *)
THEOREM PendingGrantsOutlive == Spec => []PendingGrantOutlivesLeases
  BY Inductive, IInvImplies, PTL

(* Heartbeats respect the rolling and the absolute deadline. *)
THEOREM LifetimesBounded == Spec => []LeaseLifetimeBounded
  BY Inductive, IInvImplies, PTL

-----------------------------------------------------------------------------
(* A cleanup keeps every row that is live at its instant and still matters. *)
LEMMA CleanupKeeps ==
    ASSUME NEW gs, NEW ls, NEW now, Tables(gs, ls)
    PROVE  LET c == cleanup_transfer_state(gs, ls, now)
           IN  /\ \A k \in DOMAIN gs :
                     gs[k].expires > now /\ (gs[k].counted \/ k \in HeldAt(ls, now))
                       => k \in DOMAIN c.grants
               /\ \A k \in DOMAIN gs :
                     gs[k].expires > now /\ k \in HeldAt(ls, now)
                       => k \in HeldAt(c.leases, now)
  BY DEF cleanup_transfer_state, Cleanup, Tables, Keep, HeldAt, LiveLeases

LEMMA PreflightStep ==
    ASSUME NEW k \in GrantKeys, NEW gs, NEW ls, NEW now, Tables(gs, ls)
    PROVE  LET c == cleanup_transfer_state(gs, ls, now)
           IN  transfer_access_state(gs, ls, k, now)
                 = transfer_access_state(c.grants, c.leases, k, now)
  <1> DEFINE c == cleanup_transfer_state(gs, ls, now)
  <1>1. Part(c.grants, gs) /\ Part(c.leases, ls)
        BY CleanupPart DEF cleanup_transfer_state
  <1>2. /\ \A j \in DOMAIN gs :
              gs[j].expires > now /\ (gs[j].counted \/ j \in HeldAt(ls, now))
                => j \in DOMAIN c.grants
        /\ \A j \in DOMAIN gs :
              gs[j].expires > now /\ j \in HeldAt(ls, now)
                => j \in HeldAt(c.leases, now)
        BY CleanupKeeps
  <1> HIDE DEF c
  <1>3. \A j : j \in HeldAt(c.leases, now) => j \in HeldAt(ls, now)
        BY <1>1 DEF Part, HeldAt, LiveLeases
  <1>4. ExistingGrant(gs, ls, k, now) <=> ExistingGrant(c.grants, c.leases, k, now)
        BY <1>1, <1>2, <1>3 DEF ExistingGrant, Part
  <1>5. PendingGrants(gs, ls, k.share, now)
           = PendingGrants(c.grants, c.leases, k.share, now)
        BY <1>1, <1>2, <1>3 DEF PendingGrants, Part
  <1>6. LimitReached(gs, ls, k.share, now)
           <=> LimitReached(c.grants, c.leases, k.share, now)
        BY <1>5 DEF LimitReached
  <1>7. transfer_access_state(gs, ls, k, now)
           = transfer_access_state(c.grants, c.leases, k, now)
        BY <1>4, <1>6 DEF transfer_access_state
  <1>8. QED BY <1>7 DEF c

LEMMA PreflightFromIInv == IInv => PreflightAgrees
  BY PreflightStep
  DEF IInv, Rows, PreflightAgrees, check_authorized_transfer_availability

(* Deleting a share leaves no grant behind: its row id may be reused. *)
THEOREM DeletedSharesEmpty == Spec => []DeletedShareHasNoGrants
  BY Inductive, IInvImplies, PTL

(* The preflight answers what a begin at the same instant would decide. *)
THEOREM PreflightHolds == Spec => []PreflightAgrees
  BY Inductive, PreflightFromIInv, PTL

(* Both tables of begin, heartbeat, complete and delete stay in order, for any *)
(* number of shares, clients and requests.                                     *)
THEOREM LeaseTablesHold == Spec => []LeaseTablesSound
  <1>1. IInv => LeaseTablesSound
      BY IInvImplies, PreflightFromIInv DEF LeaseTablesSound
  <1> QED BY <1>1, Inductive, PTL

-----------------------------------------------------------------------------
(* Steps that count nothing. *)
LEMMA CountsNone ==
    ASSUME IInv, audits' = audits,
           \A s \in Shares : shares'[s].download_count = shares[s].download_count,
           \A k \in DOMAIN grants \cap DOMAIN grants' :
              grants'[k].counted => grants[k].counted
    PROVE  \A s \in Shares : CountsOnce(s)
  <1> SUFFICES ASSUME NEW s \in Shares PROVE CountsOnce(s)
      OBVIOUS
  <1>1. NewlyCounted(s) = {}
        BY DEF NewlyCounted, Uncounted, UncountedIn
  <1>2. Cardinality(NewlyCounted(s)) = 0
        BY <1>1, FS_EmptySet
  <1>3. shares[s].download_count \in Nat /\ audits \in Nat
        BY DEF IInv, Rest, ShareRow
  <1>4. \A n \in Nat : n = n + 0 /\ n >= n + 0
        OBVIOUS
  <1>5. QED BY <1>2, <1>3, <1>4 DEF CountsOnce

(* A step that turns exactly the grant k counted. *)
LEMMA CountsOne ==
    ASSUME IInv, NEW k \in DOMAIN grants, ~grants[k].counted,
           k \in DOMAIN grants', grants'[k].counted,
           \A j \in DOMAIN grants \cap DOMAIN grants' :
              j # k => (grants'[j].counted => grants[j].counted),
           audits' = audits + 1, shares' = CountShare(k)
    PROVE  \A s \in Shares : CountsOnce(s)
  <1> SUFFICES ASSUME NEW s \in Shares PROVE CountsOnce(s)
      OBVIOUS
  <1>1. shares \in [Shares -> ShareRow] /\ audits \in Nat
        BY DEF IInv, Rest
  <1>2. shares[s].download_count \in Nat
        BY <1>1 DEF ShareRow
  <1>3. CASE s = k.share
    <2>1. NewlyCounted(s) = {k}
          BY <1>3 DEF NewlyCounted, Uncounted, UncountedIn
    <2>2. Cardinality(NewlyCounted(s)) = 1
          BY <2>1, FS_Singleton
    <2>3. shares'[s].download_count = shares[s].download_count + 1
          BY <1>1, <1>3 DEF CountShare, ShareRow
    <2>4. \A n \in Nat : n + 1 >= n + 1
          OBVIOUS
    <2>5. QED BY <1>1, <2>2, <2>3, <2>4 DEF CountsOnce
  <1>4. CASE s # k.share
    <2>1. NewlyCounted(s) = {}
          BY <1>4 DEF NewlyCounted, Uncounted, UncountedIn
    <2>2. Cardinality(NewlyCounted(s)) = 0
          BY <2>1, FS_EmptySet
    <2>3. shares'[s].download_count = shares[s].download_count
          BY <1>1, <1>4 DEF CountShare, ShareRow
    <2>4. \A n \in Nat : n = n + 0 /\ n + 1 >= n + 0
          OBVIOUS
    <2>5. QED BY <1>1, <1>2, <2>2, <2>3, <2>4 DEF CountsOnce
  <1>5. QED BY <1>3, <1>4

(* Rows that are only deleted or moved in time stay counted or pending. *)
SameFlags(small, big) ==
    /\ DOMAIN small \subseteq DOMAIN big
    /\ \A k \in DOMAIN small : small[k].counted <=> big[k].counted

(* What a step does to the slots of the shares, in terms of the tables. *)
FreesIn(some) == \A q \in some : UncountedIn(grants', q) \subseteq Uncounted(q)

SlotStep ==
    \/ /\ FreesIn(Shares)
       /\ \A q \in Shares : shares'[q].download_count = shares[q].download_count
    \/ \E s \in Shares, k \in GrantKeys :
          /\ FreesIn(Shares \ {s})
          /\ k \in UncountedIn(grants', s)
          /\ UncountedIn(grants', s) \subseteq Uncounted(s) \cup {k}
          /\ shares' = shares
    \/ \E s \in Shares, k \in GrantKeys :
          /\ FreesIn(Shares)
          /\ k \in Uncounted(s) /\ k \notin UncountedIn(grants', s)
          /\ shares' = [shares EXCEPT ![s].download_count = @ + 1]
    \/ \E s \in Shares :
          /\ Uncounted(s) = {}
          /\ grants' = grants
          /\ \E row : shares' = [shares EXCEPT ![s] = row] /\ row.download_count = 0

Accounted == CountedOnceStep /\ SlotStep

LEMMA CountedOnceSameFlags ==
    ASSUME IInv, SameFlags(grants', grants), audits' = audits,
           \A s \in Shares : shares'[s].download_count = shares[s].download_count
    PROVE  Accounted
  <1>1. CountedOnceStep
        BY CountsNone DEF CountedOnceStep, SameFlags
  <1>2. FreesIn(Shares)
        BY DEF FreesIn, SameFlags, Uncounted, UncountedIn
  <1>3. QED BY <1>1, <1>2 DEF Accounted, SlotStep

LEMMA CountedOnceCount ==
    ASSUME IInv, NEW gs, NEW k \in DOMAIN gs, NEW now, Part(gs, grants),
           ~gs[k].counted, k \in DOMAIN grants',
           Part(grants', CountGrant(gs, k, now)),
           shares' = CountShare(k), audits' = audits + 1
    PROVE  Accounted
  <1>1. /\ k \in DOMAIN grants /\ ~grants[k].counted /\ grants'[k].counted
        /\ \A j \in DOMAIN grants' :
              j # k => j \in DOMAIN grants /\ grants'[j] = grants[j]
        BY DEF Part, CountGrant
  <1>2. CountedOnceStep
        BY <1>1, CountsOne DEF CountedOnceStep
  <1>3. k \in GrantKeys /\ k.share \in Shares
        BY <1>1 DEF IInv, Rows, Tables, GrantKeys
  <1>4. FreesIn(Shares)
        BY <1>1 DEF FreesIn, Uncounted, UncountedIn
  <1>5. k \in Uncounted(k.share) /\ k \notin UncountedIn(grants', k.share)
        BY <1>1 DEF Uncounted, UncountedIn
  <1>6. SlotStep
        BY <1>3, <1>4, <1>5 DEF SlotStep, CountShare
  <1>7. QED BY <1>2, <1>6 DEF Accounted

LEMMA CountedOnceBegin ==
    ASSUME IInv, begin_authorized_transfer_lease
    PROVE  Accounted
  <1> DEFINE c == cleanup_transfer_state(grants, leases, clock)
  <1>1. Part(c.grants, grants) /\ Tables(grants, leases) /\ audits' = audits /\ shares' = shares
        BY CleanupPart DEF IInv, Rows, cleanup_transfer_state, BeginRefused,
           begin_authorized_transfer_lease, BeginExisting, BeginNew
  <1>2. PICK k \in GrantKeys :
           BeginRefused(k) \/ \E t \in LeaseTokens : BeginExisting(t, k) \/ BeginNew(t, k)
        BY DEF begin_authorized_transfer_lease
  <1>3. CASE BeginRefused(k)
    <2>1. SameFlags(grants', grants)
          BY <1>1, <1>3 DEF BeginRefused, SameFlags, Part
    <2>2. QED BY <1>1, <2>1, CountedOnceSameFlags
  <1>4. ASSUME NEW t \in LeaseTokens, BeginExisting(t, k) PROVE Accounted
    <2>1. /\ k \in DOMAIN c.grants
          /\ grants' = IF c.grants[k].counted THEN c.grants
                       ELSE [c.grants EXCEPT ![k].expires = clock + TransferSessionTTL]
          BY <1>4 DEF BeginExisting, transfer_access_state, ExistingGrant
    <2>2. c.grants[k] \in Grant
          BY <1>1, <2>1 DEF Tables, Part
    <2> HIDE DEF c
    <2>3. SameFlags(grants', grants)
          BY <1>1, <2>1, <2>2 DEF SameFlags, Part, Grant
    <2>4. QED BY <1>1, <2>3, CountedOnceSameFlags
  <1>5. ASSUME NEW t \in LeaseTokens, BeginNew(t, k) PROVE Accounted
    <2>1. /\ k \notin DOMAIN c.grants
          /\ grants' = Insert(c.grants, k, [counted |-> FALSE,
                                            expires |-> clock + TransferSessionTTL])
          BY <1>1, <1>5, AvailableIsFree DEF BeginNew
    <2>2. \A j \in DOMAIN grants :
             grants[j].expires > clock /\ grants[j].counted => j \in DOMAIN c.grants
          BY <1>1, CleanupKeeps
    <2> HIDE DEF c
    <2>3. /\ DOMAIN grants' = DOMAIN c.grants \cup {k}
          /\ ~grants'[k].counted
          /\ \A j \in DOMAIN c.grants : grants'[j] = grants[j]
          BY <1>1, <2>1 DEF Insert, Part
    <2>4. \A s \in Shares : CountsOnce(s)
          BY <1>1, <2>3, CountsNone
    <2>5. CountedOnceStep
          BY <2>1, <2>2, <2>3, <2>4 DEF CountedOnceStep
    <2>6. k.share \in Shares
          BY DEF GrantKeys
    <2>7. FreesIn(Shares \ {k.share})
          BY <1>1, <2>3 DEF FreesIn, Uncounted, UncountedIn, Part
    <2>8. /\ k \in UncountedIn(grants', k.share)
          /\ UncountedIn(grants', k.share) \subseteq Uncounted(k.share) \cup {k}
          BY <1>1, <2>3 DEF Uncounted, UncountedIn, Part
    <2>9. QED BY <1>1, <2>5, <2>6, <2>7, <2>8 DEF Accounted, SlotStep
  <1>6. QED BY <1>2, <1>3, <1>4, <1>5

LEMMA CountedOnceComplete ==
    ASSUME IInv, NEW t \in LeaseTokens, NEW now \in Nat,
           complete_transfer_lease(t, now) \/ cancel_transfer_lease(t, now)
    PROVE  Accounted
  <1> DEFINE c == cleanup_transfer_state(grants, leases, now)
             k == c.leases[t].grant
  <1>1. Part(c.grants, grants) /\ Tables(c.grants, c.leases)
        BY CleanupPart DEF IInv, Rows, cleanup_transfer_state
  <1>2. \/ /\ grants' \in {c.grants, Delete(c.grants, k)}
           /\ UNCHANGED <<shares, audits>>
        \/ /\ t \in DOMAIN c.leases /\ ~c.grants[k].counted
           /\ grants' = CountGrant(c.grants, k, now)
           /\ shares' = CountShare(k) /\ audits' = audits + 1
        BY DEF complete_transfer_lease, cancel_transfer_lease
  <1> HIDE DEF c
  <1>3. CASE grants' \in {c.grants, Delete(c.grants, k)} /\ UNCHANGED <<shares, audits>>
    <2>1. SameFlags(grants', grants)
          BY <1>1, <1>3 DEF SameFlags, Part, Delete, Keep
    <2>2. QED BY <1>3, <2>1, CountedOnceSameFlags
  <1>4. CASE /\ t \in DOMAIN c.leases /\ ~c.grants[k].counted
             /\ grants' = CountGrant(c.grants, k, now)
             /\ shares' = CountShare(k) /\ audits' = audits + 1
    <2>1. k \in DOMAIN c.grants
          BY <1>1, <1>4 DEF Tables
    <2> HIDE DEF k
    <2>2. k \in DOMAIN grants' /\ Part(grants', CountGrant(c.grants, k, now))
          BY <1>1, <1>4, <2>1 DEF Part, CountGrant, Keep
    <2>3. QED BY <1>1, <1>4, <2>1, <2>2, CountedOnceCount
  <1>5. QED BY <1>2, <1>3, <1>4

LEMMA CountedOnceHeartbeat ==
    ASSUME IInv, NEW t \in LeaseTokens, NEW now \in Nat,
           heartbeat_transfer_lease(t, now)
    PROVE  Accounted
  <1> DEFINE c == cleanup_transfer_state_before_heartbeat(grants, leases, now, t)
             k == c.leases[t].grant
  <1>1. /\ Part(c.grants, grants) /\ Tables(c.grants, c.leases)
        BY CleanupPart DEF IInv, Rows, cleanup_transfer_state_before_heartbeat
  <1>2. CASE HeartbeatGone(t, now)
    <2> DEFINE d == cleanup_transfer_state(c.grants, c.leases, now)
    <2>1. grants' = d.grants /\ UNCHANGED <<shares, audits>>
          BY <1>2 DEF HeartbeatGone
    <2> HIDE DEF c
    <2>2. Part(d.grants, c.grants)
          BY <1>1, CleanupPart DEF cleanup_transfer_state
    <2> HIDE DEF d
    <2>3. SameFlags(grants', grants)
          BY <1>1, <2>1, <2>2 DEF SameFlags, Part
    <2>4. QED BY <2>1, <2>3, CountedOnceSameFlags
  <1>3. CASE HeartbeatCapped(t, now)
    <2> DEFINE gs == IF ~c.grants[k].counted THEN CountGrant(c.grants, k, now)
                                             ELSE c.grants
               ls == Delete(c.leases, t)
               d  == cleanup_transfer_state(gs, ls, now)
    <2>1. /\ t \in DOMAIN c.leases /\ grants' = d.grants
          /\ IF ~c.grants[k].counted THEN shares' = CountShare(k) /\ audits' = audits + 1
                                     ELSE UNCHANGED <<shares, audits>>
          BY <1>3 DEF HeartbeatCapped
    <2> HIDE DEF c
    <2>2. k \in DOMAIN c.grants
          BY <1>1, <2>1 DEF Tables
    <2> HIDE DEF k
    <2>3. Tables(gs, ls)
      <3> DEFINE g == [counted |-> TRUE, expires |-> now + TransferSessionTTL]
      <3>0. now + TransferSessionTTL \in Nat
            BY TimeAssumption
      <3>1. CountGrant(c.grants, k, now) = [c.grants EXCEPT ![k] = g] /\ g \in Grant
            BY <3>0 DEF CountGrant, Grant
      <3> HIDE DEF g
      <3>2. Tables(c.grants, ls)
            BY <1>1 DEF Tables, Delete, Keep
      <3> HIDE DEF ls
      <3>3. Tables([c.grants EXCEPT ![k] = g], ls)
            BY <2>2, <3>1, <3>2 DEF Tables, Keep
      <3>4. QED BY <3>1, <3>2, <3>3
    <2>4. /\ ~c.grants[k].counted =>
                gs[k].counted /\ gs[k].expires > now /\ k \in DOMAIN gs
          BY <2>2, TimeAssumption DEF CountGrant
    <2> HIDE DEF gs, ls
    <2>5. Part(d.grants, gs)
          BY <2>3, CleanupPart DEF cleanup_transfer_state
    <2>6. \A j \in DOMAIN gs : gs[j].expires > now /\ gs[j].counted => j \in DOMAIN d.grants
          BY <2>3, CleanupKeeps
    <2> HIDE DEF d
    <2>7. CASE c.grants[k].counted
      <3>1. gs = c.grants
            BY <2>7 DEF gs
      <3>2. SameFlags(grants', grants)
            BY <1>1, <2>1, <2>5, <3>1 DEF SameFlags, Part
      <3>3. QED BY <2>1, <2>7, <3>2, CountedOnceSameFlags
    <2>8. CASE ~c.grants[k].counted
      <3>1. gs = CountGrant(c.grants, k, now)
            BY <2>8 DEF gs
      <3>2. k \in DOMAIN grants' /\ Part(grants', CountGrant(c.grants, k, now))
            BY <2>1, <2>4, <2>5, <2>6, <2>8, <3>1
      <3>3. QED BY <1>1, <2>1, <2>2, <2>8, <3>2, CountedOnceCount
    <2>9. QED BY <2>7, <2>8
  <1>4. CASE HeartbeatExtended(t, now)
    <2>1. /\ t \in DOMAIN c.leases /\ UNCHANGED <<shares, audits>>
          /\ \/ grants' = c.grants
             \/ \E m : grants' = [c.grants EXCEPT ![k].expires = m]
          BY <1>4 DEF HeartbeatExtended
    <2> HIDE DEF c
    <2>2. k \in DOMAIN c.grants /\ c.grants[k] \in Grant
          BY <1>1, <2>1 DEF Tables
    <2>3. SameFlags(grants', grants)
          BY <1>1, <2>1, <2>2 DEF SameFlags, Part, Grant
    <2>4. QED BY <2>1, <2>3, CountedOnceSameFlags
  <1>5. QED BY <1>2, <1>3, <1>4 DEF heartbeat_transfer_lease

LEMMA CountedOnceShares ==
    ASSUME IInv, NEW s \in Shares,
           \/ set_share_active(s) \/ set_share_password(s)
           \/ delete_share(s) \/ create_share(s)
    PROVE  Accounted
  <1>1. shares \in [Shares -> ShareRow]
        BY DEF IInv, Rest
  <1>2. CASE set_share_active(s) \/ set_share_password(s) \/ delete_share(s)
    <2>1. /\ \A r \in Shares : shares'[r].download_count = shares[r].download_count
          /\ audits' = audits
          BY <1>1, <1>2 DEF set_share_active, set_share_password,
                          delete_share, ShareRow
    <2>2. SameFlags(grants', grants)
          BY <1>2 DEF set_share_active, set_share_password,
                     delete_share, SameFlags, Keep
    <2>3. QED BY <2>1, <2>2, CountedOnceSameFlags
  <1>3. CASE create_share(s)
    <2>1. /\ shares[s].state = "deleted" /\ shares'[s].download_count = 0
          /\ grants' = grants /\ audits' = audits
          /\ \A r \in Shares : r # s => shares'[r] = shares[r]
          BY <1>1, <1>3 DEF create_share, NewShare
    <2>2. ASSUME NEW r \in Shares, r # s PROVE CountsOnce(r)
      <3>1. NewlyCounted(r) = {}
            BY <2>1 DEF NewlyCounted, Uncounted, UncountedIn
      <3>2. Cardinality(NewlyCounted(r)) = 0
            BY <3>1, FS_EmptySet
      <3>3. shares[r].download_count \in Nat /\ audits \in Nat
            BY <1>1 DEF IInv, Rest, ShareRow
      <3>4. \A n \in Nat : n = n + 0 /\ n >= n + 0
            OBVIOUS
      <3>5. QED BY <2>1, <2>2, <3>2, <3>3, <3>4 DEF CountsOnce
    <2>3. CountedOnceStep
          BY <2>1, <2>2 DEF CountedOnceStep
    <2>4. Uncounted(s) = {}
          BY <2>1 DEF IInv, DeletedShareHasNoGrants, Uncounted, UncountedIn
    <2>5. \E row : shares' = [shares EXCEPT ![s] = row] /\ row.download_count = 0
      <3>1. PICK protected \in BOOLEAN : shares' = [shares EXCEPT ![s] = NewShare(protected)]
            BY <1>3 DEF create_share
      <3>2. NewShare(protected).download_count = 0
            BY DEF NewShare
      <3>3. QED BY <3>1, <3>2
    <2>6. QED BY <2>1, <2>3, <2>4, <2>5 DEF Accounted, SlotStep
  <1>4. QED BY <1>2, <1>3

LEMMA AccountedNext == IInv /\ Next => Accounted
  <1> SUFFICES ASSUME IInv, Next PROVE Accounted
      OBVIOUS
  <1>1. ASSUME NEW t \in LeaseTokens, NEW now \in CallTimes(t),
               \/ complete_transfer_lease(t, now)
               \/ cancel_transfer_lease(t, now)
               \/ heartbeat_transfer_lease(t, now)
        PROVE  Accounted
    <2>1. now \in Nat
          BY CallTimesAreInstants
    <2>2. QED BY <1>1, <2>1, CountedOnceComplete, CountedOnceHeartbeat
  <1>2. ASSUME \/ Tick
               \/ \E s \in Shares : \E c \in Clients : create_unlock_session(c, s)
        PROVE  Accounted
    <2>1. grants' = grants /\ shares' = shares /\ audits' = audits
          BY <1>2 DEF Tick, create_unlock_session
    <2>2. SameFlags(grants', grants)
          BY <2>1 DEF SameFlags
    <2>3. QED BY <2>1, <2>2, CountedOnceSameFlags
  <1>3. QED BY <1>1, <1>2, CountedOnceBegin, CountedOnceShares DEF Next

(* Every logical transfer is counted, and audited, at most once per session. *)
THEOREM CountedOnceHolds == Spec => CountedOnce
  <1>1. IInv /\ [Next]_vars => [CountedOnceStep]_vars
        BY AccountedNext DEF Accounted
  <1>2. QED BY Inductive, <1>1, PTL DEF Spec, CountedOnce

-----------------------------------------------------------------------------
(* The initial tables reserve and count nothing. *)
LEMMA SlotsInit == Init => Slots!Init
  <1> SUFFICES ASSUME Init PROVE Slots!Init
      OBVIOUS
  <1>1. \A s \in Shares : Uncounted(s) = {} /\ shares[s].download_count = 0
        BY DEF Uncounted, UncountedIn, Init, NewShare
  <1>2. QED BY <1>1 DEF Slots!Init

(* A step of the tables is a step of the slots or leaves them alone.  That a *)
(* new reservation fits is the limit of the next state.                      *)
LEMMA SlotsNext == IInv /\ IInv' /\ [Next]_vars => [Slots!Next]_(Slots!slots)
  <1> SUFFICES ASSUME IInv, IInv', [Next]_vars PROVE [Slots!Next]_(Slots!slots)
      OBVIOUS
  <1>1. CASE UNCHANGED vars
        BY <1>1 DEF vars, Slots!slots, Uncounted, UncountedIn
  <1>2. CASE Next
    <2>1. SlotStep
          BY <1>2, AccountedNext DEF Accounted
    <2>2. /\ shares \in [Shares -> ShareRow] /\ shares' \in [Shares -> ShareRow]
          /\ \A q \in Shares : UncountedIn(grants', q) \subseteq GrantKeys
          BY DEF IInv, Rest, Rows, Tables, UncountedIn
    <2>3. \A q \in Shares : Uncounted(q)' = UncountedIn(grants', q)
          BY DEF Uncounted
    <2> DEFINE count == [s \in Shares |-> shares[s].download_count]
               reserved == [s \in Shares |-> Uncounted(s)]
    <2>4. reserved' \in [Shares -> SUBSET GrantKeys]
          BY <2>2, <2>3
    <2>5. CASE /\ FreesIn(Shares)
               /\ \A q \in Shares : shares'[q].download_count = shares[q].download_count
      <3>1. count' = count
            BY <2>5
      <3>2. Slots!FreesOn(Shares)
            BY <2>3, <2>4, <2>5 DEF Slots!FreesOn, FreesIn
      <3>3. QED BY <3>1, <3>2 DEF Slots!Next, Slots!Free
    <2>6. ASSUME NEW s \in Shares, NEW k \in GrantKeys,
                 FreesIn(Shares \ {s}),
                 k \in UncountedIn(grants', s),
                 UncountedIn(grants', s) \subseteq Uncounted(s) \cup {k},
                 shares' = shares
          PROVE  Slots!Next
      <3>1. count' = count
            BY <2>6
      <3>2. Slots!FreesOn(Shares \ {s})
            BY <2>3, <2>4, <2>6 DEF Slots!FreesOn, FreesIn
      <3>3. /\ k \in reserved'[s]
            /\ reserved'[s] \subseteq reserved[s] \cup {k}
            BY <2>3, <2>6
      <3>4. MaxDownloads[s] # Unlimited =>
               count[s] + Cardinality(reserved'[s]) <= MaxDownloads[s]
            BY <2>3, <2>6 DEF IInv, DownloadLimit
      <3>5. Slots!Reserve(s, k)
            BY <3>1, <3>2, <3>3, <3>4, Zenon DEF Slots!Reserve, Slots!Cardinality, Cardinality
      <3>6. QED BY <3>5 DEF Slots!Next
    <2>7. ASSUME NEW s \in Shares, NEW k \in GrantKeys,
                 FreesIn(Shares),
                 k \in Uncounted(s), k \notin UncountedIn(grants', s),
                 shares' = [shares EXCEPT ![s].download_count = @ + 1]
          PROVE  Slots!Next
      <3>1. count' = [count EXCEPT ![s] = @ + 1]
            BY <2>2, <2>7 DEF ShareRow
      <3>2. Slots!FreesOn(Shares)
            BY <2>3, <2>4, <2>7 DEF Slots!FreesOn, FreesIn
      <3>3. k \in reserved[s] \ reserved'[s]
            BY <2>3, <2>7
      <3>4. Slots!Count(s, k)
            BY <3>1, <3>2, <3>3 DEF Slots!Count
      <3>5. QED BY <3>4 DEF Slots!Next
    <2>8. ASSUME NEW s \in Shares, Uncounted(s) = {}, grants' = grants,
                 \E row : shares' = [shares EXCEPT ![s] = row] /\ row.download_count = 0
          PROVE  Slots!Next
      <3>1. PICK row : shares' = [shares EXCEPT ![s] = row] /\ row.download_count = 0
            BY <2>8
      <3>2. reserved' = reserved /\ reserved[s] = {}
            BY <2>3, <2>8 DEF Uncounted
      <3>3. \A q \in Shares : shares'[q].download_count =
                                IF q = s THEN 0 ELSE shares[q].download_count
            BY <2>2, <3>1
      <3>4. count' = [count EXCEPT ![s] = 0]
            BY <3>3
      <3>5. Slots!StartAgain(s)
            BY <3>2, <3>4 DEF Slots!StartAgain
      <3>6. QED BY <3>5 DEF Slots!Next
    <2>9. QED BY <2>1, <2>5, <2>6, <2>7, <2>8 DEF SlotStep
  <1>3. QED BY <1>1, <1>2

(* The transactions implement the reserve-then-count slots of DownloadSlots. *)
THEOREM SlotsImplemented == Spec => ImplementsSlots
  BY Inductive, SlotsInit, SlotsNext, PTL DEF Spec, ImplementsSlots, Slots!Spec

=============================================================================
