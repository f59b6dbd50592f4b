---------------------- MODULE UploadReservationsProofs ----------------------
(***************************************************************************)
(* Proofs about the upload reservation transactions for every set of       *)
(* shares and tokens, all limits, every TTL and every request size.        *)
(***************************************************************************)
EXTENDS UploadReservations, FiniteSetTheorems, TLAPS

(* A well-formed reservation table. *)
Table(rs) ==
    /\ rs = Keep(rs, DOMAIN rs)
    /\ \A t \in DOMAIN rs : rs[t] \in Reservation
    /\ IsFiniteSet(DOMAIN rs)

(* A table is a part of another when rows were only deleted. *)
Part(small, big) ==
    /\ small = Keep(small, DOMAIN small)
    /\ DOMAIN small \subseteq DOMAIN big
    /\ \A t \in DOMAIN small : small[t] = big[t]

-----------------------------------------------------------------------------
(* Counting reserved bytes. *)

LEMMA UnitsOfOne ==
    ASSUME NEW t, NEW b \in Nat
    PROVE  /\ IsFiniteSet({t} \X (1 .. b))
           /\ Cardinality({t} \X (1 .. b)) = b
  <1>1. IsFiniteSet({t}) /\ Cardinality({t}) = 1
        BY FS_Singleton
  <1>2. IsFiniteSet(1 .. b) /\ Cardinality(1 .. b) = b
        BY FS_Interval
  <1> DEFINE one == {t}
             many == 1 .. b
  <1> HIDE DEF one, many
  <1>3. /\ Cardinality(one \X many) = Cardinality(one) * Cardinality(many)
        /\ IsFiniteSet(one \X many)
        BY <1>1, <1>2, FS_Product DEF one, many
  <1>4. Cardinality(one \X many) = 1 * b
        BY <1>1, <1>2, <1>3 DEF one, many
  <1>5. QED BY <1>3, <1>4 DEF one, many

LEMMA UnitsFinite ==
    ASSUME NEW rs, NEW ts, IsFiniteSet(ts), \A t \in ts : rs[t].bytes \in Nat
    PROVE  /\ IsFiniteSet(Units(rs, ts))
           /\ Reserved(rs, ts) \in Nat
  <1> DEFINE family == {{t} \X (1 .. rs[t].bytes) : t \in ts}
             f == [t \in ts |-> {t} \X (1 .. rs[t].bytes)]
  <1>1. f \in Surjection(ts, family)
        BY DEF Surjection
  <1>2. IsFiniteSet(family)
        BY <1>1, FS_Surjection
  <1>3. ASSUME NEW x \in family PROVE IsFiniteSet(x)
    <2>1. PICK t \in ts : x = {t} \X (1 .. rs[t].bytes)
          OBVIOUS
    <2>2. QED BY <2>1, UnitsOfOne
  <1>4. IsFiniteSet(UNION family)
        BY <1>2, <1>3, FS_UNION
  <1>5. QED BY <1>4, FS_CardinalityType DEF Units, Reserved

LEMMA UnitsMonotone ==
    ASSUME NEW rs, NEW qs, NEW ts, NEW us, us \subseteq ts, IsFiniteSet(ts),
           \A t \in ts : rs[t].bytes \in Nat,
           \A t \in us : qs[t].bytes = rs[t].bytes
    PROVE  Reserved(qs, us) \in Nat /\ Reserved(qs, us) <= Reserved(rs, ts)
  <1>1. IsFiniteSet(Units(rs, ts)) /\ Reserved(rs, ts) \in Nat
        BY UnitsFinite
  <1>2. IsFiniteSet(us) /\ \A t \in us : qs[t].bytes \in Nat
        BY FS_Subset
  <1>3. Reserved(qs, us) \in Nat
        BY <1>2, UnitsFinite
  <1>4. Units(qs, us) \subseteq Units(rs, ts)
        BY DEF Units
  <1>5. QED BY <1>1, <1>3, <1>4, FS_Subset DEF Reserved

(* One reservation of a set, and the rest. *)
LEMMA UnitsSplit ==
    ASSUME NEW rs, NEW ts, NEW t \in ts, IsFiniteSet(ts),
           \A u \in ts : rs[u].bytes \in Nat
    PROVE  /\ Reserved(rs, ts \ {t}) \in Nat
           /\ Reserved(rs, ts) = Reserved(rs, ts \ {t}) + rs[t].bytes
  <1> DEFINE rest == Units(rs, ts \ {t})
             mine == {t} \X (1 .. rs[t].bytes)
  <1>1. IsFiniteSet(ts \ {t})
        BY FS_RemoveElement
  <1>2. IsFiniteSet(rest) /\ Reserved(rs, ts \ {t}) \in Nat
        BY <1>1, UnitsFinite
  <1>3. IsFiniteSet(mine) /\ Cardinality(mine) = rs[t].bytes
        BY UnitsOfOne
  <1>4. Units(rs, ts) = rest \cup mine
        BY DEF Units
  <1>5. rest \cap mine = {}
        BY DEF Units
  <1> HIDE DEF rest, mine
  <1>6. /\ Cardinality(rest \cup mine)
              = Cardinality(rest) + Cardinality(mine) - Cardinality(rest \cap mine)
        /\ Cardinality(rest \cap mine) = 0
    <2>1. Cardinality(rest \cup mine)
            = Cardinality(rest) + Cardinality(mine) - Cardinality(rest \cap mine)
          BY <1>2, <1>3, FS_Union
    <2>2. QED BY <1>5, <2>1, FS_EmptySet
  <1>7. Cardinality(rest) \in Nat
        BY <1>2, FS_CardinalityType
  <1>8. Cardinality(Units(rs, ts)) = Cardinality(rest) + rs[t].bytes
        BY <1>3, <1>4, <1>6, <1>7
  <1>9. QED BY <1>2, <1>8 DEF Reserved, rest

LEMMA UnitsNone ==
    ASSUME NEW rs
    PROVE  Reserved(rs, {}) = 0
  <1>1. Units(rs, {}) = {}
        BY DEF Units
  <1>2. QED BY <1>1, FS_EmptySet DEF Reserved

-----------------------------------------------------------------------------
(***************************************************************************)
(* The inductive invariant.  `Quota` is a predicate of the three tables,   *)
(* so that the lemmas can speak of the intermediate tables of a            *)
(* transaction.                                                            *)
(***************************************************************************)
QuotaOf(rs, sh, us, s) ==
    LET current == Of(rs, s, sh[s].epoch)
    IN  /\ us[s].files + Cardinality(current) <= sh[s].files
        /\ us[s].bytes + Reserved(rs, current) <= sh[s].total

Quota(rs, sh, us) == \A s \in Shares : QuotaOf(rs, sh, us, s)

(* Reservations belong to an existing share and to its current or an earlier *)
(* epoch; the ones a policy change has overtaken belong to an earlier one.   *)
Epochs(rs, sh, rv) ==
    \A t \in DOMAIN rs :
        LET s == rs[t].share
        IN  /\ sh[s].state # "deleted"
            /\ rs[t].epoch <= sh[s].epoch
            /\ t \in rv => rs[t].epoch < sh[s].epoch

Rest ==
    /\ clock \in Nat
    /\ shares \in [Shares -> ShareRow]
    /\ usage \in [Shares -> UsageRow]
    /\ \A s \in Shares : usage[s].directories <= MaxDirectories
    /\ \A s \in Shares : shares[s].state = "deleted" => usage[s] = NoUsage
    /\ DOMAIN reservations \subseteq issued
    /\ issued \subseteq Tokens
    /\ revoked \subseteq issued
    /\ charged \subseteq issued

IInv ==
    /\ Rest
    /\ Table(reservations)
    /\ Epochs(reservations, shares, revoked)
    /\ Quota(reservations, shares, usage)

LEMMA IInvImplies ==
    ASSUME IInv
    PROVE  TypeOK /\ FileQuota /\ ByteQuota
  BY DEF IInv, Rest, Table, Quota, QuotaOf, TypeOK, FileQuota, ByteQuota, Current

(* The reservations of one epoch of a share, and their bytes, are countable. *)
LEMMA OfFinite ==
    ASSUME NEW rs, Table(rs), NEW s, NEW e
    PROVE  /\ IsFiniteSet(Of(rs, s, e))
           /\ Cardinality(Of(rs, s, e)) \in Nat
           /\ \A t \in Of(rs, s, e) : rs[t].bytes \in Nat
           /\ Reserved(rs, Of(rs, s, e)) \in Nat
  <1>1. Of(rs, s, e) \subseteq DOMAIN rs
        BY DEF Of
  <1>2. IsFiniteSet(Of(rs, s, e)) /\ Cardinality(Of(rs, s, e)) \in Nat
        BY <1>1, FS_Subset, FS_CardinalityType DEF Table
  <1>3. \A t \in Of(rs, s, e) : rs[t].bytes \in Nat
        BY <1>1 DEF Table, Reservation
  <1>4. QED BY <1>2, <1>3, UnitsFinite

(* Deleting rows keeps everything. *)
LEMMA TablePart ==
    ASSUME NEW big, NEW small, Table(big), Part(small, big)
    PROVE  Table(small)
  BY FS_Subset DEF Table, Part

LEMMA EpochsPart ==
    ASSUME NEW big, NEW small, Part(small, big),
           Epochs(big, shares, revoked)
    PROVE  Epochs(small, shares, revoked)
  BY DEF Epochs, Part

LEMMA QuotaPart ==
    ASSUME NEW big, NEW small, Table(big), Part(small, big),
           NEW sh \in [Shares -> ShareRow], NEW us \in [Shares -> UsageRow],
           NEW s \in Shares, QuotaOf(big, sh, us, s)
    PROVE  QuotaOf(small, sh, us, s)
  <1> DEFINE all  == Of(big, s, sh[s].epoch)
             some == Of(small, s, sh[s].epoch)
  <1>1. /\ some \subseteq all
        /\ \A t \in some : small[t].bytes = big[t].bytes
        BY DEF Of, Part
  <1>2. /\ IsFiniteSet(all) /\ Cardinality(all) \in Nat
        /\ \A t \in all : big[t].bytes \in Nat
        /\ Reserved(big, all) \in Nat
        BY OfFinite
  <1> HIDE DEF all, some
  <1>3. Reserved(small, some) \in Nat /\ Reserved(small, some) <= Reserved(big, all)
        BY <1>1, <1>2, UnitsMonotone
  <1>4. /\ Cardinality(some) \in Nat
        /\ Cardinality(some) <= Cardinality(all)
        BY <1>1, <1>2, FS_Subset, FS_CardinalityType
  <1>5. /\ us[s].files \in Nat /\ us[s].bytes \in Nat
        /\ sh[s].files \in Nat /\ sh[s].total \in Nat
        BY LimitsAssumption DEF UsageRow, ShareRow
  <1>6. us[s].files + Cardinality(all) <= sh[s].files
        BY DEF QuotaOf, all
  <1>7. us[s].bytes + Reserved(big, all) <= sh[s].total
        BY DEF QuotaOf, all
  <1>8. us[s].files + Cardinality(some) <= sh[s].files
        BY <1>2, <1>4, <1>5, <1>6
  <1>9. us[s].bytes + Reserved(small, some) <= sh[s].total
        BY <1>2, <1>3, <1>5, <1>7
  <1>10. QED BY <1>8, <1>9 DEF QuotaOf, some

LEMMA PurgePart ==
    ASSUME NEW rs, NEW now, Table(rs)
    PROVE  Part(Purge(rs, now), rs)
  BY DEF Purge, Part, Keep

LEMMA DeletePart ==
    ASSUME NEW rs, NEW t
    PROVE  Part(Delete(rs, t), rs)
  BY DEF Delete, Part, Keep

LEMMA PartOfPart ==
    ASSUME NEW a, NEW b, NEW c, Part(a, b), Part(b, c)
    PROVE  Part(a, c)
  BY DEF Part

LEMMA InitIInv == Init => IInv
  <1> SUFFICES ASSUME Init PROVE IInv
      OBVIOUS
  <1>1. DOMAIN reservations = {}
        BY DEF Init
  <1>2. shares \in [Shares -> ShareRow] /\ usage \in [Shares -> UsageRow]
        BY LimitsAssumption DEF Init, NewShare, ShareRow, UsageRow, NoUsage
  <1>3. \A s \in Shares : usage[s] = NoUsage
        BY DEF Init
  <1>4. Rest
        BY <1>1, <1>2, <1>3, LimitsAssumption DEF Init, Rest, NoUsage
  <1>5. Table(reservations)
        BY <1>1, FS_EmptySet DEF Init, Table, Keep
  <1>6. Epochs(reservations, shares, revoked)
        BY <1>1 DEF Epochs
  <1>7. ASSUME NEW s \in Shares PROVE QuotaOf(reservations, shares, usage, s)
    <2> DEFINE current == Of(reservations, s, shares[s].epoch)
    <2>1. current = {}
          BY <1>1 DEF Of
    <2>2. Cardinality(current) = 0 /\ Reserved(reservations, current) = 0
      <3>1. Reserved(reservations, {}) = 0
            BY UnitsNone
      <3>2. QED BY <2>1, <3>1, FS_EmptySet
    <2>3. /\ usage[s].files = 0 /\ usage[s].bytes = 0
          /\ shares[s].files \in Nat /\ shares[s].total \in Nat
      <3>1. usage[s].files = 0 /\ usage[s].bytes = 0
            BY <1>3 DEF NoUsage
      <3>2. shares[s].files \in Nat /\ shares[s].total \in Nat
            BY <1>2, LimitsAssumption DEF ShareRow
      <3>3. QED BY <3>1, <3>2
    <2> HIDE DEF current
    <2>4. ASSUME NEW m \in Nat PROVE 0 + 0 <= m
          OBVIOUS
    <2>5. QED BY <2>2, <2>3, <2>4 DEF QuotaOf, current
  <1>8. QED BY <1>4, <1>5, <1>6, <1>7 DEF IInv, Quota

-----------------------------------------------------------------------------
(* Steps that only delete reservations. *)
LEMMA StepShrink ==
    ASSUME IInv, Part(reservations', reservations),
           UNCHANGED <<shares, usage, issued, revoked, charged>>, clock' \in Nat
    PROVE  IInv'
  <1>1. Table(reservations')
        BY TablePart DEF IInv
  <1>2. Epochs(reservations', shares, revoked)
        BY EpochsPart DEF IInv
  <1>3. \A s \in Shares : QuotaOf(reservations', shares, usage, s)
        BY QuotaPart DEF IInv, Rest, Quota
  <1>4. DOMAIN reservations' \subseteq issued
        BY DEF IInv, Rest, Part
  <1>5. Rest'
        BY <1>4 DEF IInv, Rest
  <1>6. QED BY <1>1, <1>2, <1>3, <1>5 DEF IInv, Quota

(* The tables a transaction works on after its purge. *)
LEMMA Purged ==
    ASSUME IInv, NEW now
    PROVE  LET rs == Purge(reservations, now)
           IN  /\ Part(rs, reservations)
               /\ Table(rs)
               /\ Epochs(rs, shares, revoked)
               /\ Quota(rs, shares, usage)
               /\ DOMAIN rs \subseteq issued
  <1> DEFINE rs == Purge(reservations, now)
  <1>1. Part(rs, reservations)
        BY PurgePart DEF IInv
  <1> HIDE DEF rs
  <1>2. Table(rs) /\ Epochs(rs, shares, revoked)
        BY <1>1, TablePart, EpochsPart DEF IInv
  <1>3. Quota(rs, shares, usage)
        BY <1>1, QuotaPart DEF IInv, Rest, Quota
  <1>4. DOMAIN rs \subseteq issued
        BY <1>1 DEF IInv, Rest, Part
  <1>5. QED BY <1>1, <1>2, <1>3, <1>4 DEF rs

(* A new reservation takes one file and no byte. *)
LEMMA QuotaInsert ==
    ASSUME NEW rs, Table(rs), Quota(rs, shares, usage),
           shares \in [Shares -> ShareRow], usage \in [Shares -> UsageRow],
           NEW t, t \notin DOMAIN rs, NEW new \in Reservation, new.bytes = 0,
           ~FileQuotaReached(rs, new.share, new.epoch)
    PROVE  Quota(Insert(rs, t, new), shares, usage)
  <1> DEFINE qs == Insert(rs, t, new)
  <1> SUFFICES ASSUME NEW s \in Shares PROVE QuotaOf(qs, shares, usage, s)
      BY DEF Quota
  <1> DEFINE e   == shares[s].epoch
             old == Of(rs, s, e)
             now == Of(qs, s, e)
  <1>1. /\ IsFiniteSet(old) /\ Cardinality(old) \in Nat
        /\ \A u \in old : rs[u].bytes \in Nat
        /\ Reserved(rs, old) \in Nat
        BY OfFinite
  <1>2. /\ usage[s].files \in Nat /\ usage[s].bytes \in Nat
        /\ shares[s].files \in Nat /\ shares[s].total \in Nat
        BY LimitsAssumption DEF UsageRow, ShareRow
  <1>3. /\ usage[s].files + Cardinality(old) <= shares[s].files
        /\ usage[s].bytes + Reserved(rs, old) <= shares[s].total
        BY DEF Quota, QuotaOf
  <1>4. CASE new.share = s /\ new.epoch = e
    <2>1. now = old \cup {t} /\ t \notin old
          BY <1>4 DEF Of, Insert
    <2>2. \A u \in old : qs[u] = rs[u]
          BY DEF Of, Insert
    <2>3. qs[t].bytes = 0
          BY DEF Insert
    <2>4. ~(usage[s].files + Cardinality(old) >= shares[s].files)
          BY <1>4 DEF FileQuotaReached
    <2> HIDE DEF old, now, qs
    <2>5. IsFiniteSet(now) /\ Cardinality(now) = Cardinality(old) + 1
          BY <1>1, <2>1, FS_AddElement
    <2>6. Reserved(qs, now) = Reserved(qs, old) + 0
      <3>1. \A u \in now : qs[u].bytes \in Nat
            BY <1>1, <2>1, <2>2, <2>3
      <3>2. Reserved(qs, now) = Reserved(qs, now \ {t}) + qs[t].bytes
            BY <2>1, <2>5, <3>1, UnitsSplit
      <3>3. now \ {t} = old
            BY <2>1
      <3>4. QED BY <2>3, <3>2, <3>3
    <2>7. Reserved(qs, old) \in Nat /\ Reserved(qs, old) <= Reserved(rs, old)
          BY <1>1, <2>2, UnitsMonotone
    <2>8. usage[s].files + Cardinality(now) <= shares[s].files
          BY <1>1, <1>2, <2>4, <2>5
    <2>9. usage[s].bytes + Reserved(qs, now) <= shares[s].total
          BY <1>1, <1>2, <1>3, <2>6, <2>7
    <2>10. QED BY <2>8, <2>9 DEF QuotaOf, now
  <1>5. CASE ~(new.share = s /\ new.epoch = e)
    <2>1. now = old
          BY <1>5 DEF Of, Insert
    <2>2. \A u \in old : qs[u] = rs[u]
          BY DEF Of, Insert
    <2> HIDE DEF old, now, qs
    <2>3. Reserved(qs, old) \in Nat /\ Reserved(qs, old) <= Reserved(rs, old)
          BY <1>1, <2>2, UnitsMonotone
    <2>4. usage[s].files + Cardinality(now) <= shares[s].files
          BY <1>3, <2>1
    <2>5. usage[s].bytes + Reserved(qs, now) <= shares[s].total
          BY <1>1, <1>2, <1>3, <2>1, <2>3
    <2>6. QED BY <2>4, <2>5 DEF QuotaOf, now
  <1>6. QED BY <1>4, <1>5

LEMMA StepBegin ==
    ASSUME IInv, NEW t \in Tokens, NEW s \in Shares, NEW epoch \in Nat,
           NEW now \in Nat, begin_upload_reservation(t, s, epoch, now)
    PROVE  IInv'
  <1> DEFINE rs  == Purge(reservations, now)
             new == [share |-> s, bytes |-> 0,
                     expires |-> now + ReservationTTL, epoch |-> epoch]
  <1>1. /\ Part(rs, reservations) /\ Table(rs) /\ Epochs(rs, shares, revoked)
        /\ Quota(rs, shares, usage) /\ DOMAIN rs \subseteq issued
        BY Purged
  <1>2. /\ shares \in [Shares -> ShareRow] /\ usage \in [Shares -> UsageRow]
        /\ revoked \subseteq issued
        /\ UNCHANGED <<clock, shares, usage, revoked, charged>> /\ clock \in Nat
        /\ t \notin issued
        BY DEF IInv, Rest, begin_upload_reservation
  <1>3. CASE reservations' = rs /\ UNCHANGED issued
        BY <1>1, <1>2, <1>3, StepShrink
  <1>4. CASE /\ Available(s, epoch, now) /\ ~FileQuotaReached(rs, s, epoch)
             /\ reservations' = Insert(rs, t, new)
             /\ issued' = issued \cup {t}
    <2>1. /\ new \in Reservation /\ new.bytes = 0
          /\ new.share = s /\ new.epoch = epoch
          BY TimeAssumption DEF Reservation
    <2>2. shares[s].state # "deleted" /\ shares[s].epoch = epoch
          BY <1>4 DEF Available
    <2>3. t \notin DOMAIN rs /\ t \notin revoked
          BY <1>1, <1>2
    <2>4. /\ reservations' = Insert(rs, t, new)
          /\ ~FileQuotaReached(rs, new.share, new.epoch)
          BY <1>4, <2>1
    <2> HIDE DEF rs, new
    <2>5. Quota(reservations', shares, usage)
          BY <1>1, <1>2, <2>1, <2>3, <2>4, QuotaInsert
    <2>6. Table(reservations')
      <3>1. IsFiniteSet(DOMAIN rs \cup {t})
            BY <1>1, FS_AddElement DEF Table
      <3>2. QED BY <1>1, <2>1, <2>4, <3>1 DEF Table, Insert, Keep
    <2>7. Epochs(reservations', shares, revoked)
          BY <1>1, <2>1, <2>2, <2>3, <2>4 DEF Epochs, Insert
    <2>8. DOMAIN reservations' \subseteq issued'
          BY <1>1, <1>4, <2>4 DEF Insert
    <2>9. Rest'
          BY <1>2, <1>4, <2>8 DEF IInv, Rest
    <2>10. QED BY <1>2, <2>5, <2>6, <2>7, <2>9 DEF IInv
  <1>5. QED BY <1>3, <1>4 DEF begin_upload_reservation

(* A reservation that grows within the available bytes. *)
LEMMA QuotaExtend ==
    ASSUME NEW rs, Table(rs), Quota(rs, shares, usage),
           shares \in [Shares -> ShareRow], usage \in [Shares -> UsageRow],
           NEW t \in DOMAIN rs, NEW qs, DOMAIN qs = DOMAIN rs,
           \A u \in DOMAIN rs : u # t => qs[u] = rs[u],
           qs[t].share = rs[t].share, qs[t].epoch = rs[t].epoch,
           qs[t].bytes \in Nat, qs[t].bytes <= AvailableBytes(rs, t),
           rs[t].epoch = shares[rs[t].share].epoch
    PROVE  Quota(qs, shares, usage)
  <1> SUFFICES ASSUME NEW s \in Shares PROVE QuotaOf(qs, shares, usage, s)
      BY DEF Quota
  <1> DEFINE e   == shares[s].epoch
             old == Of(rs, s, e)
  <1>1. /\ IsFiniteSet(old) /\ Cardinality(old) \in Nat
        /\ \A u \in old : rs[u].bytes \in Nat
        /\ Reserved(rs, old) \in Nat
        BY OfFinite
  <1>2. /\ usage[s].files \in Nat /\ usage[s].bytes \in Nat
        /\ shares[s].files \in Nat /\ shares[s].total \in Nat
        BY LimitsAssumption DEF UsageRow, ShareRow
  <1>3. /\ usage[s].files + Cardinality(old) <= shares[s].files
        /\ usage[s].bytes + Reserved(rs, old) <= shares[s].total
        BY DEF Quota, QuotaOf
  <1>4. Of(qs, s, e) = old
        BY DEF Of
  <1>5. usage[s].bytes + Reserved(qs, old) <= shares[s].total
    <2>1. CASE t \in old
      <3> DEFINE others == old \ {t}
      <3>1. \A u \in others : qs[u].bytes = rs[u].bytes
            BY DEF Of
      <3>2. rs[t].share = s /\ rs[t].epoch = e
            BY <2>1 DEF Of
      <3>3. qs[t].bytes <= shares[s].total - usage[s].bytes - Reserved(rs, others)
            BY <3>2 DEF AvailableBytes
      <3> HIDE DEF others, old
      <3>4. \A u \in old : qs[u].bytes \in Nat
            BY <1>1, <3>1 DEF others
      <3>5. Reserved(qs, old) = Reserved(qs, others) + qs[t].bytes
            BY <1>1, <2>1, <3>4, UnitsSplit DEF others
      <3>6. IsFiniteSet(others) /\ \A u \in others : rs[u].bytes \in Nat
            BY <1>1, FS_RemoveElement DEF others
      <3>7. Reserved(qs, others) \in Nat /\ Reserved(qs, others) <= Reserved(rs, others)
            BY <3>1, <3>6, UnitsMonotone
      <3>8. Reserved(rs, others) \in Nat
            BY <3>6, UnitsFinite
      <3>9. QED BY <1>2, <3>3, <3>5, <3>7, <3>8
    <2>2. CASE t \notin old
      <3>1. \A u \in old : qs[u].bytes = rs[u].bytes
            BY <2>2 DEF Of
      <3> HIDE DEF old
      <3>2. Reserved(qs, old) \in Nat /\ Reserved(qs, old) <= Reserved(rs, old)
            BY <1>1, <3>1, UnitsMonotone
      <3>3. QED BY <1>1, <1>2, <1>3, <3>2
    <2>3. QED BY <2>1, <2>2
  <1>6. QED BY <1>3, <1>4, <1>5 DEF QuotaOf

LEMMA StepExtend ==
    ASSUME IInv, NEW t \in Tokens, NEW minimum \in Nat, NEW preferred \in Nat,
           NEW now \in Nat,
           extend_upload_reservation_up_to(t, minimum, preferred, now)
    PROVE  IInv'
  <1> DEFINE rs    == Purge(reservations, now)
             room  == AvailableBytes(rs, t)
             bytes == ChosenBytes(room, minimum, preferred)
             qs    == [rs EXCEPT ![t].bytes = bytes,
                                 ![t].expires = now + ReservationTTL]
  <1>1. /\ Part(rs, reservations) /\ Table(rs) /\ Epochs(rs, shares, revoked)
        /\ Quota(rs, shares, usage) /\ DOMAIN rs \subseteq issued
        BY Purged
  <1>2. /\ shares \in [Shares -> ShareRow] /\ usage \in [Shares -> UsageRow]
        /\ clock \in Nat
        /\ UNCHANGED <<clock, shares, usage, issued, revoked, charged>>
        BY DEF IInv, Rest, extend_upload_reservation_up_to
  <1>3. CASE reservations' = rs
        BY <1>1, <1>2, <1>3, StepShrink
  <1>4. CASE reservations' = Delete(rs, t)
    <2>1. Part(Delete(rs, t), rs)
          BY DeletePart
    <2> HIDE DEF rs
    <2>2. Part(reservations', reservations)
          BY <1>1, <1>4, <2>1, PartOfPart
    <2>3. QED BY <1>2, <2>2, StepShrink
  <1>5. CASE UNCHANGED reservations
    <2>1. Part(reservations', reservations)
          BY <1>5 DEF IInv, Table, Part
    <2>2. QED BY <1>2, <2>1, StepShrink
  <1>6. CASE /\ t \in DOMAIN rs /\ Available(rs[t].share, rs[t].epoch, now)
             /\ ~(minimum > room)
             /\ reservations' = qs
    <2>1. shares[rs[t].share].epoch = rs[t].epoch
          BY <1>6 DEF Available
    <2>2. room \in Int
      <3> DEFINE r      == rs[t].share
                 all    == Of(rs, r, rs[t].epoch)
      <3>1. r \in Shares
            BY <1>1, <1>6 DEF Table, Reservation
      <3>2. usage[r].bytes \in Nat /\ shares[r].total \in Nat
            BY <1>2, <3>1, LimitsAssumption DEF UsageRow, ShareRow
      <3>3. IsFiniteSet(all) /\ \A u \in all : rs[u].bytes \in Nat
            BY <1>1, OfFinite
      <3> HIDE DEF all, rs
      <3>4. IsFiniteSet(all \ {t}) /\ \A u \in all \ {t} : rs[u].bytes \in Nat
            BY <3>3, FS_RemoveElement
      <3>5. Reserved(rs, all \ {t}) \in Nat
            BY <3>4, UnitsFinite
      <3>6. QED BY <3>2, <3>5 DEF AvailableBytes, all
    <2> HIDE DEF room
    <2>3. bytes \in Nat /\ bytes <= room
          BY <1>6, <2>2 DEF ChosenBytes
    <2> HIDE DEF bytes
    <2>4. rs[t] \in Reservation
          BY <1>1, <1>6 DEF Table
    <2> HIDE DEF rs
    <2>5. /\ DOMAIN qs = DOMAIN rs
          /\ \A u \in DOMAIN rs : u # t => qs[u] = rs[u]
          /\ qs = Keep(qs, DOMAIN qs)
          BY <1>1 DEF Table, Keep
    <2>6. /\ qs[t].share = rs[t].share /\ qs[t].epoch = rs[t].epoch
          /\ qs[t].bytes = bytes /\ qs[t] \in Reservation
          BY <1>6, <2>3, <2>4, TimeAssumption DEF Reservation
    <2> HIDE DEF qs
    <2>7. qs[t].bytes \in Nat /\ qs[t].bytes <= AvailableBytes(rs, t)
          BY <2>3, <2>6 DEF room
    <2>8. Quota(qs, shares, usage)
          BY <1>1, <1>2, <1>6, <2>1, <2>5, <2>6, <2>7, QuotaExtend
    <2>9. Table(qs)
          BY <1>1, <2>5, <2>6 DEF Table
    <2>10. Epochs(qs, shares, revoked)
          BY <1>1, <2>5, <2>6 DEF Epochs
    <2>11. Rest'
          BY <1>1, <1>2, <1>6, <2>5 DEF IInv, Rest
    <2>12. QED BY <1>2, <1>6, <2>8, <2>9, <2>10, <2>11 DEF IInv
  <1>7. QED BY <1>3, <1>4, <1>5, <1>6 DEF extend_upload_reservation_up_to

(* A commit turns one reserved file and its bytes into usage. *)
LEMMA QuotaCharge ==
    ASSUME NEW rs, Table(rs), Quota(rs, shares, usage),
           shares \in [Shares -> ShareRow], usage \in [Shares -> UsageRow],
           NEW t \in DOMAIN rs, rs[t].epoch = shares[rs[t].share].epoch,
           NEW bytes \in Nat, NEW directories \in Nat, bytes <= rs[t].bytes
    PROVE  LET us == Charge(rs[t].share, bytes, directories)
           IN  /\ us \in [Shares -> UsageRow]
               /\ Quota(Delete(rs, t), shares, us)
  <1> DEFINE r  == rs[t].share
             us == Charge(r, bytes, directories)
             qs == Delete(rs, t)
  <1>1. r \in Shares /\ rs[t].bytes \in Nat
        BY DEF Table, Reservation
  <1>2. /\ us \in [Shares -> UsageRow]
        /\ \A s \in Shares : s # r => us[s] = usage[s]
        /\ us[r].files = usage[r].files + 1
        /\ us[r].bytes = usage[r].bytes + bytes
        BY <1>1 DEF Charge, UsageRow
  <1> HIDE DEF us
  <1>3. ASSUME NEW s \in Shares, s # r PROVE QuotaOf(qs, shares, us, s)
    <2>1. QuotaOf(qs, shares, usage, s)
          BY DeletePart, QuotaPart DEF Quota
    <2>2. QED BY <1>2, <1>3, <2>1 DEF QuotaOf
  <1>4. QuotaOf(qs, shares, us, r)
    <2> DEFINE e    == shares[r].epoch
               old  == Of(rs, r, e)
               rest == old \ {t}
    <2>1. /\ IsFiniteSet(old) /\ Cardinality(old) \in Nat
          /\ \A u \in old : rs[u].bytes \in Nat
          /\ Reserved(rs, old) \in Nat
          BY OfFinite
    <2>2. /\ usage[r].files \in Nat /\ usage[r].bytes \in Nat
          /\ shares[r].files \in Nat /\ shares[r].total \in Nat
          BY <1>1, LimitsAssumption DEF UsageRow, ShareRow
    <2>3. /\ usage[r].files + Cardinality(old) <= shares[r].files
          /\ usage[r].bytes + Reserved(rs, old) <= shares[r].total
          BY <1>1 DEF Quota, QuotaOf
    <2>4. t \in old /\ Of(qs, r, e) = rest
          BY DEF Of, Delete, Keep
    <2>5. \A u \in rest : qs[u].bytes = rs[u].bytes
          BY DEF Of, Delete, Keep
    <2>6. us[r].files = usage[r].files + 1 /\ us[r].bytes = usage[r].bytes + bytes
          BY <1>2
    <2>7. bytes <= rs[t].bytes /\ rs[t].bytes \in Nat
          BY <1>1
    <2> HIDE DEF old, qs
    <2>8. /\ IsFiniteSet(rest) /\ Cardinality(rest) = Cardinality(old) - 1
          BY <2>1, <2>4, FS_RemoveElement
    <2>9. Cardinality(rest) \in Nat
          BY <2>8, FS_CardinalityType
    <2>10. Reserved(rs, old) = Reserved(rs, rest) + rs[t].bytes
          BY <2>1, <2>4, UnitsSplit
    <2>11. \A u \in rest : rs[u].bytes \in Nat
          BY <2>1
    <2> HIDE DEF rest, r
    <2>12. /\ Reserved(qs, rest) \in Nat /\ Reserved(rs, rest) \in Nat
           /\ Reserved(qs, rest) <= Reserved(rs, rest)
          BY <2>5, <2>8, <2>11, UnitsMonotone, UnitsFinite
    <2>13. us[r].files + Cardinality(rest) <= shares[r].files
          BY <2>1, <2>2, <2>3, <2>6, <2>8, <2>9
    <2>14. us[r].bytes + Reserved(qs, rest) <= shares[r].total
          BY <2>2, <2>3, <2>6, <2>7, <2>10, <2>12
    <2>15. QED BY <2>4, <2>13, <2>14 DEF QuotaOf
  <1>5. Quota(qs, shares, us)
        BY <1>3, <1>4 DEF Quota
  <1>6. QED BY <1>2, <1>5 DEF us

LEMMA StepCommit ==
    ASSUME IInv, NEW t \in Tokens, NEW bytes \in Nat, NEW directories \in Nat,
           NEW now \in Nat, commit_upload_reservation(t, bytes, directories, now)
    PROVE  IInv'
  <1> DEFINE rs == Purge(reservations, now)
             us == Charge(rs[t].share, bytes, directories)
  <1>1. /\ Part(rs, reservations) /\ Table(rs) /\ Epochs(rs, shares, revoked)
        /\ Quota(rs, shares, usage) /\ DOMAIN rs \subseteq issued
        BY Purged
  <1>2. /\ shares \in [Shares -> ShareRow] /\ usage \in [Shares -> UsageRow]
        /\ UNCHANGED <<clock, shares, issued, revoked>> /\ t \in issued
        /\ clock \in Nat
        BY DEF IInv, Rest, commit_upload_reservation
  <1>3. Part(Delete(rs, t), rs)
        BY DeletePart
  <1>4. CASE reservations' = rs /\ UNCHANGED <<usage, charged>>
        BY <1>1, <1>2, <1>4, StepShrink
  <1>5. CASE reservations' = Delete(rs, t) /\ UNCHANGED <<usage, charged>>
    <2> HIDE DEF rs
    <2>1. Part(reservations', reservations)
          BY <1>1, <1>3, <1>5, PartOfPart
    <2>2. QED BY <1>2, <1>5, <2>1, StepShrink
  <1>6. CASE UNCHANGED <<reservations, usage, charged>>
    <2>1. Part(reservations', reservations)
          BY <1>6 DEF IInv, Table, Part
    <2>2. QED BY <1>2, <1>6, <2>1, StepShrink
  <1>7. CASE /\ t \in DOMAIN rs /\ Available(rs[t].share, rs[t].epoch, now)
             /\ bytes <= rs[t].bytes
             /\ ~(usage[rs[t].share].directories + directories > MaxDirectories)
             /\ reservations' = Delete(rs, t)
             /\ usage' = us
             /\ charged' = charged \cup {t}
    <2> DEFINE r == rs[t].share
    <2>1. shares[r].epoch = rs[t].epoch /\ shares[r].state # "deleted"
          BY <1>7 DEF Available
    <2>2. r \in Shares
          BY <1>1, <1>7 DEF Table, Reservation
    <2> HIDE DEF rs
    <2>3. us \in [Shares -> UsageRow] /\ Quota(Delete(rs, t), shares, us)
          BY <1>1, <1>2, <1>7, <2>1, QuotaCharge
    <2>4. \A s \in Shares : us[s].directories <= MaxDirectories
      <3>1. usage[r].directories + directories <= MaxDirectories
            BY <1>2, <1>7, <2>2, LimitsAssumption DEF UsageRow
      <3>2. QED BY <1>2, <2>2, <3>1 DEF Charge, IInv, Rest
    <2>5. \A s \in Shares : shares[s].state = "deleted" => us[s] = NoUsage
          BY <1>2, <2>1 DEF Charge, IInv, Rest
    <2>6. /\ Table(Delete(rs, t)) /\ Epochs(Delete(rs, t), shares, revoked)
          /\ DOMAIN Delete(rs, t) \subseteq issued
          BY <1>1, <1>3, TablePart, EpochsPart DEF Part
    <2> HIDE DEF us
    <2>7. Rest'
          BY <1>2, <1>7, <2>3, <2>4, <2>5, <2>6 DEF IInv, Rest
    <2>8. QED BY <1>2, <1>7, <2>3, <2>6, <2>7 DEF IInv
  <1>8. QED BY <1>4, <1>5, <1>6, <1>7 DEF commit_upload_reservation

(* A policy change: the new row has to cover usage and the reservations of  *)
(* the epoch it replaces; in the new epoch there are none.                   *)
LEMMA StepRevise ==
    ASSUME IInv, NEW s \in Shares, Exists(s), NEW row \in ShareRow,
           row.epoch = shares[s].epoch, row.state # "deleted",
           NEW changes \in BOOLEAN, Revise(s, row, changes),
           Part(reservations', reservations),
           UNCHANGED <<clock, usage, issued, charged>>,
           usage[s].files
              + Cardinality(Of(reservations', s, shares[s].epoch)) <= row.files,
           usage[s].bytes
              + Reserved(reservations', Of(reservations', s, shares[s].epoch))
              <= row.total
    PROVE  IInv'
  <1>1. /\ shares \in [Shares -> ShareRow] /\ usage \in [Shares -> UsageRow]
        /\ Table(reservations) /\ Epochs(reservations, shares, revoked)
        /\ Quota(reservations, shares, usage)
        /\ DOMAIN reservations \subseteq issued /\ revoked \subseteq issued
        BY DEF IInv, Rest
  <1>2. Table(reservations')
        BY <1>1, TablePart
  <1>3. /\ shares' \in [Shares -> ShareRow]
        /\ \A r \in Shares : r # s => shares'[r] = shares[r]
        /\ shares'[s].state # "deleted"
        /\ shares'[s].files = row.files /\ shares'[s].total = row.total
        /\ shares'[s].epoch = IF changes THEN shares[s].epoch + 1
                                         ELSE shares[s].epoch
    <2>1. CASE changes
      <3> DEFINE new == [row EXCEPT !.epoch = @ + 1]
      <3>1. /\ new \in ShareRow /\ new.state = row.state
            /\ new.files = row.files /\ new.total = row.total
            /\ new.epoch = shares[s].epoch + 1
            BY DEF ShareRow
      <3>2. shares' = [shares EXCEPT ![s] = new]
            BY <2>1 DEF Revise
      <3> HIDE DEF new
      <3>3. QED BY <1>1, <2>1, <3>1, <3>2
    <2>2. CASE ~changes
      <3>1. shares' = [shares EXCEPT ![s] = row]
            BY <2>2 DEF Revise
      <3>2. QED BY <1>1, <2>2, <3>1
    <2>3. QED BY <2>1, <2>2
  <1>4. Epochs(reservations', shares', revoked')
    <2> SUFFICES ASSUME NEW t \in DOMAIN reservations'
                 PROVE  LET r == reservations'[t].share
                        IN  /\ shares'[r].state # "deleted"
                            /\ reservations'[t].epoch <= shares'[r].epoch
                            /\ t \in revoked' =>
                                  reservations'[t].epoch < shares'[r].epoch
        BY DEF Epochs
    <2> DEFINE r == reservations'[t].share
    <2>1. /\ t \in DOMAIN reservations /\ reservations'[t] = reservations[t]
          /\ r = reservations[t].share
          BY DEF Part
    <2>2. /\ r \in Shares /\ reservations'[t].epoch \in Nat
          /\ shares[r].epoch \in Nat
          BY <1>1, <2>1 DEF Table, Reservation, ShareRow
    <2>3. /\ shares[r].state # "deleted"
          /\ reservations'[t].epoch <= shares[r].epoch
          /\ t \in revoked => reservations'[t].epoch < shares[r].epoch
          BY <1>1, <2>1 DEF Epochs
    <2>4. t \in revoked' => t \in revoked \/ (changes /\ r = s)
          BY <2>1 DEF Revise
    <2> HIDE DEF r
    <2>5. CASE r # s
          BY <1>3, <2>2, <2>3, <2>4, <2>5 DEF r
    <2>6. CASE r = s
          BY <1>3, <2>2, <2>3, <2>4, <2>6 DEF r
    <2>7. QED BY <2>5, <2>6
  <1>5. ASSUME NEW r \in Shares, r # s PROVE QuotaOf(reservations', shares', usage', r)
    <2>1. QuotaOf(reservations', shares, usage, r)
          BY <1>1, QuotaPart DEF Quota
    <2>2. QED BY <1>3, <1>5, <2>1 DEF QuotaOf
  <1>6. QuotaOf(reservations', shares', usage', s)
    <2>1. CASE changes
      <3> DEFINE old == Of(reservations', s, shares[s].epoch)
      <3>1. /\ usage[s].files \in Nat /\ usage[s].bytes \in Nat
            /\ row.files \in Nat /\ row.total \in Nat
            /\ shares[s].epoch \in Nat
            BY <1>1, LimitsAssumption DEF UsageRow, ShareRow
      <3>2. Cardinality(old) \in Nat /\ Reserved(reservations', old) \in Nat
            BY <1>2, OfFinite
      <3>3. Of(reservations', s, shares'[s].epoch) = {}
        <4>1. \A t \in DOMAIN reservations' : reservations'[t].share = s =>
                 /\ reservations'[t].epoch \in Nat
                 /\ reservations'[t].epoch <= shares[s].epoch
              BY <1>1, <1>2 DEF Part, Epochs, Table, Reservation
        <4>2. QED BY <1>3, <2>1, <3>1, <4>1 DEF Of
      <3>4. Reserved(reservations', {}) = 0 /\ Cardinality({}) = 0
            BY UnitsNone, FS_EmptySet
      <3> HIDE DEF old
      <3>5. usage[s].files + 0 <= row.files /\ usage[s].bytes + 0 <= row.total
            BY <3>1, <3>2 DEF old
      <3>6. usage'[s].files + Cardinality(Of(reservations', s, shares'[s].epoch))
               <= shares'[s].files
            BY <1>3, <3>3, <3>4, <3>5
      <3>7. usage'[s].bytes
               + Reserved(reservations', Of(reservations', s, shares'[s].epoch))
               <= shares'[s].total
            BY <1>3, <3>3, <3>4, <3>5
      <3>8. QED BY <3>6, <3>7 DEF QuotaOf
    <2>2. CASE ~changes
          BY <1>3, <2>2 DEF QuotaOf
    <2>3. QED BY <2>1, <2>2
  <1>7. Rest'
    <2>1. revoked' \subseteq issued
          BY <1>1 DEF Revise
    <2>2. DOMAIN reservations' \subseteq issued
          BY <1>1 DEF Part
    <2>3. QED BY <1>1, <1>3, <2>1, <2>2 DEF IInv, Rest
  <1>8. QED BY <1>2, <1>4, <1>5, <1>6, <1>7 DEF IInv, Quota

(* Changes that keep the limits are covered by the quota itself. *)
LEMMA StepReviseSameLimits ==
    ASSUME IInv, NEW s \in Shares, Exists(s), NEW row \in ShareRow,
           row.epoch = shares[s].epoch, row.state # "deleted",
           row.files = shares[s].files, row.total = shares[s].total,
           NEW changes \in BOOLEAN, Revise(s, row, changes),
           Part(reservations', reservations),
           UNCHANGED <<clock, usage, issued, charged>>
    PROVE  IInv'
  <1>1. QuotaOf(reservations', shares, usage, s)
        BY QuotaPart DEF IInv, Rest, Quota
  <1>2. QED BY <1>1, StepRevise DEF QuotaOf

LEMMA StepShareChanges ==
    ASSUME IInv, NEW s \in Shares,
           \/ \E state \in {"active", "inactive"} : set_share_active(s, state)
           \/ deactivate_shares_for_path(s)
           \/ RenameOrPassword(s)
    PROVE  IInv'
  <1>1. /\ shares[s] \in ShareRow
        /\ UNCHANGED <<clock, usage, reservations, issued, charged>> /\ Exists(s)
        BY DEF IInv, Rest, set_share_active, deactivate_shares_for_path,
               RenameOrPassword, Exists
  <1>2. Part(reservations', reservations)
        BY <1>1 DEF IInv, Table, Part
  <1>3. PICK state \in {"active", "inactive"}, changes \in BOOLEAN :
           \/ Revise(s, [shares[s] EXCEPT !.state = state], changes)
           \/ Revise(s, shares[s], changes)
        BY DEF set_share_active, deactivate_shares_for_path, RenameOrPassword
  <1>4. CASE Revise(s, shares[s], changes)
        BY <1>1, <1>2, <1>4, StepReviseSameLimits DEF Exists
  <1>5. CASE Revise(s, [shares[s] EXCEPT !.state = state], changes)
    <2> DEFINE row == [shares[s] EXCEPT !.state = state]
    <2>1. /\ row \in ShareRow /\ row.epoch = shares[s].epoch
          /\ row.state # "deleted" /\ row.files = shares[s].files
          /\ row.total = shares[s].total
          BY <1>1 DEF ShareRow
    <2>2. Revise(s, row, changes)
          BY <1>5
    <2> HIDE DEF row
    <2>3. QED BY <1>1, <1>2, <2>1, <2>2, StepReviseSameLimits
  <1>6. QED BY <1>3, <1>4, <1>5

LEMMA StepUpdateControls ==
    ASSUME IInv, NEW s \in Shares, NEW state \in {"active", "inactive"},
           NEW strategyChanges \in BOOLEAN,
           update_share_controls(s, state, strategyChanges)
    PROVE  IInv'
  <1> DEFINE rs  == Purge(reservations, clock)
             row == [shares[s] EXCEPT !.state = state]
  <1>1. /\ Part(rs, reservations) /\ Table(rs)
        BY Purged
  <1>2. /\ shares[s] \in ShareRow /\ usage \in [Shares -> UsageRow]
        /\ clock \in Nat /\ reservations' = rs
        /\ UNCHANGED <<clock, usage, issued, charged>>
        BY DEF IInv, Rest, update_share_controls
  <1>3. /\ row \in ShareRow /\ row.epoch = shares[s].epoch
        /\ row.state # "deleted" /\ row.files = shares[s].files
        /\ row.total = shares[s].total
        BY <1>2 DEF ShareRow
  <1>4. CASE UNCHANGED <<shares, revoked>>
        BY <1>1, <1>2, <1>4, StepShrink
  <1>5. CASE Exists(s) /\ Revise(s, row, row # shares[s] \/ strategyChanges)
    <2>1. PICK changes \in BOOLEAN : Revise(s, row, changes)
          BY <1>5
    <2>2. Exists(s) /\ Part(reservations', reservations)
          BY <1>1, <1>2, <1>5
    <2> HIDE DEF rs, row
    <2>3. QED BY <1>2, <1>3, <2>1, <2>2, StepReviseSameLimits
  <1>6. ASSUME NEW total \in TotalLimits, NEW files \in FileLimits, Exists(s),
               ~QuotaConflict(rs, s, total, files),
               LET limited == [row EXCEPT !.total = total, !.files = files]
               IN  Revise(s, limited, limited # shares[s] \/ strategyChanges)
        PROVE  IInv'
    <2> DEFINE limited == [row EXCEPT !.total = total, !.files = files]
               current == Of(rs, s, shares[s].epoch)
    <2>1. /\ limited \in ShareRow /\ limited.epoch = shares[s].epoch
          /\ limited.state # "deleted"
          /\ limited.files = files /\ limited.total = total
          BY <1>2, <1>3 DEF ShareRow
    <2>2. PICK changes \in BOOLEAN : Revise(s, limited, changes)
          BY <1>6
    <2>3. /\ ~(total < usage[s].bytes + Reserved(rs, current))
          /\ ~(files < usage[s].files + Cardinality(current))
          BY <1>6 DEF QuotaConflict
    <2>4. Cardinality(current) \in Nat /\ Reserved(rs, current) \in Nat
          BY <1>1, OfFinite
    <2>5. /\ usage[s].files \in Nat /\ usage[s].bytes \in Nat
          /\ total \in Nat /\ files \in Nat
          BY <1>2, LimitsAssumption DEF UsageRow
    <2> HIDE DEF limited, row, rs
    <2>6. /\ usage[s].files + Cardinality(current) <= limited.files
          /\ usage[s].bytes + Reserved(rs, current) <= limited.total
          BY <2>1, <2>3, <2>4, <2>5
    <2>7. /\ usage[s].files
               + Cardinality(Of(reservations', s, shares[s].epoch)) <= limited.files
          /\ usage[s].bytes
               + Reserved(reservations', Of(reservations', s, shares[s].epoch))
               <= limited.total
          BY <1>2, <2>6
    <2>8. Part(reservations', reservations)
          BY <1>1, <1>2
    <2>9. QED BY <1>2, <1>6, <2>1, <2>2, <2>7, <2>8, StepRevise
  <1>7. QED BY <1>4, <1>5, <1>6 DEF update_share_controls

(* A share whose reservations and usage are gone is within any limits. *)
LEMMA QuotaEmpty ==
    ASSUME NEW rs, NEW sh \in [Shares -> ShareRow], NEW us, NEW s \in Shares,
           us[s] = NoUsage, \A t \in DOMAIN rs : rs[t].share # s
    PROVE  QuotaOf(rs, sh, us, s)
  <1> DEFINE current == Of(rs, s, sh[s].epoch)
  <1>1. current = {}
        BY DEF Of
  <1>2. Reserved(rs, {}) = 0 /\ Cardinality({}) = 0
        BY UnitsNone, FS_EmptySet
  <1>3. us[s].files = 0 /\ us[s].bytes = 0
        BY DEF NoUsage
  <1>4. sh[s].files \in Nat /\ sh[s].total \in Nat
        BY LimitsAssumption DEF ShareRow
  <1>5. ASSUME NEW m \in Nat PROVE 0 + 0 <= m
        OBVIOUS
  <1> HIDE DEF current
  <1>6. QED BY <1>1, <1>2, <1>3, <1>4, <1>5 DEF QuotaOf, current

LEMMA StepDelete ==
    ASSUME IInv, NEW s \in Shares, delete_share(s)
    PROVE  IInv'
  <1>1. /\ shares \in [Shares -> ShareRow] /\ usage \in [Shares -> UsageRow]
        /\ Table(reservations) /\ Epochs(reservations, shares, revoked)
        /\ Quota(reservations, shares, usage)
        /\ DOMAIN reservations \subseteq issued /\ revoked \subseteq issued
        BY DEF IInv, Rest
  <1>2. /\ shares' \in [Shares -> ShareRow]
        /\ \A r \in Shares : r # s => shares'[r] = shares[r]
        /\ \A r \in Shares : shares'[r].epoch = shares[r].epoch
        BY <1>1 DEF delete_share, ShareRow
  <1>3. NoUsage \in UsageRow /\ NoUsage.directories = 0
        BY DEF NoUsage, UsageRow
  <1>4. /\ usage' \in [Shares -> UsageRow]
        /\ \A r \in Shares : r # s => usage'[r] = usage[r]
        /\ usage'[s] = NoUsage
        /\ UNCHANGED <<clock, issued, charged>>
        BY <1>1, <1>3 DEF delete_share
  <1>5. /\ Part(reservations', reservations)
        /\ \A t \in DOMAIN reservations' : reservations'[t].share # s
        BY DEF delete_share, Part, Keep
  <1>6. revoked' \subseteq issued
        /\ \A t \in DOMAIN reservations' : t \in revoked' => t \in revoked
        BY <1>1 DEF delete_share, Keep
  <1>7. Table(reservations')
        BY <1>1, <1>5, TablePart
  <1>8. Epochs(reservations', shares', revoked')
        BY <1>1, <1>2, <1>5, <1>6 DEF Epochs, Part, Table, Reservation
  <1>9. ASSUME NEW r \in Shares PROVE QuotaOf(reservations', shares', usage', r)
    <2>1. CASE r = s
          BY <1>2, <1>4, <1>5, <2>1, QuotaEmpty
    <2>2. CASE r # s
      <3>1. QuotaOf(reservations', shares, usage, r)
            BY <1>1, <1>5, QuotaPart DEF Quota
      <3>2. QED BY <1>2, <1>4, <2>2, <3>1 DEF QuotaOf
    <2>3. QED BY <2>1, <2>2
  <1>10. Rest'
    <2>1. \A r \in Shares : usage'[r].directories <= MaxDirectories
          BY <1>3, <1>4, LimitsAssumption DEF IInv, Rest
    <2>2. \A r \in Shares : shares'[r].state = "deleted" => usage'[r] = NoUsage
          BY <1>2, <1>4 DEF IInv, Rest
    <2>3. DOMAIN reservations' \subseteq issued'
          BY <1>1, <1>4, <1>5 DEF Part
    <2>4. QED BY <1>2, <1>4, <1>6, <2>1, <2>2, <2>3 DEF IInv, Rest
  <1>11. QED BY <1>7, <1>8, <1>9, <1>10 DEF IInv, Quota

LEMMA StepCreate ==
    ASSUME IInv, NEW s \in Shares, create_share(s)
    PROVE  IInv'
  <1>1. /\ shares \in [Shares -> ShareRow] /\ usage \in [Shares -> UsageRow]
        /\ Table(reservations) /\ Epochs(reservations, shares, revoked)
        /\ Quota(reservations, shares, usage)
        /\ UNCHANGED <<clock, usage, reservations, issued, revoked, charged>>
        BY DEF IInv, Rest, create_share
  <1>2. usage[s] = NoUsage /\ \A t \in DOMAIN reservations : reservations[t].share # s
        BY <1>1 DEF create_share, Exists, IInv, Rest, Epochs
  <1>3. /\ shares' \in [Shares -> ShareRow]
        /\ \A r \in Shares : r # s => shares'[r] = shares[r]
        /\ shares'[s].state = "active"
        BY <1>1 DEF create_share, NewShare, ShareRow
  <1>4. Epochs(reservations, shares', revoked)
        BY <1>1, <1>2, <1>3 DEF Epochs, Table, Reservation
  <1>5. ASSUME NEW r \in Shares PROVE QuotaOf(reservations, shares', usage, r)
    <2>1. CASE r = s
          BY <1>2, <1>3, <2>1, QuotaEmpty
    <2>2. CASE r # s
          BY <1>1, <1>3, <2>2 DEF Quota, QuotaOf
    <2>3. QED BY <2>1, <2>2
  <1>6. Rest'
        BY <1>1, <1>3 DEF IInv, Rest
  <1>7. QED BY <1>1, <1>4, <1>5, <1>6 DEF IInv, Quota

LEMMA NextIInv == IInv /\ [Next]_vars => IInv'
  <1> SUFFICES ASSUME IInv, [Next]_vars PROVE IInv'
      OBVIOUS
  <1>0. clock \in Nat /\ Part(reservations, reservations)
        BY DEF IInv, Rest, Table, Part
  <1>1. ASSUME NEW t \in Tokens, NEW now \in 0 .. clock,
               \/ \E s \in Shares, epoch \in 0 .. MaxEpoch :
                     begin_upload_reservation(t, s, epoch, now)
               \/ \E minimum, preferred \in 0 .. MaxRequest :
                     extend_upload_reservation_up_to(t, minimum, preferred, now)
               \/ \E bytes, directories \in 0 .. MaxRequest :
                     commit_upload_reservation(t, bytes, directories, now)
        PROVE  IInv'
    <2>1. /\ now \in Nat /\ 0 .. MaxEpoch \subseteq Nat
          /\ 0 .. MaxRequest \subseteq Nat
          BY <1>0, LimitsAssumption, TimeAssumption
    <2>2. QED BY <1>1, <2>1, StepBegin, StepExtend, StepCommit
  <1>2. ASSUME NEW t \in Tokens, cancel_upload_reservation(t) PROVE IInv'
    <2>1. Part(Delete(reservations, t), reservations)
          BY DeletePart
    <2>2. QED BY <1>0, <1>2, <2>1, StepShrink DEF cancel_upload_reservation
  <1>3. ASSUME NEW s \in Shares,
               \/ \E state \in {"active", "inactive"} :
                     \/ set_share_active(s, state)
                     \/ \E strategyChanges \in BOOLEAN :
                           update_share_controls(s, state, strategyChanges)
               \/ deactivate_shares_for_path(s)
               \/ RenameOrPassword(s)
               \/ delete_share(s)
               \/ create_share(s)
        PROVE  IInv'
        BY <1>3, StepShareChanges, StepUpdateControls, StepDelete, StepCreate
  <1>4. CASE Tick
        BY <1>0, <1>4, StepShrink DEF Tick
  <1>5. CASE UNCHANGED vars
        BY <1>0, <1>5, StepShrink DEF vars
  <1>6. QED BY <1>1, <1>2, <1>3, <1>4, <1>5 DEF Next

-----------------------------------------------------------------------------
(* The inductive invariant holds in every behaviour. *)
THEOREM Inductive == Spec => []IInv
  BY InitIInv, NextIInv, PTL DEF Spec

(* Types, and the bound on created directories. *)
THEOREM TypeCorrect == Spec => []TypeOK
  BY Inductive, IInvImplies, PTL

(* Stored and reserved files stay within max_upload_files. *)
THEOREM FileQuotaHolds == Spec => []FileQuota
  BY Inductive, IInvImplies, PTL

(* Stored and reserved bytes stay within max_upload_total_size. *)
THEOREM ByteQuotaHolds == Spec => []ByteQuota
  BY Inductive, IInvImplies, PTL

(* Neither quota is exceeded by begin, extend, commit or a change of limits.   *)
THEOREM QuotasHold == Spec => []Quotas
  <1>1. IInv => Quotas
      BY IInvImplies DEF Quotas
  <1> QED BY <1>1, Inductive, PTL

LEMMA RevocationStep == IInv /\ [Next]_vars => [NoChargeAfterRevocationStep]_vars
  <1> SUFFICES ASSUME IInv, Next PROVE NoChargeAfterRevocationStep
      OBVIOUS
  <1>1. ASSUME NEW t \in Tokens, NEW now, NEW bytes, NEW directories,
               commit_upload_reservation(t, bytes, directories, now)
        PROVE  NoChargeAfterRevocationStep
    <2> DEFINE rs == Purge(reservations, now)
    <2>1. /\ Part(rs, reservations) /\ Epochs(rs, shares, revoked) /\ Table(rs)
          BY Purged
    <2>2. \/ charged' = charged
          \/ /\ charged' = charged \cup {t} /\ t \in DOMAIN rs
             /\ Available(rs[t].share, rs[t].epoch, now)
          BY <1>1 DEF commit_upload_reservation
    <2> HIDE DEF rs
    <2>3. CASE charged' = charged
          BY <2>3 DEF NoChargeAfterRevocationStep
    <2>4. CASE /\ charged' = charged \cup {t} /\ t \in DOMAIN rs
               /\ Available(rs[t].share, rs[t].epoch, now)
      <3>1. shares[rs[t].share].epoch = rs[t].epoch /\ rs[t].epoch \in Nat
            BY <2>1, <2>4 DEF Available, Table, Reservation
      <3>2. t \notin revoked
            BY <2>1, <2>4, <3>1 DEF Epochs
      <3>3. QED BY <2>4, <3>2 DEF NoChargeAfterRevocationStep
    <2>5. QED BY <2>2, <2>3, <2>4
  <1>2. CASE charged' = charged
        BY <1>2 DEF NoChargeAfterRevocationStep
  <1>3. ASSUME NEW t, NEW now, NEW s, NEW x, NEW y,
               \/ begin_upload_reservation(t, s, x, now)
               \/ extend_upload_reservation_up_to(t, x, y, now)
               \/ cancel_upload_reservation(t)
               \/ set_share_active(s, x)
               \/ update_share_controls(s, x, y)
        PROVE  charged' = charged
        BY <1>3 DEF begin_upload_reservation, extend_upload_reservation_up_to,
           cancel_upload_reservation, set_share_active, update_share_controls
  <1>4. ASSUME NEW s,
               \/ deactivate_shares_for_path(s)
               \/ RenameOrPassword(s)
               \/ delete_share(s)
               \/ create_share(s)
               \/ Tick
        PROVE  charged' = charged
        BY <1>4 DEF deactivate_shares_for_path, RenameOrPassword, delete_share,
           create_share, Tick
  <1>5. QED BY <1>1, <1>2, <1>3, <1>4 DEF Next

(* A reservation that a policy change has overtaken is never charged. *)
THEOREM NoChargeAfterRevocationHolds == Spec => NoChargeAfterRevocation
  BY Inductive, RevocationStep, PTL DEF Spec, NoChargeAfterRevocation

=============================================================================
