--------------------------- MODULE ServiceProofs ----------------------------
(***************************************************************************)
(* What the service promises for every value of the constants: the time budget*)
(* of a transfer is exact, the use of a monitoring token is recorded on its own*)
(* row, and a first administrator is served only with a confirmed secret.  *)
(***************************************************************************)
EXTENDS TransferProgress, ServiceTokens, InitialSetup, TLAPS

-----------------------------------------------------------------------------
(* The time budget of a transfer                                           *)

ProgressTypes ==
  /\ now \in Nat /\ completions \in SUBSET (0 .. now)
  /\ streak \in CompletionStreak \cup {Never}
  /\ budget \in TransferAdmissionBudget \cup {Never}

\* A completion follows t before a stall.
Followed(t) == \E c \in completions : t < c /\ c < t + StallTimeout

\* The streak is the end of the history since the last stall.
StreakExact ==
  /\ streak = Never => completions = {}
  /\ streak # Never =>
       /\ streak.first \in completions /\ streak.last \in completions
       /\ \A c \in completions :
            /\ c <= streak.last
            /\ c < streak.first => c + StallTimeout <= streak.first
       /\ \A t \in streak.first .. (streak.last - 1) : Followed(t)
       /\ \/ \A c \in completions : c >= streak.first
          \/ \E p \in completions : p < streak.first /\
               \A c \in completions : c <= p \/ c >= streak.first

\* What a wait has to look at: its start, and the completions since.
Since(b) == {b.started} \cup {c \in completions : c >= b.started}

\* The deadline is a stall after some of these, and none before it is a stall.
DeadlineExact ==
  budget # Never =>
    /\ budget.started <= now
    /\ budget.hard_deadline = budget.started + MaxQueueTime
    /\ \E a \in Since(budget) :
         /\ budget.deadline = IF a + StallTimeout < budget.hard_deadline
                              THEN a + StallTimeout ELSE budget.hard_deadline
         /\ \A t \in Since(budget) : t < a => Followed(t)

ProgressInv == ProgressTypes /\ StreakExact /\ DeadlineExact

-----------------------------------------------------------------------------
USE ProgressAssumption DEF CompletionStreak, TransferAdmissionBudget

\* While time is left, a wait is stalled when the last instant that counts is a
\* stall ago.
LEMMA StalledSince ==
  ASSUME ProgressTypes, budget # Never, now < budget.hard_deadline,
         NEW m \in Since(budget), \A t \in Since(budget) : t < m => Followed(t),
         \A c \in completions : c <= m
  PROVE  Stalled(budget) <=> now >= m + StallTimeout
<1>1. /\ m \in Nat /\ now \in Nat /\ StallTimeout \in Nat /\ budget.hard_deadline \in Nat
      /\ \A t \in Since(budget) : t \in Nat
  BY DEF ProgressTypes, Since
<1>2. ASSUME now >= m + StallTimeout
      PROVE  Stalled(budget)
  <2>1. ~ \E c \in completions : m < c /\ c < m + StallTimeout
    BY <1>1 DEF ProgressTypes
  <2> QED BY <1>2, <2>1 DEF Stalled, Since
<1>3. ASSUME Stalled(budget)
      PROVE  now >= m + StallTimeout
  <2>1. PICK t \in Since(budget) : now >= t + StallTimeout /\ ~Followed(t)
    BY <1>1, <1>3 DEF Stalled, Since, Followed
  <2>2. t >= m /\ t \in Nat
    BY <1>1, <2>1
  <2> QED BY <1>1, <2>1, <2>2
<1> QED BY <1>2, <1>3

\* The streak tells what the deadline is to become, and whether it has passed.
LEMMA RefreshExact ==
  ASSUME ProgressInv, budget # Never
  PROVE  /\ now >= refresh(budget, streak) <=> Stalled(budget)
         /\ refresh(budget, streak) \in Nat
         /\ now < refresh(budget, streak) =>
              \E m \in Since(budget) :
                /\ refresh(budget, streak) = IF m + StallTimeout < budget.hard_deadline
                                             THEN m + StallTimeout ELSE budget.hard_deadline
                /\ \A t \in Since(budget) : t < m => Followed(t)
<1> DEFINE D == budget.deadline
           H == budget.hard_deadline
           r == refresh(budget, streak)
<1>1. PICK a \in Since(budget) :
        /\ D = IF a + StallTimeout < H THEN a + StallTimeout ELSE H
        /\ \A t \in Since(budget) : t < a => Followed(t)
  BY DEF ProgressInv, DeadlineExact
<1>2. /\ a \in Nat /\ now \in Nat /\ D \in Nat /\ H \in Nat /\ StallTimeout \in Nat /\ D <= H
      /\ budget.started \in Nat
      /\ \A c \in completions : c \in Nat /\ c <= now
      /\ \A t \in Since(budget) : t \in Nat /\ t <= now
  BY <1>1 DEF ProgressInv, ProgressTypes, DeadlineExact, Since
<1>3. streak # Never => streak.first \in Nat /\ streak.last \in Nat
  BY DEF ProgressInv, ProgressTypes
<1>4. r \in Nat /\ r <= H
  BY <1>2, <1>3 DEF refresh
<1>5. CASE now >= H
  <2>1. now >= r
    BY <1>2, <1>4, <1>5
  <2>2. Stalled(budget)
    BY <1>5 DEF Stalled
  <2> HIDE DEF r
  <2> QED BY <1>2, <1>4, <2>1, <2>2 DEF r
<1>6. CASE now < H /\ a + StallTimeout >= H
  <2>1. D = H
    BY <1>1, <1>2, <1>6
  <2>2. r = H
    BY <1>2, <1>3, <2>1 DEF refresh
  <2>3. ~Stalled(budget)
    <3>1. SUFFICES ASSUME NEW t \in Since(budget), now >= t + StallTimeout, ~Followed(t)
                   PROVE  FALSE
      BY <1>2, <1>6 DEF Stalled, Since, Followed
    <3>2. t < a
      BY <1>2, <1>6, <3>1
    <3> QED BY <1>1, <3>1, <3>2
  <2>4. r = IF a + StallTimeout < H THEN a + StallTimeout ELSE H
    BY <1>2, <1>6, <2>2
  <2> HIDE DEF r, H
  <2> QED BY <1>1, <1>2, <1>4, <1>6, <2>2, <2>3, <2>4 DEF r, H
<1>7. ASSUME NEW m \in Since(budget), \A t \in Since(budget) : t < m => Followed(t),
             \A c \in completions : c <= m, now < H,
             r = IF m + StallTimeout < H THEN m + StallTimeout ELSE H
      PROVE  /\ now >= r <=> Stalled(budget)
             /\ \E n \in Since(budget) :
                  /\ r = IF n + StallTimeout < H THEN n + StallTimeout ELSE H
                  /\ \A t \in Since(budget) : t < n => Followed(t)
  <2>1. Stalled(budget) <=> now >= m + StallTimeout
    BY <1>7, StalledSince DEF ProgressInv
  <2>2. m \in Nat
    BY <1>2
  <2> HIDE DEF r, H
  <2>3. now >= r <=> now >= m + StallTimeout
    BY <1>2, <1>7, <2>2
  <2> QED BY <1>7, <2>1, <2>3
<1>8. CASE now < H /\ a + StallTimeout < H /\ streak = Never
  <2>1. completions = {} /\ r = D /\ D = a + StallTimeout
    BY <1>1, <1>8 DEF ProgressInv, StreakExact, refresh
  <2>2. r = IF a + StallTimeout < H THEN a + StallTimeout ELSE H
    BY <1>8, <2>1
  <2> HIDE DEF r, H
  <2> QED BY <1>1, <1>4, <1>7, <1>8, <2>1, <2>2 DEF r, H
<1>9. CASE now < H /\ a + StallTimeout < H /\ streak # Never /\ streak.first < D
  <2> DEFINE m == IF streak.last > a THEN streak.last ELSE a
  <2>1. D = a + StallTimeout
    BY <1>1, <1>9
  <2>2. /\ streak.first \in completions /\ streak.last \in completions
        /\ \A c \in completions :
            /\ c <= streak.last
            /\ c < streak.first => c + StallTimeout <= streak.first
        /\ \A t \in streak.first .. (streak.last - 1) : Followed(t)
    BY <1>9 DEF ProgressInv, StreakExact
  <2>3. m \in Since(budget)
    BY <1>2, <1>3, <1>9, <2>2 DEF Since
  <2>4. \A c \in completions : c <= m
    BY <1>2, <1>3, <1>9, <2>2
  <2>5. r = IF m + StallTimeout < H THEN m + StallTimeout ELSE H
    BY <1>2, <1>3, <1>9, <2>1 DEF refresh
  <2>6. ASSUME NEW t \in Since(budget), t < m
        PROVE  Followed(t)
    <3>1. CASE t < a
      BY <1>1, <3>1
    <3>2. CASE t >= a /\ t \in completions
      <4>1. t >= streak.first
        BY <1>2, <1>3, <1>9, <2>1, <2>2, <3>2
      <4> QED BY <1>2, <1>3, <1>9, <2>2, <2>6, <3>2, <4>1
    <3>3. CASE t >= a /\ t \notin completions
      <4>1. t = a /\ streak.last > a
        BY <1>2, <1>3, <1>9, <2>6, <3>3 DEF Since
      <4>2. CASE streak.first > a
        BY <1>2, <1>3, <1>9, <2>1, <2>2, <4>1, <4>2 DEF Followed
      <4>3. CASE streak.first <= a
        BY <1>2, <1>3, <1>9, <2>1, <2>2, <4>1, <4>3
      <4> QED BY <1>2, <1>3, <1>9, <4>2, <4>3
    <3> QED BY <1>2, <3>1, <3>2, <3>3
  <2> HIDE DEF m, r, H
  <2> QED BY <1>4, <1>7, <1>9, <2>3, <2>4, <2>5, <2>6 DEF r, H
<1>10. CASE now < H /\ a + StallTimeout < H /\ streak # Never /\ streak.first >= D
  <2>1. D = a + StallTimeout /\ r = D
    BY <1>1, <1>2, <1>3, <1>10 DEF refresh
  <2>2. /\ streak.first \in completions
        /\ \A c \in completions : c < streak.first => c + StallTimeout <= streak.first
        /\ \/ \A c \in completions : c >= streak.first
           \/ \E p \in completions : p < streak.first /\
                \A c \in completions : c <= p \/ c >= streak.first
    BY <1>10 DEF ProgressInv, StreakExact
  <2>3. now >= streak.first /\ now >= r
    BY <1>2, <1>3, <1>10, <2>1, <2>2
  <2>4. Stalled(budget)
    <3>1. CASE \A c \in completions : c >= streak.first \/ c <= a
      <4>1. now >= a + StallTimeout /\ ~ \E c \in completions : a < c /\ c < a + StallTimeout
        BY <1>2, <1>3, <1>10, <2>1, <2>3, <3>1
      <4> QED BY <1>1, <4>1 DEF Stalled, Since
    <3>2. ASSUME NEW p \in completions, p < streak.first, p > a,
                 \A c \in completions : c <= p \/ c >= streak.first
          PROVE  Stalled(budget)
      <4>1. p \in Since(budget)
        BY <1>1, <1>2, <3>2 DEF Since
      <4>2. now >= p + StallTimeout
        BY <1>2, <1>3, <1>10, <2>2, <2>3, <3>2
      <4>3. ~ \E c \in completions : p < c /\ c < p + StallTimeout
        BY <1>2, <1>3, <1>10, <2>2, <3>2
      <4> QED BY <4>1, <4>2, <4>3 DEF Stalled, Since
    <3> QED BY <1>2, <1>3, <1>10, <2>2, <3>1, <3>2
  <2> HIDE DEF r
  <2> QED BY <1>2, <1>4, <2>3, <2>4 DEF r
<1>11. now >= H \/ now < H
  BY <1>2
<1> QED BY <1>2, <1>3, <1>5, <1>6, <1>8, <1>9, <1>10

LEMMA ProgressStepInv ==
  ASSUME ProgressInv, [ProgressNext]_progressVars
  PROVE  ProgressInv'
<1>1. CASE ProgressTick
  BY <1>1 DEF ProgressTick, ProgressInv, ProgressTypes, StreakExact, DeadlineExact, Since, Followed
<1>2. CASE completed_at
  <2>1. ProgressTypes'
    BY <1>2 DEF completed_at, StreakAt, ProgressInv, ProgressTypes
  <2>2. \A t : Followed(t) => Followed(t)'
    BY <1>2 DEF completed_at, Followed
  <2>3. DeadlineExact'
    <3>1. SUFFICES ASSUME budget # Never
                   PROVE  DeadlineExact'
      BY <1>2 DEF completed_at, DeadlineExact
    <3>2. PICK a \in Since(budget) :
             /\ budget.deadline = IF a + StallTimeout < budget.hard_deadline
                                  THEN a + StallTimeout ELSE budget.hard_deadline
             /\ \A t \in Since(budget) : t < a => Followed(t)
      BY <3>1 DEF ProgressInv, DeadlineExact
    <3>3. /\ a \in Nat /\ a <= now /\ now \in Nat
          /\ budget.started \in Nat /\ budget.started <= now
      <4>1. budget.started \in Nat /\ budget.started <= now /\ now \in Nat
        BY <3>1 DEF ProgressInv, ProgressTypes, DeadlineExact
      <4>2. a = budget.started \/ a \in completions
        BY <3>2 DEF Since
      <4>3. \A c \in completions : c \in Nat /\ c <= now
        BY DEF ProgressInv, ProgressTypes
      <4> QED BY <4>1, <4>2, <4>3
    <3>6. Since(budget)' = Since(budget) \cup {now}
      BY <1>2, <3>3 DEF completed_at, Since
    <3>4. ASSUME NEW t \in Since(budget)', t < a
          PROVE  Followed(t)'
      <4>1. t \in Since(budget)
        BY <3>3, <3>4, <3>6
      <4> QED BY <2>2, <3>2, <3>4, <4>1
    <3>5. budget' = budget /\ now' = now
      BY <1>2 DEF completed_at
    <3> QED BY <3>1, <3>2, <3>3, <3>4, <3>5, <3>6 DEF ProgressInv, DeadlineExact
  <2>4. StreakExact'
    <3>1. /\ now \in Nat /\ completions' = completions \cup {now}
          /\ \A c \in completions : c \in Nat /\ c <= now
      BY <1>2 DEF completed_at, ProgressInv, ProgressTypes
    <3>2. CASE streak = Never
      <4>1. completions' = {now} /\ streak' = [first |-> now, last |-> now]
        BY <1>2, <3>1, <3>2 DEF completed_at, StreakAt, ProgressInv, StreakExact
      <4> QED BY <3>1, <4>1 DEF StreakExact
    <3>3. CASE streak # Never /\ now >= streak.last + StallTimeout
      <4>1. streak' = [first |-> now, last |-> now] /\ streak.last \in Nat
        BY <1>2, <3>1, <3>3 DEF completed_at, StreakAt, ProgressInv, ProgressTypes
      <4>2. /\ streak.last \in completions /\ streak.last < now
            /\ \A c \in completions : c <= streak.last
        BY <3>1, <3>3, <4>1 DEF ProgressInv, StreakExact
      <4>3. /\ streak'.first = now /\ streak'.last = now
            /\ \A c \in completions' : c <= now /\ (c < now => c + StallTimeout <= now)
            /\ \A c \in completions' : c <= streak.last \/ c >= now
        BY <3>1, <3>3, <4>1, <4>2
      <4> QED BY <3>1, <4>1, <4>2, <4>3 DEF StreakExact
    <3>4. CASE streak # Never /\ now < streak.last + StallTimeout
      <4>1. /\ streak'.first = streak.first /\ streak'.last = now /\ streak' # Never
            /\ streak.first \in Nat /\ streak.last \in Nat
        BY <1>2, <2>1, <3>4 DEF completed_at, StreakAt, ProgressInv, ProgressTypes
      <4>2. /\ streak.first \in completions /\ streak.last \in completions
            /\ \A c \in completions :
                 /\ c <= streak.last
                 /\ c < streak.first => c + StallTimeout <= streak.first
            /\ \A t \in streak.first .. (streak.last - 1) : Followed(t)
            /\ \/ \A c \in completions : c >= streak.first
               \/ \E p \in completions : p < streak.first /\
                    \A c \in completions : c <= p \/ c >= streak.first
        BY <3>4 DEF ProgressInv, StreakExact
      <4>3. \A c \in completions' : c <= now
        BY <3>1
      <4>4. \A c \in completions' : c < streak.first => c + StallTimeout <= streak.first
        BY <3>1, <3>4, <4>1, <4>2
      <4>5. ASSUME NEW t \in streak.first .. (now - 1)
            PROVE  Followed(t)'
        <5>1. CASE t < streak.last
          <6>1. Followed(t)
            BY <3>1, <4>1, <4>2, <5>1
          <6> QED BY <2>2, <6>1
        <5>2. CASE t >= streak.last
          BY <3>1, <3>4, <4>1, <4>5, <5>2 DEF Followed
        <5> QED BY <4>1, <5>1, <5>2
      <4>6. \/ \A c \in completions' : c >= streak.first
            \/ \E p \in completions' : p < streak.first /\
                 \A c \in completions' : c <= p \/ c >= streak.first
        BY <3>1, <4>1, <4>2
      <4> QED BY <3>1, <4>1, <4>2, <4>3, <4>4, <4>5, <4>6 DEF StreakExact
    <3> QED BY <3>1, <3>2, <3>3, <3>4 DEF ProgressInv, ProgressTypes
  <2> QED BY <2>1, <2>3, <2>4 DEF ProgressInv
<1>3. CASE Enter
  <2>1. budget' = [started |-> now, deadline |-> now + StallTimeout,
                   hard_deadline |-> now + MaxQueueTime] /\ now \in Nat
        /\ UNCHANGED <<now, streak, completions>>
    BY <1>3 DEF Enter, NewBudget, ProgressInv, ProgressTypes
  <2>2. ProgressTypes' /\ StreakExact'
    BY <2>1 DEF ProgressInv, ProgressTypes, StreakExact, Followed
  <2>3. now \in Since(budget)' /\ \A t \in Since(budget)' : t \in Nat /\ t >= now
    BY <2>1 DEF Since, ProgressInv, ProgressTypes
  <2>4. DeadlineExact'
    <3>1. ASSUME NEW t \in Since(budget)', t < now
          PROVE  FALSE
      <4>1. t \in Nat /\ t >= now /\ now \in Nat
        BY <2>1, <2>3, Zenon
      <4> QED BY <3>1, <4>1
    <3>2. now + StallTimeout = IF now + StallTimeout < now + MaxQueueTime
                               THEN now + StallTimeout ELSE now + MaxQueueTime
      BY <2>1
    <3> QED BY <2>1, <2>3, <3>1, <3>2 DEF DeadlineExact
  <2> QED BY <2>2, <2>4 DEF ProgressInv
<1>4. CASE Poll
  <2> DEFINE r == refresh(budget, streak)
  <2>1. UNCHANGED <<now, streak, completions>> /\ budget # Never
    BY <1>4 DEF Poll
  <2>2. StreakExact' /\ \A t : Followed(t)' <=> Followed(t)
    BY <2>1 DEF ProgressInv, StreakExact, Followed
  <2>3. CASE budget' = Never
    BY <2>1, <2>2, <2>3 DEF ProgressInv, ProgressTypes, DeadlineExact
  <2>4. CASE now < r /\ budget' = [budget EXCEPT !.deadline = r]
    <3>1. /\ r \in Nat
          /\ \E m \in Since(budget) :
                /\ r = IF m + StallTimeout < budget.hard_deadline
                       THEN m + StallTimeout ELSE budget.hard_deadline
                /\ \A t \in Since(budget) : t < m => Followed(t)
      BY <2>1, <2>4, RefreshExact
    <3> HIDE DEF r
    <3>2. /\ budget' \in TransferAdmissionBudget /\ budget'.deadline = r
          /\ budget'.started = budget.started /\ budget'.hard_deadline = budget.hard_deadline
      BY <2>1, <2>4, <3>1 DEF ProgressInv, ProgressTypes
    <3>3. Since(budget)' = Since(budget)
      BY <2>1, <3>2 DEF Since
    <3>4. DeadlineExact'
      BY <2>1, <2>2, <3>1, <3>2, <3>3 DEF ProgressInv, DeadlineExact
    <3> QED BY <2>1, <2>2, <3>2, <3>4 DEF ProgressInv, ProgressTypes
  <2>5. r \in Nat /\ now \in Nat
    BY <2>1, RefreshExact DEF ProgressInv, ProgressTypes
  <2> QED BY <1>4, <2>3, <2>4, <2>5 DEF Poll
<1>5. CASE Admit
  BY <1>5 DEF Admit, ProgressInv, ProgressTypes, StreakExact, DeadlineExact, Followed
<1>6. CASE UNCHANGED progressVars
  BY <1>6 DEF progressVars, ProgressInv, ProgressTypes, StreakExact, DeadlineExact, Followed, Since
<1> QED BY <1>1, <1>2, <1>3, <1>4, <1>5, <1>6 DEF ProgressNext

\* BudgetExact for every stall timeout and queue time and any number of
\* completions and polls: the two instants that refresh and completed_at keep
\* reject a writer exactly when its wait has contained a stall or used up its
\* total.
THEOREM BudgetIsExact == ProgressSpec => []BudgetExact
<1>1. ProgressInit => ProgressInv
  BY DEF ProgressInit, ProgressInv, ProgressTypes, StreakExact, DeadlineExact
<1>2. ProgressInv /\ [ProgressNext]_progressVars => ProgressInv'
  BY ProgressStepInv
<1>3. ProgressInv => BudgetExact
  BY RefreshExact DEF BudgetExact
<1> QED BY <1>1, <1>2, <1>3, PTL DEF ProgressSpec

HIDE ProgressAssumption DEF CompletionStreak, TransferAdmissionBudget

-----------------------------------------------------------------------------
(* Monitoring tokens                                                       *)

TokenTypes ==
  /\ rows \in [TokenIds -> TokenRow \cup {NoToken}]
  /\ sequence \in 0 .. LastTokenId
  /\ authorizing \in [Probes -> FoundToken \cup {NoToken}]
  /\ presented \in SUBSET TokenIds

\* No row and no request has an id that is still to be handed out.
HandedOut ==
  /\ \A i \in TokenIds : rows[i] # NoToken => i <= sequence
  /\ \A p \in Probes : authorizing[p] # NoToken =>
       authorizing[p].id <= sequence /\ authorizing[p].id \in presented

TokenInv == TokenTypes /\ HandedOut /\ UseIsOwn

-----------------------------------------------------------------------------
\* A mark changes one field of one row.
LEMMA Marked ==
  ASSUME rows \in [TokenIds -> TokenRow \cup {NoToken}], NEW id \in TokenIds, rows[id] # NoToken,
         NEW mark \in BOOLEAN,
         \/ rows' = [rows EXCEPT ![id].used = mark]
         \/ rows' = [rows EXCEPT ![id].expired = mark]
  PROVE  /\ rows' \in [TokenIds -> TokenRow \cup {NoToken}]
         /\ \A i \in TokenIds : i # id => rows'[i] = rows[i]
<1>1. rows[id] \in TokenRow
  OBVIOUS
<1>2. [rows[id] EXCEPT !.used = mark] \in TokenRow /\ [rows[id] EXCEPT !.expired = mark] \in TokenRow
  BY <1>1 DEF TokenRow
<1>3. \E row \in TokenRow : rows' = [rows EXCEPT ![id] = row]
  BY <1>2
<1> QED BY <1>3

LEMMA TokenStepInv ==
  ASSUME TokenInv, [ServiceTokensNext]_tokenVars
  PROVE  TokenInv'
<1> USE TokenAssumption DEF TokenIds, TokenRow, FoundToken, Issued
<1>0. TokenTypes /\ HandedOut /\ UseIsOwn
  BY DEF TokenInv
<1>1. ASSUME NEW c \in Creations, create_service_token(c)
      PROVE  TokenInv'
  <2>1. TokenTypes'
    BY <1>0, <1>1 DEF TokenTypes, create_service_token
  <2>2. HandedOut'
    BY <1>0, <1>1 DEF TokenTypes, HandedOut, create_service_token
  <2>3. UseIsOwn'
    BY <1>0, <1>1 DEF TokenTypes, HandedOut, UseIsOwn, create_service_token
  <2> QED BY <2>1, <2>2, <2>3 DEF TokenInv
<1>2. ASSUME NEW c \in Creations, NEW name \in TokenNames, NEW expires \in BOOLEAN,
             create_service_token_for_mfa_session(c, name, expires)
      PROVE  TokenInv'
  <2> DEFINE row == [name |-> name, expires |-> expires, expired |-> FALSE, used |-> FALSE]
  <2>1. row \in TokenRow
    OBVIOUS
  <2>2. row # NoToken /\ ~row.used
    BY <2>1, Zenon
  <2>3. /\ UNCHANGED authorizing
        /\ \/ UNCHANGED <<rows, sequence, presented>>
           \/ /\ sequence + 1 \in TokenIds /\ rows' = [rows EXCEPT ![sequence + 1] = row]
              /\ sequence' = sequence + 1 /\ presented' = presented \ {sequence + 1}
    <3>1. sequence \in Nat /\ sequence + 1 > sequence
      BY <1>0 DEF TokenTypes
    <3> QED BY <1>2, <3>1 DEF create_service_token_for_mfa_session, NextTokenId
  <2> HIDE DEF row
  <2>4. CASE UNCHANGED <<rows, sequence, presented>>
    BY <1>0, <2>3, <2>4 DEF TokenInv, TokenTypes, HandedOut, UseIsOwn
  <2>5. CASE /\ sequence + 1 \in TokenIds /\ rows' = [rows EXCEPT ![sequence + 1] = row]
             /\ sequence' = sequence + 1 /\ presented' = presented \ {sequence + 1}
    <3>1. TokenTypes'
      BY <1>0, <2>1, <2>3, <2>5 DEF TokenTypes
    <3>2. HandedOut'
      BY <1>0, <2>3, <2>5 DEF TokenTypes, HandedOut
    <3>3. UseIsOwn'
      BY <1>0, <2>2, <2>5 DEF TokenTypes, HandedOut, UseIsOwn
    <3> QED BY <3>1, <3>2, <3>3 DEF TokenInv
  <2> QED BY <2>3, <2>4, <2>5
<1>3. CASE ChangePassword
  <2>1. TokenTypes'
    BY <1>0, <1>3 DEF TokenTypes, ChangePassword
  <2>2. HandedOut'
    BY <1>0, <1>3 DEF TokenTypes, HandedOut, ChangePassword
  <2>3. UseIsOwn'
    BY <1>0, <1>3 DEF TokenTypes, HandedOut, UseIsOwn, ChangePassword
  <2> QED BY <2>1, <2>2, <2>3 DEF TokenInv
<1>4. ASSUME NEW p \in Probes, NEW id \in TokenIds, authorize_service_token(p, id)
      PROVE  TokenInv'
  <2>1. TokenTypes'
    BY <1>0, <1>4 DEF TokenTypes, authorize_service_token
  <2>2. HandedOut'
    BY <1>0, <1>4 DEF TokenTypes, HandedOut, authorize_service_token
  <2>3. UseIsOwn'
    BY <1>0, <1>4 DEF TokenTypes, HandedOut, UseIsOwn, authorize_service_token
  <2> QED BY <2>1, <2>2, <2>3 DEF TokenInv
<1>5. ASSUME NEW p \in Probes, TouchToken(p)
      PROVE  TokenInv'
  <2>1. TokenTypes'
    <3>1. rows' \in [TokenIds -> TokenRow \cup {NoToken}]
      <4>1. PICK id \in TokenIds : id = authorizing[p].id
        BY <1>0, <1>5 DEF TokenTypes, TouchToken
      <4> QED BY <1>0, <1>5, <4>1, Marked, Zenon DEF TokenTypes, TouchToken
    <3> QED BY <1>0, <1>5, <3>1 DEF TokenTypes, TouchToken
  <2>2. HandedOut'
    BY <1>0, <1>5 DEF TokenTypes, HandedOut, TouchToken
  <2>3. UseIsOwn'
    BY <1>0, <1>5 DEF TokenTypes, HandedOut, UseIsOwn, TouchToken
  <2> QED BY <2>1, <2>2, <2>3 DEF TokenInv
<1>6. ASSUME NEW id \in TokenIds, TouchIntervalOver(id)
      PROVE  TokenInv'
  <2>1. TokenTypes'
    BY <1>0, <1>6, Marked, Zenon DEF TokenTypes, TouchIntervalOver
  <2>2. HandedOut'
    BY <1>0, <1>6 DEF TokenTypes, HandedOut, TouchIntervalOver
  <2>3. UseIsOwn'
    BY <1>0, <1>6 DEF TokenTypes, HandedOut, UseIsOwn, TouchIntervalOver
  <2> QED BY <2>1, <2>2, <2>3 DEF TokenInv
<1>7. ASSUME NEW id \in TokenIds, TokenExpires(id)
      PROVE  TokenInv'
  <2>1. TokenTypes'
    BY <1>0, <1>7, Marked, Zenon DEF TokenTypes, TokenExpires
  <2>2. HandedOut'
    BY <1>0, <1>7 DEF TokenTypes, HandedOut, TokenExpires
  <2>3. UseIsOwn'
    BY <1>0, <1>7 DEF TokenTypes, HandedOut, UseIsOwn, TokenExpires
  <2> QED BY <2>1, <2>2, <2>3 DEF TokenInv
<1>8. ASSUME NEW id \in TokenIds, revoke_service_token_for_mfa_session(id)
      PROVE  TokenInv'
  <2>1. TokenTypes'
    BY <1>0, <1>8 DEF TokenTypes, revoke_service_token_for_mfa_session
  <2>2. HandedOut'
    BY <1>0, <1>8 DEF TokenTypes, HandedOut, revoke_service_token_for_mfa_session
  <2>3. UseIsOwn'
    BY <1>0, <1>8 DEF TokenTypes, HandedOut, UseIsOwn, revoke_service_token_for_mfa_session
  <2> QED BY <2>1, <2>2, <2>3 DEF TokenInv
<1>9. CASE revoke_all_service_tokens_and_audit
  <2>1. TokenTypes'
    BY <1>0, <1>9 DEF TokenTypes, revoke_all_service_tokens_and_audit
  <2>2. HandedOut'
    BY <1>0, <1>9 DEF TokenTypes, HandedOut, revoke_all_service_tokens_and_audit
  <2>3. UseIsOwn'
    BY <1>0, <1>9 DEF TokenTypes, HandedOut, UseIsOwn, revoke_all_service_tokens_and_audit
  <2> QED BY <2>1, <2>2, <2>3 DEF TokenInv
<1>10. CASE UNCHANGED tokenVars
  <2>1. TokenTypes'
    BY <1>0, <1>10 DEF TokenTypes, tokenVars
  <2>2. HandedOut'
    BY <1>0, <1>10 DEF TokenTypes, HandedOut, tokenVars
  <2>3. UseIsOwn'
    BY <1>0, <1>10 DEF TokenTypes, HandedOut, UseIsOwn, tokenVars
  <2> QED BY <2>1, <2>2, <2>3 DEF TokenInv
<1> QED BY <1>1, <1>2, <1>3, <1>4, <1>5, <1>6, <1>7, <1>8, <1>9, <1>10 DEF ServiceTokensNext

\* UseIsOwn for any number of tokens, requests and ids: the guarded UPDATE of
\* authorize_service_token, which names its row by id alone, marks no token but
\* the one its SELECT found, because AUTOINCREMENT hands an id out once.
THEOREM UsesAreOwn == ServiceTokensSpec => []UseIsOwn
<1>1. ServiceTokensInit => TokenInv
  BY TokenAssumption DEF ServiceTokensInit, TokenInv, TokenTypes, HandedOut, UseIsOwn, Issued,
    TokenIds
<1>2. TokenInv /\ [ServiceTokensNext]_tokenVars => TokenInv'
  BY TokenStepInv
<1>3. TokenInv => UseIsOwn
  BY DEF TokenInv
<1> QED BY <1>1, <1>2, <1>3, PTL DEF ServiceTokensSpec

-----------------------------------------------------------------------------
(* The first administrator                                                 *)

SetupTypes ==
  /\ disk.admin \in InitialAdmin \cup {Missing}
  /\ disk = [config |-> disk.config, pending |-> disk.pending, admin |-> disk.admin]
  /\ process \in {"down", "setup", "served", "plain"}
  /\ memory \in [container : BOOLEAN, prepared : BOOLEAN, completed : BOOLEAN,
                 start : {"possible", "requested"}]
  /\ submit \in Submission \cup {Missing}
  /\ command \in Command \cup {Missing}
  /\ secrets \in Nat

\* The administrator comes from the setup; its secret was shown.
Stored == disk.admin # Missing /\ disk.admin.by = "setup"
Confirmed == disk.admin # Missing /\ disk.admin.secret \in shown

\* The three parts of the setup appear in order, and the marker goes last.
DiskOrder ==
  Stored => /\ MarkerStands
            /\ disk.config # Missing
            /\ disk.pending = Missing => Confirmed

\* What the process remembers is so.
MemoryTrue ==
  /\ submit # Missing => process = "setup"
  /\ memory.prepared => process = "setup" /\ Confirmed /\ disk.config # Missing
  /\ memory.completed => memory.prepared
  /\ memory.start = "requested" => memory.completed
  /\ process = "served" =>
       disk.config # Missing /\ disk.admin # Missing /\ (Stored => Confirmed)

\* Where the submission stands; init-admin may have been faster.
SubmissionTrue ==
  submit # Missing =>
    /\ submit.recovering => disk.config # Missing
    /\ ~submit.recovering => ~memory.prepared
    /\ submit.wrote \/ submit.at = "configuring" => ~submit.recovering
    /\ submit.at \in {"configuring", "marking", "creating"} => ~Stored /\ submit.secret \in Nat
    /\ submit.at \in {"marking", "creating", "showing"} => disk.config # Missing
    /\ submit.at = "creating" => disk.pending = submit.form.user
    /\ submit.at = "showing" => disk.admin # Missing /\ submit.secret = disk.admin.secret

SetupInv == SetupTypes /\ DiskOrder /\ MemoryTrue /\ SubmissionTrue

-----------------------------------------------------------------------------
\* STEPS
USE SetupAssumption DEF InitialAdmin, Submission, Command

\* The process starts, stops, and ends its setup.
LEMMA ProcessStep ==
  ASSUME SetupInv,
         \/ \E container \in BOOLEAN : StartSetup(container)
         \/ StartService \/ Serve \/ Stop \/ start_server \/ SetupEnds \/ CancelSubmission
  PROVE  SetupInv' 
<1>1. ASSUME NEW container \in BOOLEAN, StartSetup(container)
      PROVE  SetupInv'
  BY <1>1 DEF SetupInv, SetupTypes, DiskOrder, MemoryTrue, SubmissionTrue,
    Stored, Confirmed, MarkerStands, StartSetup, Forgotten
<1>2. CASE StartService
  BY <1>2 DEF SetupInv, SetupTypes, DiskOrder, MemoryTrue, SubmissionTrue,
    Stored, Confirmed, MarkerStands, StartService, needs_setup
<1>3. CASE Serve
  BY <1>3 DEF SetupInv, SetupTypes, DiskOrder, MemoryTrue, SubmissionTrue,
    Stored, Confirmed, MarkerStands, Serve
<1>4. CASE Stop
  BY <1>4 DEF SetupInv, SetupTypes, DiskOrder, MemoryTrue, SubmissionTrue,
    Stored, Confirmed, MarkerStands, Stop, Forgotten
<1>5. CASE start_server
  BY <1>5 DEF SetupInv, SetupTypes, DiskOrder, MemoryTrue, SubmissionTrue,
    Stored, Confirmed, MarkerStands, start_server
<1>6. CASE SetupEnds
  BY <1>6 DEF SetupInv, SetupTypes, DiskOrder, MemoryTrue, SubmissionTrue,
    Stored, Confirmed, MarkerStands, SetupEnds, Forgotten
<1>7. CASE CancelSubmission
  BY <1>7 DEF SetupInv, SetupTypes, DiskOrder, MemoryTrue, SubmissionTrue,
    Stored, Confirmed, MarkerStands, CancelSubmission, At, Release
<1> QED BY <1>1, <1>2, <1>3, <1>4, <1>5, <1>6, <1>7

\* A form is submitted, its file written, and the setup confirmed.
LEMMA FormStep ==
  ASSUME SetupInv, NEW ok \in BOOLEAN, NEW also \in BOOLEAN,
         \/ \E form \in Forms : submit_setup(form) 
         \/ write_config_atomic_new(ok, also) \/ complete_setup(ok, also) \/ ShowSecret(ok)
  PROVE  SetupInv' 
<1>1. CASE \E form \in Forms : submit_setup(form)
  BY <1>1 DEF SetupInv, SetupTypes, DiskOrder, MemoryTrue, SubmissionTrue,
    Stored, Confirmed, MarkerStands, submit_setup
<1>2. CASE write_config_atomic_new(ok, also)
  BY <1>2, ZenonT(30) DEF SetupInv, SetupTypes, DiskOrder, MemoryTrue, SubmissionTrue,
    Stored, Confirmed, MarkerStands, write_config_atomic_new, At, Release
<1>3. CASE complete_setup(ok, also)
  BY <1>3 DEF SetupInv, SetupTypes, DiskOrder, MemoryTrue, SubmissionTrue,
    Stored, Confirmed, MarkerStands, complete_setup
<1>4. CASE ShowSecret(ok)
  BY <1>4, Zenon DEF SetupInv, SetupTypes, DiskOrder, MemoryTrue, SubmissionTrue,
    Stored, Confirmed, MarkerStands, ShowSecret, At, Release
<1> QED BY <1>1, <1>2, <1>3, <1>4

\* The administrator is stored, was stored by init-admin, or could not be.
LEMMA CreateStep ==
  ASSUME SetupInv, NEW ok \in BOOLEAN, NEW removed \in BOOLEAN,
         create_initial_admin_and_audit(ok, removed)
  PROVE  SetupInv'
<1>1. CASE ok /\ disk.admin = Missing
  BY <1>1 DEF SetupInv, SetupTypes, DiskOrder, MemoryTrue, SubmissionTrue,
    Stored, Confirmed, MarkerStands, create_initial_admin_and_audit, At, Go
<1>2. CASE ok /\ disk.admin # Missing
  BY <1>2 DEF SetupInv, SetupTypes, DiskOrder, MemoryTrue, SubmissionTrue,
    Stored, Confirmed, MarkerStands, create_initial_admin_and_audit, At, Release
<1>3. CASE ~ok
  BY <1>3 DEF SetupInv, SetupTypes, DiskOrder, MemoryTrue, SubmissionTrue,
    Stored, Confirmed, MarkerStands, create_initial_admin_and_audit, At, Release, RemoveConfig
<1> QED BY <1>1, <1>2, <1>3

\* The command line stores an administrator only where there is none.
LEMMA CommandStep ==
  ASSUME SetupInv, NEW ok \in BOOLEAN,
         \/ \E form \in Forms : InstallConfig(form) \/ init_admin(form)
         \/ InitAdminCreates(ok) \/ InitAdminEnds(ok)
  PROVE  SetupInv'
<1>1. ASSUME NEW form \in Forms, InstallConfig(form)
      PROVE  SetupInv'
  BY <1>1 DEF SetupInv, SetupTypes, DiskOrder, MemoryTrue, SubmissionTrue,
    Stored, Confirmed, MarkerStands, InstallConfig
<1>2. ASSUME NEW form \in Forms, init_admin(form)
      PROVE  SetupInv'
  BY <1>2 DEF SetupInv, SetupTypes, DiskOrder, MemoryTrue, SubmissionTrue,
    Stored, Confirmed, MarkerStands, init_admin
<1>3. CASE InitAdminCreates(ok)
  BY <1>3 DEF SetupInv, SetupTypes, DiskOrder, MemoryTrue, SubmissionTrue,
    Stored, Confirmed, MarkerStands, InitAdminCreates
<1>4. CASE InitAdminEnds(ok)
  BY <1>4 DEF SetupInv, SetupTypes, DiskOrder, MemoryTrue, SubmissionTrue,
    Stored, Confirmed, MarkerStands, InitAdminEnds
<1> QED BY <1>1, <1>2, <1>3, <1>4

\* The administrator of an earlier attempt, or a new secret.
LEMMA BuildStep ==
  ASSUME SetupInv, build_and_store
  PROVE  SetupInv'
<1> USE DEF At
<1>1. /\ submit \in Submission /\ submit.at = "hashing" /\ process = "setup"
      /\ UNCHANGED <<disk, process, memory, command, shown>>
  BY DEF build_and_store, SetupInv, SetupTypes
<1>2. CASE disk.admin # Missing /\ ~Recoverable /\ Release /\ UNCHANGED secrets
  BY <1>1, <1>2 DEF SetupInv, SetupTypes, DiskOrder, MemoryTrue, SubmissionTrue,
    Stored, Confirmed, MarkerStands, Release
<1>3. CASE /\ disk.admin # Missing /\ Recoverable /\ UNCHANGED secrets
           /\ submit' = [submit EXCEPT !.at = "showing", !.secret = disk.admin.secret]
  <2>1. /\ submit' \in Submission /\ submit'.at = "showing" /\ submit'.secret = disk.admin.secret
        /\ submit'.recovering = submit.recovering /\ submit'.wrote = submit.wrote
    BY <1>1, <1>3, Zenon DEF SetupInv, SetupTypes
  <2>2. submit.recovering
    BY <1>3 DEF Recoverable
  <2> QED BY <1>1, <1>3, <2>1, <2>2 DEF SetupInv, SetupTypes, DiskOrder, MemoryTrue, SubmissionTrue,
    Stored, Confirmed, MarkerStands
<1>4. CASE /\ disk.admin = Missing /\ secrets' = secrets + 1
           /\ submit' = [submit EXCEPT !.secret = secrets + 1,
                           !.at = IF submit.recovering THEN "marking" ELSE "configuring"]
  <2> DEFINE at == IF submit.recovering THEN "marking" ELSE "configuring"
  <2>a. at \in {"marking", "configuring"} /\ (at = "marking" <=> submit.recovering)
    BY <1>1
  <2>b. submit' = [submit EXCEPT !.secret = secrets + 1, !.at = at] /\ secrets + 1 \in Nat
    BY <1>4 DEF SetupInv, SetupTypes
  <2> HIDE DEF at
  <2>1. /\ submit' \in Submission /\ submit'.secret \in Nat /\ submit'.at = at
        /\ submit'.recovering = submit.recovering /\ submit'.wrote = submit.wrote
    BY <1>1, <2>a, <2>b, Zenon
  <2> QED BY <1>1, <1>4, <2>a, <2>1 DEF SetupInv, SetupTypes, DiskOrder, MemoryTrue, SubmissionTrue,
    Stored, Confirmed, MarkerStands
<1> QED BY <1>2, <1>3, <1>4 DEF build_and_store

\* The marker is written, stands already, or is somebody else's.
LEMMA MarkStep ==
  ASSUME SetupInv, NEW ok \in BOOLEAN, NEW removed \in BOOLEAN,
         ensure_initial_setup_pending(ok, removed)
  PROVE  SetupInv'
<1>1. /\ submit \in Submission /\ submit.at = "marking" /\ process = "setup"
      /\ ~Stored /\ disk.config # Missing /\ submit.secret \in Nat
      /\ UNCHANGED <<process, memory, command, secrets, shown>>
  BY Zenon DEF ensure_initial_setup_pending, At, SetupInv, SetupTypes, SubmissionTrue
<1>2. CASE disk' = [disk EXCEPT !.pending = submit.form.user] /\ Go("creating")
  <2>1. submit' \in Submission /\ submit'.at = "creating" /\ submit'.form = submit.form
        /\ submit'.secret = submit.secret /\ submit'.recovering = submit.recovering
        /\ submit'.wrote = submit.wrote
    BY <1>1, <1>2 DEF Go
  <2>2. disk'.pending = submit.form.user /\ disk'.admin = disk.admin /\ disk'.config = disk.config
    BY <1>2 DEF SetupInv, SetupTypes
  <2> QED BY <1>1, <1>2, <2>1, <2>2 DEF SetupInv, SetupTypes, DiskOrder, MemoryTrue, SubmissionTrue,
    Stored, Confirmed, MarkerStands
<1>3. ASSUME NEW left, Release,
             disk' = [disk EXCEPT !.pending = left, !.config = RemoveConfig(removed)]
      PROVE  SetupInv'
  <2>1. /\ disk' = [config |-> disk'.config, pending |-> disk'.pending, admin |-> disk.admin]
        /\ disk'.config = disk.config \/ submit.wrote
    BY <1>3 DEF SetupInv, SetupTypes, RemoveConfig
  <2> QED BY <1>1, <1>3, <2>1 DEF SetupInv, SetupTypes, DiskOrder, MemoryTrue, SubmissionTrue,
    Stored, Confirmed, MarkerStands, Release
<1> QED BY <1>2, <1>3, Zenon DEF ensure_initial_setup_pending

LEMMA SetupStepInv ==
  ASSUME SetupInv, [InitialSetupNext]_setupVars
  PROVE  SetupInv'
<1>1. CASE UNCHANGED setupVars
  BY <1>1 DEF SetupInv, SetupTypes, DiskOrder, MemoryTrue, SubmissionTrue,
    Stored, Confirmed, MarkerStands, setupVars
<1>2. CASE \/ \E container \in BOOLEAN : StartSetup(container)
           \/ StartService \/ Serve \/ Stop \/ start_server \/ SetupEnds \/ CancelSubmission
  BY <1>2, ProcessStep
<1>3. ASSUME NEW form \in Forms, submit_setup(form) \/ InstallConfig(form) \/ init_admin(form)
      PROVE  SetupInv'
  BY <1>3, FormStep, CommandStep, Zenon
<1>4. ASSUME NEW ok \in BOOLEAN, NEW also \in BOOLEAN,
             \/ write_config_atomic_new(ok, also) \/ ensure_initial_setup_pending(ok, also)
             \/ create_initial_admin_and_audit(ok, also) \/ complete_setup(ok, also)
      PROVE  SetupInv'
  BY <1>4, FormStep, MarkStep, CreateStep
<1>5. ASSUME NEW ok \in BOOLEAN, ShowSecret(ok) \/ InitAdminCreates(ok) \/ InitAdminEnds(ok)
      PROVE  SetupInv'
  BY <1>5, FormStep, CommandStep
<1> QED BY <1>1, <1>2, <1>3, <1>4, <1>5, BuildStep DEF InitialSetupNext

\* ServedSetupConfirmed for any forms and any number of attempts: wherever a setup
\* stops or fails, and whatever init-admin does beside it, the marker stands for an
\* administrator of the setup whose secret was not shown, and a service started by
\* container-start or from the setup page has an administrator, and none of the
\* setup whose secret was not shown (build_and_store, complete_setup, needs_setup).
THEOREM ServedIsConfirmed == InitialSetupSpec => []ServedSetupConfirmed
<1>1. InitialSetupInit => SetupInv
  BY DEF InitialSetupInit, SetupInv, SetupTypes, DiskOrder, MemoryTrue, SubmissionTrue,
    Stored, Confirmed, MarkerStands, Forgotten
<1>2. SetupInv /\ [InitialSetupNext]_setupVars => SetupInv'
  BY SetupStepInv
<1>3. SetupInv => ServedSetupConfirmed
  BY DEF SetupInv, DiskOrder, MemoryTrue, Stored, Confirmed, ServedSetupConfirmed
<1> QED BY <1>1, <1>2, <1>3, PTL DEF InitialSetupSpec
=============================================================================
