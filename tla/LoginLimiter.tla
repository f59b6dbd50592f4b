---------------------------- MODULE LoginLimiter ----------------------------
(***************************************************************************)
(* The attempt limiter of auth.rs.  Up to LimiterCapacity keys have a      *)
(* history of their own; a key that finds no room shares the history of    *)
(* the overflow bucket it hashes to.  A history is the sequence of the     *)
(* ages of its attempts: the age of an attempt that has left the window    *)
(* stops at Window, and such an attempt stays until something prunes it.   *)
(* The mutex makes every operation one step; nothing in its critical       *)
(* section panics, so its recovery from poisoning is left out.             *)
(***************************************************************************)
EXTENDS Naturals, FiniteSets, Sequences

CONSTANTS
  LimiterKeys,      \* the strings attempts are recorded under
  Buckets,          \* overflow buckets
  LimiterCapacity,  \* MAX_LIMITER_KEYS
  MaxAttempts,      \* attempts a window allows
  Window            \* length of the window, in ticks

ASSUME LimiterAssumption ==
  /\ LimiterCapacity \in Nat \ {0}
  /\ MaxAttempts \in Nat \ {0} /\ Window \in Nat \ {0}

VARIABLES
  entries,   \* LimiterState.entries; an absent key has an empty history
  overflow,  \* LimiterState.overflow; an empty bucket has an empty history
  hash,      \* the bucket a key hashes to: random, and fixed for the process
  admitted   \* ghost: attempts admitted in the window since the last success

limiterVars == <<entries, overflow, hash, admitted>>

LimiterInit ==
  /\ entries = [k \in LimiterKeys |-> <<>>]
  /\ overflow = [b \in Buckets |-> <<>>]
  /\ hash \in [LimiterKeys -> Buckets]
  /\ admitted = [k \in LimiterKeys |-> <<>>]

Charged(order) == {order[i] : i \in DOMAIN order}
prune_history(history) == SelectSeq(history, LAMBDA age : age < Window)
Older(history) == [i \in DOMAIN history |-> IF history[i] < Window THEN history[i] + 1 ELSE Window]

-----------------------------------------------------------------------------
\* The maps as an attempt under `ks` finds them once it has pruned what it
\* touches, or everything when its turn for the periodic cleanup has come.
periodic_cleanup(ks, everything) ==
  [k \in LimiterKeys |-> IF everything \/ k \in ks THEN prune_history(entries[k]) ELSE entries[k]]
PrunedOverflow(ks, known, everything) ==
  [b \in Buckets |-> IF everything \/ \E k \in ks : known[k] = <<>> /\ hash[k] = b
                       THEN prune_history(overflow[b]) ELSE overflow[b]]

Occupied(histories) == {k \in DOMAIN histories : histories[k] # <<>>}
Room(known) == LimiterCapacity - Cardinality(Occupied(known))

\* Mutant: a bucket with attempts does not keep its keys from a free slot.
AnySlot(known, shared, k) == known[k] = <<>>

\* A new key may take a free slot, unless the bucket it may already have been
\* counted in still has attempts.
MayTakeSlot(known, shared, k) == known[k] = <<>> /\ shared[hash[k]] = <<>>

\* The keys with a history of their own.  They are placed in order: a new key
\* needs a slot that no earlier one takes.
Primary(known, shared, order) ==
  {order[i] : i \in {n \in DOMAIN order :
     \/ known[order[n]] # <<>>
     \/ /\ MayTakeSlot(known, shared, order[n])
        /\ Cardinality({m \in 1..(n - 1) : MayTakeSlot(known, shared, order[m])}) < Room(known)}}

\* Either every key is charged or none; a refusal keeps only the pruning.
check_and_record_attempts(order, everything) ==
  LET ks == Charged(order)
      known == periodic_cleanup(ks, everything)
      shared == PrunedOverflow(ks, known, everything)
      own == Primary(known, shared, order)
      buckets == {hash[k] : k \in ks \ own}
      admit == /\ \A k \in own : Len(known[k]) < MaxAttempts
               /\ \A b \in buckets : Len(shared[b]) < MaxAttempts
  IN /\ entries' = [k \in LimiterKeys |->
                      IF admit /\ k \in own THEN Append(known[k], 0) ELSE known[k]]
     /\ overflow' = [b \in Buckets |->
                      IF admit /\ b \in buckets THEN Append(shared[b], 0) ELSE shared[b]]
     /\ admitted' = [k \in LimiterKeys |->
                      IF admit /\ k \in ks THEN Append(admitted[k], 0) ELSE admitted[k]]
     /\ UNCHANGED hash

\* A success clears the key's own history and no shared one.
success(k) ==
  /\ entries' = [entries EXCEPT ![k] = <<>>]
  /\ admitted' = [admitted EXCEPT ![k] = <<>>]
  /\ UNCHANGED <<overflow, hash>>

\* Time passes.
LimiterTick ==
  /\ entries' = [k \in LimiterKeys |-> Older(entries[k])]
  /\ overflow' = [b \in Buckets |-> Older(overflow[b])]
  /\ admitted' = [k \in LimiterKeys |-> prune_history(Older(admitted[k]))]
  /\ UNCHANGED hash

\* An account or token is one key; the password of a share is charged to the
\* client and to the client's attempts on that share.
Orders == {<<k>> : k \in LimiterKeys} \cup
          {order \in LimiterKeys \X LimiterKeys : order[1] # order[2]}

LimiterNext ==
  \/ \E order \in Orders, everything \in BOOLEAN : check_and_record_attempts(order, everything)
  \/ \E k \in LimiterKeys : success(k)
  \/ LimiterTick

LimiterSpec == LimiterInit /\ [][LimiterNext]_limiterVars

-----------------------------------------------------------------------------
\* No key is admitted more than MaxAttempts times in one window without a
\* success in between, whichever way it moves between a history of its own
\* and an overflow bucket as other keys come and expire.
AttemptsLimited ==
  \A k \in LimiterKeys : Len(admitted[k]) <= MaxAttempts
=============================================================================
