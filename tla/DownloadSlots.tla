--------------------------- MODULE DownloadSlots ---------------------------
(***************************************************************************)
(* What the download limit of a share promises, without leases, deadlines  *)
(* or clocks: a download reserves a slot, and a slot that was reserved is  *)
(* either counted, once, or free again.  A step may free any number of     *)
(* slots, of any share, besides what it is about.                          *)
(***************************************************************************)
EXTENDS Naturals, FiniteSets

CONSTANTS Shares, Holders, Limit, Unlimited

VARIABLES count,     \* share -> downloads counted
          reserved   \* share -> holders of a slot that is not counted yet

slots == <<count, reserved>>

Init ==
    /\ count = [s \in Shares |-> 0]
    /\ reserved = [s \in Shares |-> {}]

(* The shares of `some` only get slots back. *)
FreesOn(some) ==
    /\ reserved' \in [Shares -> SUBSET Holders]
    /\ \A s \in some : reserved'[s] \subseteq reserved[s]

Free == FreesOn(Shares) /\ UNCHANGED count

(* A new holder needs a slot that is neither counted nor reserved. *)
Reserve(s, h) ==
    /\ FreesOn(Shares \ {s})
    /\ h \in reserved'[s] /\ reserved'[s] \subseteq reserved[s] \cup {h}
    /\ Limit[s] # Unlimited => count[s] + Cardinality(reserved'[s]) <= Limit[s]
    /\ UNCHANGED count

Count(s, h) ==
    /\ FreesOn(Shares)
    /\ h \in reserved[s] \ reserved'[s]
    /\ count' = [count EXCEPT ![s] = @ + 1]

(* The row id of a deleted share is given to a new one. *)
StartAgain(s) ==
    /\ reserved[s] = {}
    /\ count' = [count EXCEPT ![s] = 0]
    /\ UNCHANGED reserved

Next ==
    \/ Free
    \/ \E s \in Shares :
          \/ \E h \in Holders : Reserve(s, h) \/ Count(s, h)
          \/ StartAgain(s)

Spec == Init /\ [][Next]_slots
=============================================================================
