-------------------------- MODULE TransferProgress --------------------------
(***************************************************************************)
(* The progress-aware queue budget of a transfer writer                    *)
(* (src/db/transfer_progress.rs).  Completed transfer work renews a        *)
(* waiting writer's inactivity budget, up to a fixed total.  The code      *)
(* keeps two instants instead of a history: the first and the last         *)
(* completion of the current uninterrupted streak; a writer looks at them  *)
(* only when the dispatcher happens to poll it.                            *)
(***************************************************************************)
EXTENDS Integers

CONSTANTS StallTimeout,    \* TRANSFER_STALL_TIMEOUT
          MaxQueueTime,    \* TRANSFER_MAX_QUEUE_TIME
          LastInstant,     \* bound: the last instant of a behaviour
          Never            \* no completion yet, or no writer queued

CompletionStreak == [first : Nat, last : Nat]
TransferAdmissionBudget == [started : Nat, deadline : Nat, hard_deadline : Nat]

ASSUME ProgressAssumption ==
    /\ StallTimeout \in Nat \ {0}
    /\ MaxQueueTime \in Nat /\ MaxQueueTime >= StallTimeout
    /\ LastInstant \in Nat
    /\ Never \notin Int \cup CompletionStreak \cup TransferAdmissionBudget

VARIABLES now,           \* Instant::now()
          streak,        \* Option<CompletionStreak>
          completions,   \* history: the instants of all completions
          budget         \* TransferAdmissionBudget of the queued writer

progressVars == <<now, streak, completions, budget>>

ProgressInit ==
    /\ now = 0
    /\ streak = Never
    /\ completions = {}
    /\ budget = Never

ProgressTick == /\ now < LastInstant
        /\ now' = now + 1
        /\ UNCHANGED <<streak, completions, budget>>

(* completed_at: extend the streak unless the last completion is too old. *)
StreakAt(s, t) ==
    IF s # Never /\ t < s.last + StallTimeout
    THEN [s EXCEPT !.last = t] ELSE [first |-> t, last |-> t]
completed_at ==
    /\ streak' = StreakAt(streak, now)
    /\ completions' = completions \cup {now}
    /\ UNCHANGED <<now, budget>>

(* TransferAdmissionBudget::new *)
NewBudget(t) == [started |-> t, deadline |-> t + StallTimeout,
                 hard_deadline |-> t + MaxQueueTime]
Enter == /\ budget = Never
         /\ budget' = NewBudget(now)
         /\ UNCHANGED <<now, streak, completions>>

(* Mutant: any recorded completion extends the budget. *)
RefreshedByAny(b, s) ==
    IF s = Never THEN b.deadline
    ELSE LET extended == IF s.last + StallTimeout > b.deadline
                         THEN s.last + StallTimeout ELSE b.deadline
         IN  IF extended < b.hard_deadline THEN extended ELSE b.hard_deadline

refresh(b, s) ==
    IF s # Never /\ s.first < b.deadline
    THEN LET extended == IF s.last + StallTimeout > b.deadline
                         THEN s.last + StallTimeout ELSE b.deadline
         IN  IF extended < b.hard_deadline THEN extended ELSE b.hard_deadline
    ELSE b.deadline

(* A poll refreshes the deadline; an expired writer is rejected.  Admission *)
(* takes a writer out of the queue as well.                                 *)
Poll == /\ budget # Never
        /\ LET deadline == refresh(budget, streak)
           IN  budget' = IF now >= deadline THEN Never
                         ELSE [budget EXCEPT !.deadline = deadline]
        /\ UNCHANGED <<now, streak, completions>>
Admit == /\ budget # Never
         /\ budget' = Never
         /\ UNCHANGED <<now, streak, completions>>

ProgressNext == ProgressTick \/ completed_at \/ Enter \/ Poll \/ Admit
ProgressSpec == ProgressInit /\ [][ProgressNext]_progressVars

-----------------------------------------------------------------------------
(* Reference: since the writer entered the queue there was a full stall     *)
(* period without a completion, or the total time is used up.               *)
Stalled(b) ==
    \/ now >= b.hard_deadline
    \/ \E t \in {b.started} \cup {c \in completions : c >= b.started} :
          /\ now >= t + StallTimeout
          /\ ~ \E c \in completions : t < c /\ c < t + StallTimeout

(***************************************************************************)
(* A poll rejects a waiting writer exactly when its wait has contained a   *)
(* stall or has used up the total, however rarely and however late the     *)
(* writer was polled: two instants are as good as the whole history        *)
(* (refresh and completed_at, transfer_progress.rs:26-79).                 *)
(***************************************************************************)
BudgetExact ==
    budget # Never => (now >= refresh(budget, streak) <=> Stalled(budget))
=============================================================================
