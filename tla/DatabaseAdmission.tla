------------------------- MODULE DatabaseAdmission -------------------------
(***************************************************************************)
(* Admission of database work: the class and global semaphores of          *)
(* src/db/database.rs, the job and the dispatcher thread of                *)
(* src/db/dispatch.rs, and the permits of src/db/model.rs.                 *)
(*                                                                         *)
(* A request polls its admission once on its own thread; if that poll does *)
(* not admit it, the job is queued and from then on only the dispatcher    *)
(* polls it, whenever a waker unparks it or a deadline passes.  A general  *)
(* job takes a general slot or borrows the transfer slot when it is free;  *)
(* a transfer job takes the transfer slot.  Both then take a global slot.  *)
(***************************************************************************)
EXTENDS Naturals, Sequences, FiniteSets, SequencesExt

CONSTANTS Jobs,               \* requests for database work
          TransferJobs,       \* the transfer writers among them
          PoolCapacity,       \* connections of the pool
          QueueCapacity,      \* TRANSFER_QUEUE_CAPACITY
          CanBorrow           \* general_can_borrow_transfer: a persistent pool

ASSUME AdmissionAssumption ==
    /\ TransferJobs \subseteq Jobs
    /\ PoolCapacity \in Nat \ {0}
    /\ QueueCapacity \in Nat \ {0}
    /\ CanBorrow \in BOOLEAN

VARIABLES sem,        \* the semaphores, their FIFO waiters and the Notify
          stage,      \* life of a request
          point,      \* the await its admission future stands at
          closed,     \* the requester dropped its receiver
          dispatcher  \* DispatchQueue, the drain loop and its unpark token

admissionVars == <<sem, stage, point, closed, dispatcher>>

Class == {"general", "transfer", "runtime"}
Capacity == [general  |-> IF PoolCapacity > 1 THEN PoolCapacity - 1 ELSE 1,
             transfer |-> 1, runtime |-> PoolCapacity]

-----------------------------------------------------------------------------
(* Tokio's fair semaphore and Notify, over a record of the `sem` shape.     *)

(* A released permit is assigned to the first waiter, or becomes free. *)
Give(s, c) ==
    IF s.line[c] = <<>> THEN [s EXCEPT !.free[c] = @ + 1]
    ELSE [s EXCEPT !.held[Head(s.line[c])] = @ \cup {c},
                   !.line[c] = Tail(@)]
Take(s, c, j) == [s EXCEPT !.free[c] = @ - 1, !.held[j] = @ \cup {c}]
Wait(s, c, j) ==
    IF j \in Range(s.line[c]) THEN s ELSE [s EXCEPT !.line[c] = Append(@, j)]
Leave(s, c, j) == [s EXCEPT !.line[c] = SelectSeq(@, LAMBDA k : k # j)]

notify_one(s) ==
    IF s.sleepers = <<>> THEN [s EXCEPT !.stored = TRUE]
    ELSE [s EXCEPT !.woken = @ \cup {Head(s.sleepers)},
                   !.sleepers = Tail(@)]
(* Dropping a Notified future passes a notification it received on. *)
DropNotified(s, j) ==
    LET t == [s EXCEPT !.sleepers = SelectSeq(@, LAMBDA k : k # j),
                       !.woken = @ \ {j}]
    IN  IF j \in s.woken THEN notify_one(t) ELSE t

(* Returning the permit of class c that job j holds. *)
Return(s, c, j) ==
    IF c \in s.held[j] THEN Give([s EXCEPT !.held[j] = @ \ {c}], c) ELSE s
(* Mutant: the slot is returned without waking a borrower or a writer. *)
DropSlotSilently(s, j) ==
    IF "transfer" \in s.held[j]
    THEN [s EXCEPT !.held[j] = @ \ {"transfer"}, !.free["transfer"] = @ + 1]
    ELSE s
DropTransferSlot(s, j) ==
    IF "transfer" \in s.held[j]
    THEN notify_one(Return(s, "transfer", j)) ELSE s
ReturnQueue(s, j) ==
    IF j \in s.queued THEN [s EXCEPT !.queued = @ \ {j}] ELSE s

(* A job whose next poll has something new to see. *)
Assigned(s, j) == point[j] \in {"class", "runtime"} /\
    \/ point[j] = "class" /\ s.held[j] \cap {"general", "transfer"} # {}
    \/ point[j] = "runtime" /\ "runtime" \in s.held[j]
Ready(s, j) == Assigned(s, j) \/ j \in s.woken

(***************************************************************************)
(* Dropping a job's admission future and queue permit: it leaves every     *)
(* line, forwards its notification and returns what it owns.  A transfer   *)
(* permit assigned but never polled is returned by the semaphore alone;    *)
(* once polled it is a TransferSlotPermit, whose Drop also notifies.       *)
(***************************************************************************)
DropJob(s, j) ==
    LET left == Leave(Leave(Leave(s, "general", j), "transfer", j), "runtime", j)
        slot == IF point[j] = "runtime"
                THEN DropTransferSlot(left, j) ELSE Return(left, "transfer", j)
        rest == Return(Return(slot, "general", j), "runtime", j)
    IN  ReturnQueue(DropNotified(rest, j), j)

-----------------------------------------------------------------------------
(* Polling the admission future; the result names the await it stops at.    *)

(* acquire_runtime_permit, first stage: biased towards a general slot; the  *)
(* transfer slot is only tried on the first poll and after a notification.  *)
PollGeneral(s, j) ==
    LET first  == point[j] = "new"
        waits  == Wait(s, "general", j)
        asleep == [waits EXCEPT !.woken = @ \ {j}, !.stored = FALSE,
                                !.sleepers = Append(@, j)]
    IN  IF "general" \in s.held[j]
        THEN [sem |-> DropNotified(s, j), at |-> "runtime"]
        ELSE IF first /\ s.free["general"] > 0
        THEN [sem |-> Take(s, "general", j), at |-> "runtime"]
        ELSE IF ~CanBorrow \/ ~(first \/ j \in s.woken)
        THEN [sem |-> waits, at |-> "class"]
        ELSE IF s.free["transfer"] > 0
        THEN [sem |-> Take([Leave(s, "general", j) EXCEPT !.woken = @ \ {j}],
                           "transfer", j),
              at  |-> "runtime"]
        ELSE [sem |-> asleep, at |-> "class"]

(* acquire_transfer_runtime_permit, first stage. *)
PollTransfer(s, j) ==
    IF "transfer" \in s.held[j] THEN [sem |-> s, at |-> "runtime"]
    ELSE IF point[j] = "new" /\ s.free["transfer"] > 0
    THEN [sem |-> Take(s, "transfer", j), at |-> "runtime"]
    ELSE [sem |-> Wait(s, "transfer", j), at |-> "class"]

(* The global slot, once the class slot is held. *)
PollRuntime(s, j) ==
    IF "runtime" \in s.held[j] THEN [sem |-> s, at |-> "admitted"]
    ELSE IF j \notin Range(s.line["runtime"]) /\ s.free["runtime"] > 0
    THEN [sem |-> Take(s, "runtime", j), at |-> "admitted"]
    ELSE [sem |-> Wait(s, "runtime", j), at |-> "runtime"]

PollAdmission(s, j) ==
    LET class == IF point[j] = "runtime" THEN [sem |-> s, at |-> "runtime"]
                 ELSE IF j \in TransferJobs THEN PollTransfer(s, j)
                 ELSE PollGeneral(s, j)
    IN  IF class.at = "runtime" THEN PollRuntime(class.sem, j) ELSE class

-----------------------------------------------------------------------------
(* Wakers: whatever gives a waiting job something to see unparks the        *)
(* dispatcher thread, if one is registered.                                 *)

Wakes(s, t) == \E j \in Jobs : Ready(t, j) /\ ~Ready(s, j)
(* Mutant: only a thread that already sleeps is unparked. *)
UnparkSleeper(d, woke) ==
    [d EXCEPT !.token = @ \/ (d.thread /\ woke /\ d.pc = "parked")]
Unparked(d, woke) == [d EXCEPT !.token = @ \/ (d.thread /\ woke)]

Enqueued(d, j) ==
    [d EXCEPT !.jobs = Append(@, j), !.active = TRUE,
              !.pc = IF d.active THEN @ ELSE "starting",
              !.token = @ \/ (d.active /\ d.thread)]

AdmissionInit ==
    /\ sem = [free |-> Capacity, line |-> [c \in Class |-> <<>>],
              held |-> [j \in Jobs |-> {}], queued |-> {},
              sleepers |-> <<>>, woken |-> {}, stored |-> FALSE]
    /\ stage = [j \in Jobs |-> "idle"]
    /\ point = [j \in Jobs |-> "new"]
    /\ closed = [j \in Jobs |-> FALSE]
    /\ dispatcher = [jobs |-> <<>>, active |-> FALSE, thread |-> FALSE,
                     token |-> FALSE, pending |-> <<>>, todo |-> 0,
                     pc |-> "off"]

(* dispatch: a full transfer queue refuses; otherwise the first poll.       *)
RefuseSubmission(j) ==
    /\ stage[j] = "idle" /\ j \in TransferJobs
    /\ Cardinality(sem.queued) = QueueCapacity
    /\ stage' = [stage EXCEPT ![j] = "rejected"]
    /\ point' = [point EXCEPT ![j] = "gone"]
    /\ UNCHANGED <<sem, closed, dispatcher>>

dispatch(j) ==
    /\ stage[j] = "idle"
    /\ j \in TransferJobs => Cardinality(sem.queued) < QueueCapacity
    /\ LET s == IF j \in TransferJobs
                THEN [sem EXCEPT !.queued = @ \cup {j}] ELSE sem
           r == PollAdmission(s, j)
       IN  /\ point' = [point EXCEPT ![j] = r.at]
           /\ sem' = IF r.at = "admitted" THEN ReturnQueue(r.sem, j) ELSE r.sem
           /\ stage' = [stage EXCEPT ![j] = IF r.at = "admitted"
                                            THEN "running" ELSE "polled"]
           /\ dispatcher' = Unparked(dispatcher, Wakes(sem, sem'))
    /\ UNCHANGED closed

(* enqueue: queue the job; start the dispatcher thread or unpark it.        *)
enqueue(j) ==
    /\ stage[j] = "polled"
    /\ stage' = [stage EXCEPT ![j] = "waiting"]
    /\ dispatcher' = Enqueued(dispatcher, j)
    /\ UNCHANGED <<sem, point, closed>>

(* The dispatcher is lost (its thread cannot start, or it unwinds): its     *)
(* guard clears the queue, and every job in it drops its sender.            *)
DispatcherLost ==
    /\ dispatcher.pc \in {"starting", "scan"}
    /\ LET lost == dispatcher.jobs \o dispatcher.pending
           Drop(s, j) == DropJob(s, j)
       IN  /\ sem' = FoldLeft(Drop, sem, lost)
           /\ stage' = [j \in Jobs |-> IF j \in Range(lost)
                                       THEN "rejected" ELSE stage[j]]
           /\ point' = [j \in Jobs |-> IF j \in Range(lost) THEN "gone" ELSE point[j]]
    /\ dispatcher' = [dispatcher EXCEPT !.jobs = <<>>, !.pending = <<>>,
                         !.todo = 0, !.active = FALSE, !.thread = FALSE,
                         !.token = FALSE, !.pc = "off"]
    /\ UNCHANGED closed

(* The drain loop's critical section: register the thread, take the queue,  *)
(* and stop if there is nothing left.                                       *)
Collect ==
    /\ dispatcher.pc \in {"starting", "top"}
    /\ LET all == dispatcher.pending \o dispatcher.jobs
       IN  dispatcher' = IF all = <<>>
            THEN [dispatcher EXCEPT !.active = FALSE, !.thread = FALSE,
                                    !.token = FALSE, !.pc = "off"]
            ELSE [dispatcher EXCEPT !.jobs = <<>>, !.pending = all,
                                    !.thread = TRUE, !.todo = Len(all),
                                    !.pc = "scan"]
    /\ UNCHANGED <<sem, stage, point, closed>>

(* The dispatcher after polling the first pending job: it is pushed back or *)
(* gone, and after the last one the loop parks, or restarts if none is left.*)
Scanned(woke, stays) ==
    LET rest == Tail(dispatcher.pending)
                  \o (IF stays THEN <<Head(dispatcher.pending)>> ELSE <<>>)
        d == Unparked(dispatcher, woke)
    IN  [d EXCEPT !.pending = rest, !.todo = @ - 1,
                  !.pc = IF dispatcher.todo > 1 THEN "scan"
                         ELSE IF rest = <<>> THEN "top" ELSE "parking"]

(* reject, and the early return for a requester that is gone. *)
drain_drop(j, s, outcome) ==
    /\ sem' = s
    /\ stage' = [stage EXCEPT ![j] = outcome]
    /\ point' = [point EXCEPT ![j] = "gone"]
    /\ dispatcher' = Scanned(Wakes(sem, s), FALSE)
    /\ UNCHANGED closed

(* An admitted permit that is dropped because the deadline passed or the    *)
(* requester left while it was acquired.                                    *)
DropAdmitted(s, j) ==
    ReturnQueue(Return(Return(DropTransferSlot(s, j), "general", j),
                       "runtime", j), j)

(* launch: the worker owns the permits; the queue permit goes back.         *)
drain_poll(j, r) ==
    /\ sem' = IF r.at = "admitted" THEN ReturnQueue(r.sem, j) ELSE r.sem
    /\ point' = [point EXCEPT ![j] = r.at]
    /\ stage' = [stage EXCEPT ![j] = IF r.at = "admitted"
                                     THEN "running" ELSE @]
    /\ dispatcher' = Scanned(Wakes(sem, sem'), r.at # "admitted")
    /\ UNCHANGED closed

(* poll_with_clock on the first pending job; its deadline may have passed   *)
(* at either of the two places the code looks at the clock.                 *)
ScanJob ==
    /\ dispatcher.pc = "scan"
    /\ LET j == Head(dispatcher.pending)
           r == PollAdmission(sem, j)
       IN  \/ closed[j] /\ drain_drop(j, DropJob(sem, j), "cancelled")
           \/ ~closed[j] /\ drain_drop(j, DropJob(sem, j), "rejected")
           \/ ~closed[j] /\ drain_poll(j, r)
           \/ /\ ~closed[j] /\ r.at = "admitted"
              /\ \E outcome \in {"rejected", "cancelled"} :
                     drain_drop(j, DropAdmitted(r.sem, j), outcome)

(* park_timeout: a stored token returns at once; a deadline wakes it too.   *)
Park ==
    /\ dispatcher.pc = "parking"
    /\ dispatcher' = IF dispatcher.token
                     THEN [dispatcher EXCEPT !.token = FALSE, !.pc = "top"]
                     ELSE [dispatcher EXCEPT !.pc = "parked"]
    /\ UNCHANGED <<sem, stage, point, closed>>
Unpark ==
    /\ dispatcher.pc = "parked" /\ dispatcher.token
    /\ dispatcher' = [dispatcher EXCEPT !.token = FALSE, !.pc = "top"]
    /\ UNCHANGED <<sem, stage, point, closed>>
DeadlineWake ==
    /\ dispatcher.pc = "parked" /\ ~dispatcher.token
    /\ dispatcher' = [dispatcher EXCEPT !.pc = "top"]
    /\ UNCHANGED <<sem, stage, point, closed>>

(* The requester is dropped; poll_closed has registered the same waker.     *)
CancelRequest(j) ==
    /\ stage[j] = "waiting" /\ ~closed[j]
    /\ closed' = [closed EXCEPT ![j] = TRUE]
    /\ dispatcher' = Unparked(dispatcher, TRUE)
    /\ UNCHANGED <<sem, stage, point>>

(* The worker's permit is dropped: the class slot first, then the global.   *)
ReleaseClass(j) ==
    /\ stage[j] = "running"
    /\ stage' = [stage EXCEPT ![j] = "releasing"]
    /\ sem' = DropTransferSlot(Return(sem, "general", j), j)
    /\ dispatcher' = Unparked(dispatcher, Wakes(sem, sem'))
    /\ UNCHANGED <<point, closed>>
ReleaseRuntime(j) ==
    /\ stage[j] = "releasing"
    /\ stage' = [stage EXCEPT ![j] = "done"]
    /\ sem' = Return(sem, "runtime", j)
    /\ point' = [point EXCEPT ![j] = "gone"]
    /\ dispatcher' = Unparked(dispatcher, Wakes(sem, sem'))
    /\ UNCHANGED closed

AdmissionNext ==
    \/ \E j \in Jobs : \/ RefuseSubmission(j) \/ dispatch(j) \/ enqueue(j)
                       \/ CancelRequest(j) \/ ReleaseClass(j)
                       \/ ReleaseRuntime(j)
    \/ DispatcherLost \/ Collect \/ ScanJob \/ Park \/ Unpark \/ DeadlineWake

(* The dispatcher thread and the workers run; requests, cancellations,      *)
(* deadlines and a lost dispatcher are not promised.                        *)
DispatcherStep == Collect \/ ScanJob \/ Park \/ Unpark
RequestStep(j) == enqueue(j) \/ ReleaseClass(j) \/ ReleaseRuntime(j)
AdmissionFairness == /\ WF_admissionVars(DispatcherStep)
                     /\ \A j \in Jobs : WF_admissionVars(RequestStep(j))
AdmissionSpec == AdmissionInit /\ [][AdmissionNext]_admissionVars
                   /\ AdmissionFairness

-----------------------------------------------------------------------------
(***************************************************************************)
(* While the dispatcher is parked with no unpark token, no job waits in    *)
(* its queue, and none of the jobs it holds has an assigned permit, a      *)
(* notification or a departed requester it has not looked at: a wake       *)
(* between a scan and the park is never lost (drain, dispatch.rs:422-464). *)
(***************************************************************************)
NoLostWakeup ==
    dispatcher.pc = "parked" /\ ~dispatcher.token =>
        /\ dispatcher.jobs = <<>>
        /\ \A j \in Range(dispatcher.pending) : ~Ready(sem, j) /\ ~closed[j]

(***************************************************************************)
(* No permit is lost or made: in every class the free permits and the      *)
(* held ones add up to the capacity, and nobody waits for a class with a   *)
(* free permit, whatever is cancelled, rejected or lost on the way.        *)
(***************************************************************************)
PermitsConserved ==
    \A c \in Class :
        /\ sem.free[c] + Cardinality({j \in Jobs : c \in sem.held[j]}) = Capacity[c]
        /\ sem.line[c] # <<>> => sem.free[c] = 0

(***************************************************************************)
(* Neither a wake-up nor a permit is lost (dispatch.rs, model.rs:75-107).  *)
(***************************************************************************)
AdmissionConsistent == NoLostWakeup /\ PermitsConserved

(***************************************************************************)
(* A job that waits in the dispatcher is launched, rejected or dropped     *)
(* without the help of a deadline: the workers' releases alone drain the   *)
(* queue (drain, dispatch.rs:422-464; TransferSlotPermit, model.rs:83-99). *)
(***************************************************************************)
AdmissionServed ==
    (\E j \in Jobs : stage[j] = "waiting") ~> (\A j \in Jobs : stage[j] # "waiting")
=============================================================================
