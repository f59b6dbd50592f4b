--------------------------- MODULE CleanupWorker ---------------------------
(***************************************************************************)
(* The storage cleanup coordinator and its single worker: the dirty flag,  *)
(* the shutdown flag and the Notify that wakes the worker, which waits for *)
(* work, for storage authority and for the retry delay.  `permit` is the   *)
(* notification a tokio Notify stores when nobody awaits it; a waiter that *)
(* is dropped after being notified puts it back, so one flag stands for    *)
(* both.                                                                   *)
(***************************************************************************)
EXTENDS Naturals, FiniteSets

CONSTANTS
  Fragments,       \* upload fragments that may be left behind
  MaxPassFailures  \* bound on the passes that fail or leave entries

ASSUME CleanupAssumption == MaxPassFailures \in Nat

VARIABLES
  dirty_flag, shutdown,  \* CoordinatorInner's flags
  permit,           \* Notify: a stored notification
  worker,           \* where the worker is
  held,             \* somebody else holds storage authority
  stale,            \* fragments on disk that no upload owns any more
  found,            \* entries the running pass has yet to look at
  leftover,         \* CleanupStats.failed > 0 in the running pass
  failures          \* passes that failed so far

cleanupVars ==
  <<dirty_flag, shutdown, permit, worker, held, stale, found, leftover, failures>>

\* StorageCleanupCoordinator::new: dirty, so that the first pass runs at
\* startup over what an earlier process left.
CleanupInit ==
  /\ dirty_flag = TRUE /\ shutdown = FALSE /\ permit = FALSE
  /\ worker = "check"
  /\ held \in BOOLEAN
  /\ stale \in SUBSET Fragments /\ found = {} /\ leftover = FALSE
  /\ failures = 0

-----------------------------------------------------------------------------
(* The coordinator's callers                                               *)

\* Mutant: only the notification, which a running pass may swallow.
NotifyOnly(f) ==
  /\ f \notin stale /\ stale' = stale \cup {f}
  /\ permit' = TRUE
  /\ UNCHANGED <<dirty_flag, shutdown, worker, held, found, leftover, failures>>

\* An upload leaves a fragment and asks for cleanup.
request_cleanup(f) ==
  /\ f \notin stale /\ stale' = stale \cup {f}
  /\ dirty_flag' = TRUE /\ permit' = TRUE
  /\ UNCHANGED <<shutdown, worker, held, found, leftover, failures>>

request_shutdown ==
  /\ ~shutdown /\ shutdown' = TRUE
  /\ permit' = TRUE
  /\ UNCHANGED <<dirty_flag, worker, held, stale, found, leftover, failures>>

\* Another mutation takes the authority the worker does not hold, and returns it.
TakeAuthority ==
  /\ ~held /\ worker \notin {"start", "batch"} /\ held' = TRUE
  /\ UNCHANGED <<dirty_flag, shutdown, permit, worker, stale, found, leftover, failures>>
ReturnAuthority ==
  /\ held /\ held' = FALSE
  /\ UNCHANGED <<dirty_flag, shutdown, permit, worker, stale, found, leftover, failures>>

-----------------------------------------------------------------------------
(* The worker                                                              *)

Unless(next) == IF shutdown THEN "ended" ELSE next

\* Shutdown ends the worker, a set dirty flag is taken and starts a pass, and
\* otherwise the worker arms the notification.
wait_for_cleanup_pass ==
  /\ worker = "check"
  /\ worker' = Unless(IF dirty_flag THEN "serialize" ELSE "arm")
  /\ dirty_flag' = (dirty_flag /\ shutdown)
  /\ UNCHANGED <<shutdown, permit, held, stale, found, leftover, failures>>

\* The flags are read again between creating the notified future and
\* awaiting it, and after every wake-up.
wait_for_work ==
  /\ \/ worker = "arm" /\ UNCHANGED permit
     \/ worker = "idle" /\ permit /\ permit' = FALSE
  /\ worker' = IF shutdown \/ dirty_flag THEN "check" ELSE "idle"
  /\ UNCHANGED <<dirty_flag, shutdown, held, stale, found, leftover, failures>>

\* Only the worker uses the serialization lock: it is always free here.
acquire_serialization ==
  /\ worker = "serialize"
  /\ worker' = Unless("authority")
  /\ UNCHANGED <<dirty_flag, shutdown, permit, held, stale, found, leftover, failures>>

\* run_pass waits for authority and listens for shutdown meanwhile.
AcquireAuthority ==
  /\ worker = "authority" /\ ~held
  /\ worker' = "start"
  /\ UNCHANGED <<dirty_flag, shutdown, permit, held, stale, found, leftover, failures>>
WokenBeforeAuthority ==
  /\ worker = "authority" /\ permit
  /\ permit' = FALSE
  /\ worker' = Unless("authority")
  /\ UNCHANGED <<dirty_flag, shutdown, held, stale, found, leftover, failures>>

\* schedule_retry: the request is put back before the delay.
schedule_retry ==
  /\ dirty_flag' = TRUE
  /\ worker' = Unless("retry")
  /\ found' = {} /\ leftover' = FALSE

\* Recovery, the database, the directory scan or a batch fails.
PassFails ==
  /\ worker \in {"authority", "start", "batch"}
  /\ failures < MaxPassFailures /\ failures' = failures + 1
  /\ schedule_retry
  /\ UNCHANGED <<shutdown, permit, held, stale>>

\* The entries present when the scan starts.
StartPass ==
  /\ worker = "start"
  /\ worker' = "batch" /\ found' = stale /\ leftover' = FALSE
  /\ UNCHANGED <<dirty_flag, shutdown, permit, held, stale, failures>>

\* One batch looks at some entries and removes all or some of them; the pass
\* ends when none is left, and is repeated when any could not be removed.
cleanup_batch(seen, removed) ==
  /\ worker = "batch" /\ found # {} /\ ~shutdown
  /\ seen # {} /\ removed \subseteq seen
  /\ removed # seen => failures < MaxPassFailures
  /\ failures' = failures + (IF removed = seen THEN 0 ELSE 1)
  /\ stale' = stale \ removed
  /\ found' = found \ seen
  /\ leftover' = (leftover \/ removed # seen)
  /\ UNCHANGED <<dirty_flag, shutdown, permit, worker, held>>
CancelPass ==
  /\ worker = "batch" /\ shutdown
  /\ worker' = "ended" /\ found' = {} /\ leftover' = FALSE
  /\ UNCHANGED <<dirty_flag, shutdown, permit, held, stale, failures>>
handle_pass_result ==
  /\ worker = "batch" /\ found = {} /\ ~shutdown
  /\ IF leftover
       THEN schedule_retry
       ELSE worker' = "check" /\ UNCHANGED <<dirty_flag, found, leftover>>
  /\ UNCHANGED <<shutdown, permit, held, stale, failures>>

\* Wake-ups during the delay only look for shutdown.
wait_for_retry_or_shutdown ==
  /\ worker = "retry" /\ permit
  /\ permit' = FALSE
  /\ worker' = Unless("retry")
  /\ UNCHANGED <<dirty_flag, shutdown, held, stale, found, leftover, failures>>
RetryDelayOver ==
  /\ worker = "retry"
  /\ worker' = "check"
  /\ UNCHANGED <<dirty_flag, shutdown, permit, held, stale, found, leftover, failures>>

WorkerStep ==
  \/ wait_for_cleanup_pass
  \/ wait_for_work
  \/ acquire_serialization
  \/ WokenBeforeAuthority
  \/ StartPass
  \/ \E seen \in SUBSET found : \E removed \in SUBSET seen : cleanup_batch(seen, removed)
  \/ CancelPass
  \/ handle_pass_result
  \/ wait_for_retry_or_shutdown

CleanupNext ==
  \/ \E f \in Fragments : request_cleanup(f)
  \/ request_shutdown
  \/ TakeAuthority
  \/ ReturnAuthority
  \/ WorkerStep
  \/ AcquireAuthority
  \/ PassFails
  \/ RetryDelayOver

\* The executor polls the worker, the retry timer fires, mutations return the
\* authority, and its queue is first come first served.
CleanupFairness ==
  /\ WF_cleanupVars(WorkerStep)
  /\ SF_cleanupVars(AcquireAuthority)
  /\ WF_cleanupVars(RetryDelayOver)
  /\ WF_cleanupVars(ReturnAuthority)

CleanupSpec == CleanupInit /\ [][CleanupNext]_cleanupVars /\ CleanupFairness

-----------------------------------------------------------------------------
\* Every fragment an upload leaves behind is removed unless the worker is
\* told to stop: no request is lost between the flag, the notification and a
\* pass that is already running or has failed.
StaleFragmentsRemoved ==
  \A f \in Fragments : f \in stale ~> (f \notin stale \/ shutdown)

=============================================================================
