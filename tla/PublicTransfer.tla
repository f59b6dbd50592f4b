--------------------------- MODULE PublicTransfer ---------------------------
(***************************************************************************)
(* One public download, preview or ZIP request from its URL to its last    *)
(* byte (src/services/public_transfer/{prepare,lease,stream}.rs and the    *)
(* handlers in src/api/public_transfer/ and src/web/transfer/).            *)
(*                                                                         *)
(* The request looks the share up, locks storage, looks it up again and    *)
(* opens the file; a dispatched worker reserves a lease and hands it over; *)
(* the body stream completes the lease before it releases the first byte.  *)
(* A client may disconnect at every await: what the request owns is then   *)
(* released by Drop, by the worker or by the bounded cleanup queue.        *)
(***************************************************************************)
EXTENDS Naturals, Sequences, FiniteSets

CONSTANTS Requests,          \* HTTP requests for one share
          Sessions,          \* transfer sessions (cookies) they carry
          DownloadLimit,     \* max_downloads of the share
          StreamLimit,       \* concurrent streams of one share
          ZipLimit,          \* concurrent ZIP generations
          CleanupCapacity,   \* TRANSFER_QUEUE_CAPACITY of the cleanup queue
          Chunks,            \* bound: chunks of a response with a length
          Nothing            \* no path, no file, no job, no length

ASSUME PublicTransferAssumption ==
    /\ DownloadLimit \in Nat \ {0} /\ StreamLimit \in Nat /\ ZipLimit \in Nat
    /\ CleanupCapacity \in Nat /\ Chunks \in Nat \ {0}
    /\ Nothing \notin Sessions \cup Requests \cup Nat

VARIABLES transfers,   \* the request handlers, their leases and bodies
          store,       \* the lease transactions, as TransferLeases has them
          cleanup,     \* TransferCleanupQueue and its drain worker
          tree         \* the writer of the storage tree, and the share's status

transferVars == <<transfers, store, cleanup, tree>>

(* path: what was read of the share row, "current" until a rename changes it. *)
NewTransfer(session) ==
    [pc |-> "idle", session |-> session, path |-> Nothing,
     opened |-> Nothing, holds |-> {}, worker |-> "none",
     token |-> FALSE,        \* the body still owns the lease token
     handle |-> FALSE,       \* the body still owns the finalizer's handle
     finalizer |-> "none", chunk |-> FALSE, left |-> Nothing,
     ended |-> FALSE,        \* complete or timed_out
     charge |-> 0,           \* the download it was completed under
     delivered |-> FALSE]    \* a byte was released to the client

TransferInit ==
    /\ transfers = [r \in Requests |-> NewTransfer(Nothing)]
    /\ store = [leases |-> {}, deferred |-> {}, count |-> 0,
                counted |-> [s \in Sessions |-> 0]]
    /\ cleanup = [jobs |-> <<>>, worker |-> "idle", job |-> Nothing]
    /\ tree = [writer |-> FALSE, active |-> TRUE]

At(r, pc) == transfers[r].pc = pc
IsZip(r) == "zip" \in transfers[r].holds
Holding(what) == {r \in Requests : what \in transfers[r].holds}

-----------------------------------------------------------------------------
(* The lease transactions: one download slot per session, counted once.    *)

Session(r) == transfers[r].session
Covered(s) == store.counted[Session(s)] > 0
PendingSessions ==
    {s \in {Session(r) : r \in store.leases} : store.counted[s] = 0}
Reservable(r) ==
    /\ tree.active
    /\ \/ Covered(r) \/ Session(r) \in PendingSessions
       \/ store.count + Cardinality(PendingSessions) < DownloadLimit
Reserved(r) == [store EXCEPT !.leases = @ \cup {r}]
Cancelled(r) == [store EXCEPT !.leases = @ \ {r}, !.deferred = @ \ {r}]
Completed(r) ==
    IF Covered(r) THEN Cancelled(r)
    ELSE [Cancelled(r) EXCEPT !.count = @ + 1, !.counted[Session(r)] = store.count + 1]

(* History: what releases the lease gave up, and leaves it to its expiry.   *)
Deferred(rs) == [store EXCEPT !.deferred = @ \cup (rs \cap store.leases)]

(* A lease or a counted grant outlives its deadline; a heartbeat at the     *)
(* absolute lifetime counts the lease instead.                              *)
LeaseExpires(r) ==
    /\ r \in store.leases
    /\ store' = Cancelled(r)
    /\ UNCHANGED <<transfers, cleanup, tree>>
HeartbeatCaps(r) ==
    /\ r \in store.leases
    /\ store' = Completed(r)
    /\ UNCHANGED <<transfers, cleanup, tree>>
GrantExpires(s) ==
    /\ store.counted[s] > 0
    /\ store' = [store EXCEPT !.counted[s] = 0,
                    !.leases = {r \in @ : Session(r) # s},
                    !.deferred = {r \in @ : Session(r) # s}]
    /\ UNCHANGED <<transfers, cleanup, tree>>

-----------------------------------------------------------------------------
(* The cleanup queue of src/db/database.rs.                                 *)

(* Mutant: a token that is dropped is not queued. *)
ForgetToken(r) == UNCHANGED <<cleanup, store>>
enqueue_transfer_cleanup(r) ==
    IF Len(cleanup.jobs) >= CleanupCapacity
    THEN store' = Deferred({r}) /\ UNCHANGED cleanup
    ELSE /\ cleanup' = [cleanup EXCEPT !.jobs = Append(@, r),
                           !.worker = IF @ = "idle" THEN "launch" ELSE @]
         /\ UNCHANGED store

(* The launch guard: a runtime that shuts down discards worker and jobs.    *)
LaunchDiscarded ==
    /\ cleanup.worker = "launch"
    /\ cleanup' = [cleanup EXCEPT !.jobs = <<>>, !.worker = "idle"]
    /\ store' = Deferred({cleanup.jobs[i] : i \in DOMAIN cleanup.jobs})
    /\ UNCHANGED <<transfers, tree>>

drain_transfer_cleanup_queue ==
    /\ cleanup.worker \in {"launch", "drain"}
    /\ cleanup' = IF cleanup.jobs = <<>>
                  THEN [cleanup EXCEPT !.worker = "idle"]
                  ELSE [cleanup EXCEPT !.jobs = Tail(@), !.job = Head(cleanup.jobs),
                                       !.worker = "job"]
    /\ UNCHANGED <<transfers, store, tree>>

(* The job needs a permit and a transaction; both may be refused.           *)
run_transfer_cleanup_job ==
    /\ cleanup.worker = "job"
    /\ cleanup' = [cleanup EXCEPT !.worker = "drain", !.job = Nothing]
    /\ store' = Cancelled(cleanup.job) \/ store' = Deferred({cleanup.job})
    /\ UNCHANGED <<transfers, tree>>

-----------------------------------------------------------------------------
(* Looking up and opening.                                                  *)

(* A request that is over holds no guard, permit or reservation; what its   *)
(* worker, its completion and its ZIP producer still do is left of it.      *)
Over(t) == [NewTransfer(t.session) EXCEPT !.pc = "done", !.worker = t.worker,
               !.holds = IF t.pc \in {"stream", "closing"} THEN t.holds \cap {"zip"}
                         ELSE {},
               !.finalizer = IF t.finalizer = "running" THEN "running" ELSE @]
End(r) == transfers' = [transfers EXCEPT ![r] = Over(@)]
Becomes(r, pc) == transfers' = [transfers EXCEPT ![r].pc = pc]

share_for_transfer(r, session) ==
    /\ At(r, "idle")
    /\ IF tree.active
       THEN transfers' = [transfers EXCEPT ![r] = [NewTransfer(session) EXCEPT
                             !.pc = "found", !.path = "current"]]
       ELSE End(r)
    /\ UNCHANGED <<store, cleanup, tree>>

(* storage_share_for_transfer: the read guard first, then the share again.  *)
acquire_storage_read(r) ==
    /\ At(r, "found") /\ ~tree.writer
    /\ transfers' = [transfers EXCEPT ![r].pc = "locked", ![r].holds = {"guard"}]
    /\ UNCHANGED <<store, cleanup, tree>>
storage_share_for_transfer(r) ==
    /\ At(r, "locked")
    /\ IF tree.active
       THEN transfers' = [transfers EXCEPT ![r].pc = "looked", ![r].path = "current"]
       ELSE End(r)
    /\ UNCHANGED <<store, cleanup, tree>>

(* prepare_download, prepare_preview, prepare_zip_scope: the blocking open  *)
(* owns the guard and releases it when the descriptor is bound.             *)
FileAt(path) == IF path = "current" THEN "shared" ELSE "other"
prepare_download(r) ==
    /\ At(r, "looked")
    /\ \/ End(r)
       \/ transfers' = [transfers EXCEPT ![r].pc = "opened", ![r].path = Nothing,
                           ![r].opened = FileAt(transfers[r].path), ![r].holds = {}]
    /\ UNCHANGED <<store, cleanup, tree>>

(* The preflight of a file; a ZIP takes its generation permits instead,     *)
(* and holds them from here on.                                             *)
check_availability(r) ==
    /\ At(r, "opened")
    /\ IF Reservable(r) THEN Becomes(r, "checked") ELSE End(r)
    /\ UNCHANGED <<store, cleanup, tree>>
begin_resources(r) ==
    /\ At(r, "opened")
    /\ IF Cardinality(Holding("zip")) < ZipLimit
       THEN transfers' = [transfers EXCEPT ![r].pc = "checked", ![r].holds = {"zip"}]
       ELSE End(r)
    /\ UNCHANGED <<store, cleanup, tree>>

(* Every other way out before a lease is asked for: not unlocked, storage   *)
(* busy or in recovery, not a file, an unsatisfiable range, rate limited, a *)
(* HEAD request answered, or the client gone.                               *)
LeaveEarly(r) ==
    /\ transfers[r].pc \in {"found", "locked", "looked", "opened", "checked"}
    /\ End(r)
    /\ UNCHANGED <<store, cleanup, tree>>

-----------------------------------------------------------------------------
(* begin: the worker commits and hands the lease over to the handler.       *)

begin(r) ==
    /\ At(r, "checked")
    /\ IF Cardinality(Holding("stream")) < StreamLimit
       THEN transfers' = [transfers EXCEPT ![r].pc = "begin", ![r].worker = "queued",
                                           ![r].holds = @ \cup {"stream"}]
       ELSE End(r)
    /\ UNCHANGED <<store, cleanup, tree>>

(* The client leaves while the worker is queued, runs or hands over.        *)
LeaveBegin(r) ==
    /\ At(r, "begin")
    /\ End(r)
    /\ UNCHANGED <<store, cleanup, tree>>

(* Admission refuses the worker, or its requester is gone before launch.    *)
WorkerRefused(r) ==
    /\ transfers[r].worker = "queued"
    /\ transfers' = [transfers EXCEPT ![r] = [Over(@) EXCEPT !.worker = "none"]]
    /\ UNCHANGED <<store, cleanup, tree>>

(* begin_authorized_transfer_lease; its error or refusal reserves nothing.  *)
WorkerReserves(r) ==
    /\ transfers[r].worker = "queued" /\ Reservable(r)
    /\ store' = Reserved(r)
    /\ transfers' = [transfers EXCEPT ![r].worker = "reserved"]
    /\ UNCHANGED <<cleanup, tree>>

(* The outcome is sent; if nobody receives it, the worker cancels at once.  *)
WorkerSends(r) ==
    /\ transfers[r].worker = "reserved"
    /\ \/ /\ At(r, "begin")
          /\ transfers' = [transfers EXCEPT ![r].worker = "handoff"]
          /\ UNCHANGED store
       \/ /\ ~At(r, "begin")
          /\ transfers' = [transfers EXCEPT ![r].worker = "none"]
          /\ store' = Cancelled(r) \/ store' = Deferred({r})
    /\ UNCHANGED <<cleanup, tree>>

claim(r) ==
    /\ At(r, "begin") /\ transfers[r].worker = "handoff"
    /\ transfers' = [transfers EXCEPT ![r].pc = "owned", ![r].worker = "none"]
    /\ UNCHANGED <<store, cleanup, tree>>

(* The ownership sender was dropped: the worker compensates under a new     *)
(* admission, which may be refused.                                         *)
finish_transfer_handoff(r) ==
    /\ transfers[r].worker = "handoff" /\ ~At(r, "begin")
    /\ transfers' = [transfers EXCEPT ![r].worker = "none"]
    /\ store' = Cancelled(r) \/ store' = Deferred({r})
    /\ UNCHANGED <<cleanup, tree>>

-----------------------------------------------------------------------------
(* From the owned lease to a body.                                          *)

(* PublicTransferLease::drop, armed. *)
DropLease(r) ==
    /\ transfers[r].pc \in {"owned", "orphan"}
    /\ End(r)
    /\ enqueue_transfer_cleanup(r)
    /\ UNCHANGED tree

StreamOf(t, left) ==
    [t EXCEPT !.pc = "stream", !.token = TRUE, !.left = left,
              !.holds = IF left = Nothing THEN @ \ {"temp"} ELSE @ \ {"zip"}]
transfer_stream(r) ==
    /\ At(r, "owned") /\ ~IsZip(r)
    /\ transfers' = [transfers EXCEPT ![r] = StreamOf(@, Chunks)]
    /\ UNCHANGED <<store, cleanup, tree>>

(* A response without bytes: the spawned completion owns the token.         *)
complete_transfer_without_body(r) ==
    /\ At(r, "owned") /\ ~IsZip(r)
    /\ transfers' = [transfers EXCEPT ![r].pc = "bodyless",
                        ![r].finalizer = "running", ![r].handle = TRUE]
    /\ UNCHANGED <<store, cleanup, tree>>
EndBodyless(r) ==
    /\ At(r, "bodyless")
    /\ End(r)
    /\ store' = IF transfers[r].finalizer = "failed" THEN Deferred({r}) ELSE store
    /\ UNCHANGED <<cleanup, tree>>

(* ZIP: planning and materializing run in tasks that own the lease; their   *)
(* failure cancels it, a client that leaves orphans the task.               *)
StartPlan(r) ==
    /\ At(r, "owned") /\ IsZip(r)
    /\ Becomes(r, "planning")
    /\ UNCHANGED <<store, cleanup, tree>>
CancelOf(t) == [t EXCEPT !.pc = "cancelling", !.worker = "cancel",
                         !.holds = @ \ {"zip", "temp"}]
prepare_body(r) ==
    /\ At(r, "planning")
    /\ \E next \in {[transfers[r] EXCEPT !.pc = "materializing",
                                         !.holds = @ \cup {"temp"}],
                    StreamOf(transfers[r], Nothing), CancelOf(transfers[r])} :
          transfers' = [transfers EXCEPT ![r] = next]
    /\ UNCHANGED <<store, cleanup, tree>>
materialize(r) ==
    /\ At(r, "materializing")
    /\ \E next \in {StreamOf(transfers[r], Chunks),
                    StreamOf(transfers[r], Nothing), CancelOf(transfers[r])} :
          transfers' = [transfers EXCEPT ![r] = next]
    /\ UNCHANGED <<store, cleanup, tree>>
(* The producer of a direct ZIP keeps its permits until it stops.           *)
ProducerEnds(r) ==
    /\ transfers[r].pc \in {"stream", "closing", "done"} /\ IsZip(r)
    /\ transfers' = [transfers EXCEPT ![r].holds = @ \ {"zip"}]
    /\ UNCHANGED <<store, cleanup, tree>>
LeaveGeneration(r) ==
    /\ transfers[r].pc \in {"planning", "materializing"}
    /\ Becomes(r, "orphan")
    /\ UNCHANGED <<store, cleanup, tree>>

(* PublicTransferLease::cancel: disarmed only when the transaction worked;  *)
(* a client that leaves drops the armed lease beside the running call.      *)
cancel(r) ==
    /\ transfers[r].worker = "cancel"
    /\ \/ /\ store' = Cancelled(r)
          /\ transfers' = [transfers EXCEPT ![r] = [Over(@) EXCEPT !.worker = "none"]]
          /\ UNCHANGED cleanup
       \/ /\ transfers' = [transfers EXCEPT ![r] = [Over(@) EXCEPT !.worker = "none"]]
          /\ IF At(r, "cancelling") THEN enqueue_transfer_cleanup(r)
                                    ELSE UNCHANGED <<store, cleanup>>
    /\ UNCHANGED tree
LeaveCancel(r) ==
    /\ At(r, "cancelling")
    /\ End(r)
    /\ enqueue_transfer_cleanup(r)
    /\ UNCHANGED tree

-----------------------------------------------------------------------------
(* PublicTransferStream.                                                    *)

(* start_finalize: the token moves to a spawned completion; the body keeps  *)
(* its handle and, for as long as it has that, a second copy of the token.  *)
start_finalize(t) ==
    [t EXCEPT !.token = FALSE, !.handle = TRUE, !.finalizer = "running"]

(* The completion's outcome; if the body is gone, nobody looks at it.       *)
Finalized(r, outcome, charge) ==
    transfers' = [transfers EXCEPT
                     ![r].finalizer = IF transfers[r].handle THEN outcome ELSE "none",
                     ![r].charge = IF transfers[r].handle THEN charge ELSE 0]
(* transfer_complete_future: counted, already counted, lease not found, or  *)
(* refused by admission or by the transaction.                              *)
transfer_complete_future(r) ==
    /\ transfers[r].finalizer = "running"
    /\ \/ /\ r \in store.leases
          /\ store' = Completed(r)
          /\ Finalized(r, "ok", store'.counted[Session(r)])
       \/ /\ Finalized(r, "failed", 0)
          /\ store' = IF transfers[r].handle THEN store ELSE Deferred({r})
    /\ UNCHANGED <<cleanup, tree>>

(* Whoever drops a token that is still owned queues its cleanup; a failed   *)
(* completion whose body goes away is left to the expiry.                   *)
TokenDropped(r) ==
    IF transfers[r].token THEN enqueue_transfer_cleanup(r)
    ELSE /\ store' = IF transfers[r].handle /\ transfers[r].finalizer = "failed"
                     THEN Deferred({r}) ELSE store
         /\ UNCHANGED cleanup

Polled(r) == At(r, "stream") /\ ~transfers[r].ended

(* cancel_with_error: the consumer of a body stops at its first error.      *)
cancel_with_error(r) ==
    /\ transfers' = [transfers EXCEPT ![r].pc = "closing", ![r].token = FALSE]
    /\ TokenDropped(r)

(* The deadline is looked at before anything else; a completion that runs   *)
(* is detached.                                                             *)
PollDeadline(r) ==
    /\ Polled(r)
    /\ transfers' = [transfers EXCEPT ![r].ended = TRUE, ![r].handle = FALSE,
                                      ![r].token = FALSE]
    /\ TokenDropped(r)
    /\ UNCHANGED tree

poll_finalize(r) ==
    /\ Polled(r) /\ transfers[r].handle
    /\ \/ /\ transfers[r].finalizer = "ok"
          /\ transfers' = [transfers EXCEPT
                ![r].handle = FALSE, ![r].chunk = FALSE,
                ![r].delivered = @ \/ transfers[r].chunk,
                ![r].finalizer = "none",
                ![r].ended = transfers[r].left = 0 \/ ~transfers[r].chunk]
          /\ UNCHANGED <<store, cleanup>>
       \/ /\ transfers[r].finalizer = "failed"
          /\ transfers' = [transfers EXCEPT
                ![r].handle = FALSE, ![r].chunk = FALSE,
                ![r].finalizer = "none", ![r].ended = TRUE]
          /\ enqueue_transfer_cleanup(r)
    /\ UNCHANGED tree

PollEnd(r) ==
    /\ Polled(r) /\ ~transfers[r].handle
    /\ IF transfers[r].left \notin {0, Nothing} THEN cancel_with_error(r)
       ELSE /\ transfers' = [transfers EXCEPT ![r] =
                  IF @.token THEN start_finalize(@) ELSE [@ EXCEPT !.ended = TRUE]]
            /\ UNCHANGED <<store, cleanup>>
    /\ UNCHANGED tree

(* A source error, or a source that exceeds its length.                     *)
PollError(r) ==
    /\ Polled(r) /\ ~transfers[r].handle
    /\ cancel_with_error(r)
    /\ UNCHANGED tree

PollChunk(r) ==
    /\ Polled(r) /\ ~transfers[r].handle
    /\ transfers[r].left # 0
    /\ LET left == IF transfers[r].left = Nothing THEN Nothing
                   ELSE transfers[r].left - 1
       IN  transfers' = [transfers EXCEPT ![r] =
              IF @.token
              THEN [start_finalize(@) EXCEPT !.chunk = TRUE, !.left = left]
              ELSE [@ EXCEPT !.delivered = TRUE, !.left = left,
                             !.ended = left = 0]]
    /\ UNCHANGED <<store, cleanup, tree>>

(* PublicTransferStream::drop, by the client or after the end.              *)
DropBody(r) ==
    /\ transfers[r].pc \in {"stream", "closing"}
    /\ End(r)
    /\ TokenDropped(r)
    /\ UNCHANGED tree

-----------------------------------------------------------------------------
(* The administrator: share status, and writers of the storage tree, which  *)
(* exclude the readers.  A rename moves the file, then the path in the row; *)
(* the old path may name another file from then on.                         *)

ShareSwitched ==
    /\ tree' = [tree EXCEPT !.active = ~@]
    /\ UNCHANGED <<transfers, store, cleanup>>
RenameMoves ==
    /\ ~tree.writer /\ Holding("guard") = {}
    /\ tree' = [tree EXCEPT !.writer = TRUE]
    /\ UNCHANGED <<transfers, store, cleanup>>
RenameCommits ==
    /\ tree.writer
    /\ tree' = [tree EXCEPT !.writer = FALSE]
    /\ transfers' = [r \in Requests |->
          IF transfers[r].path = Nothing THEN transfers[r]
          ELSE [transfers[r] EXCEPT !.path = "old"]]
    /\ UNCHANGED <<store, cleanup>>

TransferNext ==
    \/ \E r \in Requests :
          \/ LeaseExpires(r) \/ HeartbeatCaps(r)
          \/ \E s \in Sessions : share_for_transfer(r, s)
          \/ acquire_storage_read(r)
          \/ storage_share_for_transfer(r) \/ prepare_download(r)
          \/ check_availability(r) \/ begin_resources(r) \/ LeaveEarly(r)
          \/ begin(r) \/ LeaveBegin(r) \/ WorkerRefused(r) \/ WorkerReserves(r)
          \/ WorkerSends(r) \/ claim(r) \/ finish_transfer_handoff(r)
          \/ DropLease(r) \/ transfer_stream(r)
          \/ complete_transfer_without_body(r) \/ EndBodyless(r)
          \/ StartPlan(r) \/ prepare_body(r) \/ materialize(r)
          \/ ProducerEnds(r) \/ LeaveGeneration(r) \/ cancel(r) \/ LeaveCancel(r)
          \/ transfer_complete_future(r) \/ PollDeadline(r) \/ poll_finalize(r)
          \/ PollEnd(r) \/ PollError(r) \/ PollChunk(r) \/ DropBody(r)
    \/ \E s \in Sessions : GrantExpires(s)
    \/ LaunchDiscarded \/ drain_transfer_cleanup_queue \/ run_transfer_cleanup_job
    \/ ShareSwitched \/ RenameMoves \/ RenameCommits
TransferSpec == TransferInit /\ [][TransferNext]_transferVars

-----------------------------------------------------------------------------
(***************************************************************************)
(* No byte leaves before its transfer is counted: a request that released  *)
(* payload was completed under one of the share's DownloadLimit downloads, *)
(* however its lease was capped, expired or cancelled in between           *)
(* (PublicTransferStream::poll_next, stream.rs:127-192).                   *)
(***************************************************************************)
DeliveredIsCharged ==
    \A r \in Requests :
        transfers[r].delivered => transfers[r].charge \in 1 .. DownloadLimit

Owned(r) ==
    \/ transfers[r].worker \in {"reserved", "handoff", "cancel"}
    \/ transfers[r].pc \in {"owned", "orphan", "planning", "materializing"}
    \/ transfers[r].token \/ transfers[r].finalizer = "running"
    \/ transfers[r].handle
    \/ r = cleanup.job \/ \E i \in DOMAIN cleanup.jobs : cleanup.jobs[i] = r

(***************************************************************************)
(* A reserved download slot is never forgotten: a live lease is owned by   *)
(* the worker, the handler, the body, its completion or the cleanup queue, *)
(* unless its release was refused (queue full, no admission, a failed      *)
(* transaction) or its completion failed when the body was already gone.   *)
(* Only those wait for the lease to expire (lease.rs, stream.rs,           *)
(* transfer_handoff.rs, database.rs:322-416).                              *)
(***************************************************************************)
LeaseHasOwner ==
    \A r \in store.leases \ store.deferred : Owned(r)

(***************************************************************************)
(* What a request serves is the file the share names, although the path    *)
(* was first read before the storage guard was taken and a rename moves    *)
(* file and row in two steps (storage_share_for_transfer,                  *)
(* prepare.rs:133-146).                                                    *)
(***************************************************************************)
OpenedIsShared ==
    \A r \in Requests : transfers[r].opened \in {Nothing, "shared"}

(***************************************************************************)
(* A download is accounted for from its open to its last byte: what is     *)
(* served is what the share names, what was sent is counted, and what is   *)
(* reserved is owned (prepare.rs, stream.rs, lease.rs, database.rs).       *)
(***************************************************************************)
TransferAccounted == OpenedIsShared /\ DeliveredIsCharged /\ LeaseHasOwner
=============================================================================
