---------------------------- MODULE PublicUpload ----------------------------
(***************************************************************************)
(* A visitor's upload, from the form to the published file: the share is   *)
(* authorised again under the read guard and its directory bound, the form *)
(* is parsed field by field, a quota reservation is handed over and grows  *)
(* with the bytes received, and a detached finalizer repeats every check   *)
(* under the mutation guard before it charges the quota and publishes.     *)
(* The operation record around it is module UploadOperations.              *)
(***************************************************************************)
EXTENDS Integers, FiniteSets, Sequences

CONSTANTS
  Uploads,         \* upload requests to one share, all with the same file name
  Folders,         \* identities of directories
  MaxUploadSize, ShareQuota,
  ReservationSteps,\* [initial, maximum], powers of two
  ChunkSizes,
  MaxFields,       \* MAX_UPLOAD_MULTIPART_FIELDS
  MaxShareChanges, \* bound on upload_policy_epoch
  CleanupCapacity, \* TRANSFER_QUEUE_CAPACITY
  Null

ASSUME PublicUploadAssumption ==
  /\ {MaxUploadSize, ShareQuota, MaxFields, MaxShareChanges, CleanupCapacity} \subseteq Nat
  /\ ReservationSteps.initial <= ReservationSteps.maximum

VARIABLES
  policy,    \* the share: epoch, usable, can_overwrite
  replacing, \* replacements_allowed: no writers from outside
  up,        \* request -> its state
  reserver,  \* request -> its reservation worker, and the epoch it was given
  quota,     \* rows of upload_reservations, and the bytes charged; a row's
             \* "left" records that its cleanup was given up
  cleanup,   \* the cleanup queue, its worker, and the job it runs
  holder     \* the finalizer with the mutation guard

uploadVars == <<policy, replacing, up, reserver, quota, cleanup, holder>>
world == <<policy, replacing>>

Idle == [at |-> "none", epoch |-> 0]

PublicUploadInit ==
  /\ policy = [epoch |-> 0, usable |-> TRUE, can_overwrite |-> TRUE]
  /\ replacing \in BOOLEAN
  /\ up = [r \in Uploads |-> Null]
  /\ reserver = [r \in Uploads |-> Idle]
  /\ quota = [rows |-> [r \in Uploads |-> Null], charged |-> 0]
  /\ cleanup = [jobs |-> <<>>, worker |-> "idle", job |-> Null]
  /\ holder = Null

UploadIn(r, phases) == up[r] # Null /\ up[r].at \in phases
SetUp(r, next) == up' = [up EXCEPT ![r] = next]
Granted(r) == quota.rows[r] # Null
WithRow(r, value) == [quota EXCEPT !.rows[r] = value]
SetReserver(r, at) == reserver' = [reserver EXCEPT ![r].at = at]

\* The requests whose reservation the queue still has to cancel.
Queued == {cleanup.jobs[i] : i \in DOMAIN cleanup.jobs} \cup {cleanup.job}

\* The cleanup of these rows is given up: only their expiry ends them.
LeftToExpiry(rs) ==
  [quota EXCEPT !.rows = [r \in Uploads |->
     IF r \in rs /\ Granted(r) THEN [@[r] EXCEPT !.left = TRUE] ELSE @[r]]]

-----------------------------------------------------------------------------
(* The cleanup queue                                                       *)

\* A full queue takes nothing; an idle worker is launched.
Enqueued(job) ==
  [cleanup EXCEPT !.jobs = Append(@, job), !.worker = IF @ = "idle" THEN "launch" ELSE @]
QueueFull == Len(cleanup.jobs) >= CleanupCapacity
enqueue_upload_reservation_cleanup(r) ==
  IF QueueFull
    THEN quota' = LeftToExpiry({r}) /\ UNCHANGED cleanup
    ELSE cleanup' = Enqueued(r) /\ UNCHANGED quota

\* Downloads leave the cleanup of their leases to the same queue.
enqueue_transfer_lease_cleanup ==
  /\ ~QueueFull
  /\ cleanup' = Enqueued("lease")
  /\ UNCHANGED <<world, up, reserver, quota, holder>>

\* The runtime drops the worker before it ran: its guard drops the jobs too.
LaunchDiscarded ==
  /\ cleanup.worker = "launch"
  /\ quota' = LeftToExpiry(Queued)
  /\ cleanup' = [jobs |-> <<>>, worker |-> "idle", job |-> Null]
  /\ UNCHANGED <<world, up, reserver, holder>>

\* The worker takes the next job, or becomes idle in the same critical section.
drain_transfer_cleanup_queue ==
  /\ cleanup.worker \in {"launch", "drain"}
  /\ cleanup' = IF cleanup.jobs = <<>>
                  THEN [cleanup EXCEPT !.worker = "idle"]
                  ELSE [jobs |-> Tail(cleanup.jobs), worker |-> "job", job |-> Head(cleanup.jobs)]
  /\ UNCHANGED <<world, up, reserver, quota, holder>>

\* The row is removed, unless the permit does not come in time or the database
\* fails, which is only logged.
Compensated(r, done) ==
  quota' = IF done THEN WithRow(r, Null) ELSE LeftToExpiry({r})
run_transfer_cleanup_job(done) ==
  /\ cleanup.worker = "job"
  /\ IF cleanup.job \in Uploads THEN Compensated(cleanup.job, done) ELSE UNCHANGED quota
  /\ cleanup' = [cleanup EXCEPT !.worker = "drain", !.job = Null]
  /\ UNCHANGED <<world, up, reserver, holder>>

-----------------------------------------------------------------------------
(* Authorisation and the form                                              *)

\* The share is read again, and its directory bound, under the read guard.
reauthorize_claimed_public_upload(r) ==
  /\ up[r] = Null /\ reserver[r] = Idle /\ r \notin Queued /\ ~Granted(r)
  /\ holder = Null
  /\ policy.usable
  /\ \E csrf \in BOOLEAN, d \in Folders :
       SetUp(r, [at |-> "form", scope |-> d, epoch |-> policy.epoch, csrf_validated |-> csrf,
                 seen |-> {}, expected |-> Null, destination |-> Null, existed |-> FALSE,
                 total |-> 0, reserved |-> 0, chunk |-> 0])
  /\ UNCHANGED <<world, reserver, quota, cleanup, holder>>

\* The request ends; a reservation it owns goes to the cleanup queue.
LeaveUpload(r) ==
  /\ SetUp(r, Null)
  /\ IF UploadIn(r, {"staging", "writing", "staged"})
       THEN enqueue_upload_reservation_cleanup(r)
       ELSE UNCHANGED <<quota, cleanup>>
  /\ UNCHANGED <<world, reserver, holder>>

\* No field twice; only the overwrite option may follow the file.
observe(form, field) ==
  /\ Cardinality(form.seen) < MaxFields
  /\ field \notin form.seen
  /\ "file" \in form.seen => field = "overwrite"

\* A field other than the file.  valid: what the field says is acceptable.
handle_field(r, field, valid) ==
  /\ UploadIn(r, {"form", "staged"})
  /\ IF /\ observe(up[r], field) /\ valid
        /\ field = "overwrite" => replacing
       THEN /\ SetUp(r, [up[r] EXCEPT !.seen = @ \cup {field}, !.csrf_validated = @ \/ field = "csrf"])
            /\ UNCHANGED <<world, reserver, quota, cleanup, holder>>
       ELSE LeaveUpload(r)

\* What the form's folder can name in directory d: d itself without a folder,
\* and with one whatever others put there, or nothing.
Below(r, d) == IF "folder" \in up[r].seen THEN {Null} \cup (Folders \ {d}) ELSE {d}

\* The file field: the destination is bound as it is now, if it exists, and the
\* reservation is begun on a worker.
handle_file(r, named) ==
  /\ UploadIn(r, {"form"}) /\ named \in Below(r, up[r].scope)
  /\ IF observe(up[r], "file") /\ up[r].csrf_validated
       THEN /\ SetUp(r, [up[r] EXCEPT !.at = "reserving", !.seen = (@ \ {"csrf"}) \cup {"file"},
                         !.expected = named])
            /\ reserver' = [reserver EXCEPT ![r] = [at |-> "begin", epoch |-> up[r].epoch]]
            /\ UNCHANGED <<world, quota, cleanup, holder>>
       ELSE LeaveUpload(r)

-----------------------------------------------------------------------------
(* The reservation                                                         *)

HeldBytes(f) ==
  LET upTo[S \in SUBSET Uploads] ==
        IF S = {} THEN 0 ELSE LET r == CHOOSE r \in S : TRUE IN f[r] + upTo[S \ {r}]
  IN upTo[Uploads]
Others(r) ==
  HeldBytes([s \in Uploads |-> IF s # r /\ Granted(s) /\ quota.rows[s].epoch = policy.epoch
                           THEN quota.rows[s].bytes ELSE 0])
Remaining(r) == ShareQuota - quota.charged - Others(r)

\* The worker inserts the row, unless the share changed or its quota is used up;
\* it does not look whether the request is still there.
WorkerReservation(r) ==
  /\ reserver[r].at = "begin"
  /\ IF policy.usable /\ reserver[r].epoch = policy.epoch /\ Remaining(r) > 0
       THEN /\ quota' = WithRow(r, [bytes |-> 0, epoch |-> policy.epoch, left |-> FALSE])
            /\ SetReserver(r, "reserved")
       ELSE SetReserver(r, "refused") /\ UNCHANGED quota
  /\ UNCHANGED <<world, up, cleanup, holder>>

\* The worker was not admitted, or the request was gone before it was.
NotDispatched(r) ==
  /\ reserver[r].at = "begin"
  /\ SetUp(r, Null)
  /\ reserver' = [reserver EXCEPT ![r] = Idle]
  /\ UNCHANGED <<world, quota, cleanup, holder>>

\* It offers the outcome; without a receiver it cancels what it reserved, and
\* does not look whether that succeeds (done).
SendOutcome(r, done) ==
  /\ reserver[r].at \in {"reserved", "refused"}
  /\ IF reserver[r].at = "reserved" /\ UploadIn(r, {"reserving"})
       THEN /\ SetUp(r, [up[r] EXCEPT !.at = "offered"])
            /\ SetReserver(r, "handoff")
            /\ UNCHANGED quota
       ELSE /\ SetUp(r, Null)
            /\ reserver' = [reserver EXCEPT ![r] = Idle]
            /\ IF reserver[r].at = "reserved" THEN Compensated(r, done) ELSE UNCHANGED quota
  /\ UNCHANGED <<world, cleanup, holder>>

\* The request takes the row over and stages its file.
claim_reservation(r) ==
  /\ UploadIn(r, {"offered"})
  /\ SetUp(r, [up[r] EXCEPT !.at = "staging"])
  /\ reserver' = [reserver EXCEPT ![r] = Idle]
  /\ UNCHANGED <<world, quota, cleanup, holder>>

\* Mutant: a worker whose offer is not taken just ends.
HandoffForgotten(r, done) ==
  /\ reserver[r].at = "handoff" /\ up[r] = Null
  /\ reserver' = [reserver EXCEPT ![r] = Idle]
  /\ UNCHANGED <<world, up, quota, cleanup, holder>>

\* The request was dropped before it claimed the row: the worker itself runs
\* the cleanup job.
finish_upload_handoff(r, done) ==
  /\ reserver[r].at = "handoff" /\ up[r] = Null
  /\ reserver' = [reserver EXCEPT ![r] = Idle]
  /\ Compensated(r, done)
  /\ UNCHANGED <<world, up, cleanup, holder>>

\* Not extended in time.
ReservationExpires(r) ==
  /\ Granted(r)
  /\ quota' = WithRow(r, Null)
  /\ UNCHANGED <<world, up, reserver, cleanup, holder>>

-----------------------------------------------------------------------------
(* Receiving                                                               *)

Lesser(a, b) == IF a < b THEN a ELSE b
Clamped(n) ==
  CASE n < ReservationSteps.initial -> ReservationSteps.initial
    [] n > ReservationSteps.maximum -> ReservationSteps.maximum
    [] OTHER -> n
next_power_of_two(n) == CHOOSE k \in {1, 2, 4, 8, 16} : k >= n /\ (k = 1 \/ k \div 2 < n)

\* Reservations grow in steps that grow with what was received.
preferred_reservation_target(received, required, reserved) ==
  LET step == next_power_of_two(Clamped(received))
  IN IF required <= reserved
       THEN reserved
       ELSE Lesser(((required + step - 1) \div step) * step, MaxUploadSize)

Covers(r, n) == up[r].total + n <= up[r].reserved

\* The extension finds the row expired, or removes it because the share changed;
\* the request does not know and leaves its cleanup all the same.
LeaveWithoutRow(r) ==
  /\ SetUp(r, Null)
  /\ quota' = WithRow(r, Null)
  /\ cleanup' = IF QueueFull THEN cleanup ELSE Enqueued(r)
  /\ UNCHANGED <<world, reserver, holder>>

\* A chunk: within the maximum and inside the reservation, which is extended if
\* it has to be, and now and then for its lifetime.
StagedUpload_write_chunk(r, n, heartbeat) ==
  LET required == up[r].total + n
      minimum == IF required > up[r].reserved THEN required ELSE up[r].reserved
      preferred == preferred_reservation_target(up[r].total, required, up[r].reserved)
      extends == ~Covers(r, n) \/ heartbeat
      alive == Granted(r) /\ policy.usable /\ quota.rows[r].epoch = policy.epoch
      extent == CASE ~extends -> up[r].reserved
                  [] preferred <= Remaining(r) -> preferred
                  [] OTHER -> minimum
      refused == required > MaxUploadSize \/ (extends /\ alive /\ Remaining(r) < minimum)
  IN /\ UploadIn(r, {"staging"})
     /\ CASE refused -> LeaveUpload(r)
          [] ~refused /\ extends /\ ~alive -> LeaveWithoutRow(r)
          [] OTHER ->
               /\ quota' = IF extends THEN WithRow(r, [quota.rows[r] EXCEPT !.bytes = extent]) ELSE quota
               /\ SetUp(r, [up[r] EXCEPT !.at = "writing", !.reserved = extent, !.chunk = n])
               /\ UNCHANGED <<world, reserver, cleanup, holder>>

\* The chunk is written, if there is room on the disk (module DiskSpace).
StagedUploadFile_write_chunk(r) ==
  /\ UploadIn(r, {"writing"})
  /\ SetUp(r, [up[r] EXCEPT !.at = "staging", !.total = @ + up[r].chunk, !.chunk = 0])
  /\ UNCHANGED <<world, reserver, quota, cleanup, holder>>
finish_staging(r) ==
  /\ UploadIn(r, {"staging"})
  /\ SetUp(r, [up[r] EXCEPT !.at = "staged"])
  /\ UNCHANGED <<world, reserver, quota, cleanup, holder>>

\* The form ends after the file; the finalizer is spawned and cannot be dropped.
finish(r) ==
  /\ UploadIn(r, {"staged"})
  /\ SetUp(r, [up[r] EXCEPT !.at = "finalizing"])
  /\ UNCHANGED <<world, reserver, quota, cleanup, holder>>

\* The visitor goes, or something on the way fails.
DropUpload(r) ==
  /\ UploadIn(r, {"form", "reserving", "offered", "staging", "writing", "staged"})
  /\ LeaveUpload(r)

-----------------------------------------------------------------------------
(* The finalizer                                                           *)

\* The upload is rejected, and its reservation is gone or is removed.
FinalizeRejected(r) ==
  /\ SetUp(r, Null)
  /\ holder' = Null
  /\ quota' = WithRow(r, Null)
  /\ UNCHANGED <<world, reserver, cleanup>>

\* An await of the finalizer fails, the one that removes the reservation of a
\* rejected upload included: the reservation is dropped as it is.
FinalizerFails(r) ==
  /\ UploadIn(r, {"finalizing", "locked", "checked"})
  /\ SetUp(r, Null)
  /\ holder' = IF holder = r THEN Null ELSE holder
  /\ enqueue_upload_reservation_cleanup(r)
  /\ UNCHANGED <<world, reserver>>

acquire_mutation(r) ==
  /\ UploadIn(r, {"finalizing"}) /\ holder = Null
  /\ holder' = r
  /\ SetUp(r, [up[r] EXCEPT !.at = "locked"])
  /\ UNCHANGED <<world, reserver, quota, cleanup>>

\* What the paths name now is what was bound before the body was received; a
\* folder that was missing then may have appeared.
TargetMatches(r, base, named) == base = up[r].scope /\ up[r].expected \in {Null, named}

allow_replace(r) == replacing /\ policy.can_overwrite /\ "overwrite" \in up[r].seen

\* Under the guard the share, its directory and the file are looked at again.
\* base, named and existed are what others have made of the tree.
preflight_upload(r, base, named, existed) ==
  /\ UploadIn(r, {"locked"})
  /\ named \in Below(r, base) /\ existed => named # Null
  /\ IF policy.usable /\ TargetMatches(r, base, named) /\ (existed => allow_replace(r))
       THEN /\ SetUp(r, [up[r] EXCEPT !.at = "checked", !.destination = named, !.existed = existed])
            /\ UNCHANGED <<world, reserver, quota, cleanup, holder>>
       ELSE FinalizeRejected(r)

\* The reservation becomes a charge, if it still stands.
commit_upload(r) ==
  /\ UploadIn(r, {"checked"})
  /\ IF Granted(r) /\ policy.usable /\ quota.rows[r].epoch = policy.epoch /\ up[r].total <= quota.rows[r].bytes
       THEN /\ quota' = [WithRow(r, Null) EXCEPT !.charged = @ + up[r].total]
            /\ SetUp(r, [up[r] EXCEPT !.at = "committed"])
            /\ UNCHANGED <<world, reserver, cleanup, holder>>
       ELSE FinalizeRejected(r)

\* A missing folder is created now, or opened if it appeared; then the file may
\* not be in it.
prepare_publication(r, d, existed) ==
  /\ UploadIn(r, {"committed"})
  /\ IF up[r].destination = Null
       THEN d # up[r].scope
       ELSE d = up[r].destination /\ ~existed
  /\ IF existed
       THEN FinalizeRejected(r)
       ELSE /\ SetUp(r, [up[r] EXCEPT !.at = "ready", !.destination = d])
            /\ UNCHANGED <<world, reserver, quota, cleanup, holder>>

\* renameat2 with RENAME_NOREPLACE unless a replacement was allowed.
MayPublish(r, exists) == allow_replace(r) \/ ~exists

\* exists: the file is there by now; the guard keeps everyone out but the
\* writers from outside, with whom no replacement is allowed.
publish_and_audit(r, exists) ==
  /\ UploadIn(r, {"ready"})
  /\ replacing => exists = up[r].existed
  /\ IF MayPublish(r, exists)
       THEN /\ SetUp(r, [up[r] EXCEPT !.at = "published", !.existed = exists])
            /\ UNCHANGED <<world, reserver, quota, cleanup, holder>>
       ELSE FinalizeRejected(r)
Respond(r) == UploadIn(r, {"published"}) /\ FinalizeRejected(r)

-----------------------------------------------------------------------------
(* Everyone else                                                           *)

Changes(next) ==
  /\ holder = Null /\ policy.epoch < MaxShareChanges
  /\ policy' = [next EXCEPT !.epoch = @ + 1]
  /\ UNCHANGED <<replacing, up, reserver, quota, cleanup, holder>>
ToggleShare == Changes([policy EXCEPT !.usable = ~@])
ChangeStrategy == Changes([policy EXCEPT !.can_overwrite = ~@])
MoveShare == Changes(policy)

-----------------------------------------------------------------------------
UploadStep(r) ==
  \/ reauthorize_claimed_public_upload(r)
  \/ \E field \in {"folder", "overwrite", "csrf"}, valid \in BOOLEAN : handle_field(r, field, valid)
  \/ \E named \in Folders \cup {Null} : handle_file(r, named)
  \/ claim_reservation(r)
  \/ \E n \in ChunkSizes, heartbeat \in BOOLEAN : StagedUpload_write_chunk(r, n, heartbeat)
  \/ StagedUploadFile_write_chunk(r)
  \/ finish_staging(r)
  \/ finish(r)
  \/ DropUpload(r)
ReservationStep(r) ==
  \/ WorkerReservation(r) \/ NotDispatched(r)
  \/ \E done \in BOOLEAN : SendOutcome(r, done) \/ finish_upload_handoff(r, done)
  \/ ReservationExpires(r)
FinalizerStep(r) ==
  \/ acquire_mutation(r) \/ FinalizerFails(r)
  \/ \E base \in Folders, named \in Folders \cup {Null}, existed \in BOOLEAN :
       preflight_upload(r, base, named, existed)
  \/ commit_upload(r)
  \/ \E d \in Folders, existed \in BOOLEAN : prepare_publication(r, d, existed)
  \/ \E exists \in BOOLEAN : publish_and_audit(r, exists)
  \/ Respond(r)
CleanupStep ==
  \/ enqueue_transfer_lease_cleanup \/ LaunchDiscarded \/ drain_transfer_cleanup_queue
  \/ \E done \in BOOLEAN : run_transfer_cleanup_job(done)
ShareChange == ToggleShare \/ ChangeStrategy \/ MoveShare

PublicUploadNext ==
  \/ \E r \in Uploads : UploadStep(r) \/ ReservationStep(r) \/ FinalizerStep(r)
  \/ CleanupStep \/ ShareChange

PublicUploadSpec == PublicUploadInit /\ [][PublicUploadNext]_uploadVars

-----------------------------------------------------------------------------
\* A file is published in the directory that was bound for it when its field of
\* the form was read, if there was one: what the path came to name while the
\* body was received does not matter.
PublishedWhereBound ==
  \A r \in Uploads : UploadIn(r, {"published"}) => up[r].expected \in {Null, up[r].destination}

\* A file is replaced only by an upload that asked for it, and while the share
\* and the storage allow it; not even one that appears at the last moment.
ReplacedOnRequest ==
  \A r \in Uploads : UploadIn(r, {"published"}) /\ up[r].existed =>
    "overwrite" \in up[r].seen /\ policy.can_overwrite /\ replacing

\* What has been received never exceeds what the reservation holds, and the
\* charges and reservations of a policy together never exceed the quota.
WrittenIsReserved ==
  /\ \A r \in Uploads :
       UploadIn(r, {"staging", "writing", "staged", "finalizing", "locked", "checked"}) =>
         /\ up[r].total + up[r].chunk <= up[r].reserved
         /\ Granted(r) => up[r].reserved <= quota.rows[r].bytes
  /\ quota.charged <= ShareQuota

\* Someone still holds the reservation's token: its request, the worker that
\* offers it, or the cleanup queue.
Owned(r) == up[r] # Null \/ reserver[r] # Idle \/ r \in Queued

\* A row has an owner who will end it until its cleanup is given up (the queue
\* was full, its launch was discarded, the job was not admitted or failed), and
\* a row that was given up has no owner left who could extend or charge it:
\* its expires_at, once passed, is the end of it.  A queued job is never left
\* behind an idle worker.
ReservationHasOwner ==
  /\ \A r \in Uploads : Granted(r) => Owned(r) # quota.rows[r].left
  /\ cleanup.jobs # <<>> => cleanup.worker # "idle"

\* The file appears where its request was allowed to put it, and over nothing
\* it was not asked to replace; every received byte is reserved, and every
\* reservation has somebody to end it or was given up to its expiry, never both
\* (preflight_upload, publish, StagedUpload::write_chunk,
\* UploadQuotaReservation, enqueue_transfer_cleanup).
UploadAsPromised ==
  PublishedWhereBound /\ ReplacedOnRequest /\ WrittenIsReserved /\ ReservationHasOwner
=============================================================================
