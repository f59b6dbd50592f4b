--------------------------- MODULE FileOperations ---------------------------
(***************************************************************************)
(* Rename and delete of an administrator: the durable intents under the    *)
(* private staging directory, the coupled transaction on shares and audit, *)
(* and the recovery that reconciles both after a failed call, a lost       *)
(* answer or a power failure (file_ops.rs, file_ops/upload_recovery.rs,    *)
(* secure_fs/staging, secure_fs/recovery, secure_fs/journal.rs).           *)
(*                                                                         *)
(* The file system is kept twice: mem is what every call sees, disk what   *)
(* an fsync has made durable.  One storage guard serialises all writers,   *)
(* so at most one operation runs; op is that operation and its place.      *)
(***************************************************************************)
EXTENDS Integers, FiniteSets

CONSTANTS Names,         \* entries of one visible directory
          Files, Dirs,   \* identities (device and inode) of objects
          Shares,        \* shares an administrator may create
          NoEntry,       \* an absent entry, share or operation
          Home,          \* the visible directory at the start
          MaxOperations, MaxFaults, MaxExternal, MaxCrashes

Objects == Files \cup Dirs
Native == {o \in Objects : \E n \in Names : Home[n] = o}

ASSUME FileAssumption ==
  /\ Files \cap Dirs = {}
  /\ NoEntry \notin Objects
  /\ Home \in [Names -> Objects \cup {NoEntry}]
  /\ \A n, m \in Names : Home[n] = Home[m] => n = m \/ Home[n] = NoEntry
  /\ {MaxOperations, MaxFaults, MaxExternal, MaxCrashes} \subseteq Nat

VARIABLES mem, disk,     \* the file system, as seen and as synced
          nonempty,      \* directories with content
          shares, audit, \* the rows of SQLite
          op,            \* the operation that owns the storage guard
          dirty,         \* recovery_required of the storage authority
          reply,         \* what the last operation told its caller
          touched,       \* objects an external writer created or removed
          confirmed,     \* objects whose recursive delete was confirmed
          operations, faults, externals, crashes,
          outage         \* a power failure has ended every other process

database == <<shares, audit>>
counters == <<operations, externals, crashes, outage>>
vars == <<mem, disk, nonempty, shares, audit, op, dirty, reply, touched,
          confirmed, operations, faults, externals, crashes, outage>>

-----------------------------------------------------------------------------
(* The file system.                                                        *)

\* The record that names the original path of a pending deletion.
Manifest == [path : Names, object : Objects]

\* DurableFileOperation.  The tombstone's name is fresh, so its object names it.
Journal == [kind : {"rename", "delete"}, from : Names, to : Names,
            object : Objects, recursive : BOOLEAN,
            phase : {"intent", "moved", "rollback"}]

\* One visible directory and the private staging directory.
FileSystem == [visible : [Names -> Objects \cup {NoEntry}],
               pending : SUBSET (Manifest \X Objects),
               manifests : SUBSET Manifest,
               tombs : SUBSET Objects,
               journals : SUBSET Journal]

\* fsync of the directories in s.
Flush(d, m, s) ==
  [visible |-> IF "parent" \in s THEN m.visible ELSE d.visible,
   pending |-> IF "staging" \in s THEN m.pending ELSE d.pending,
   manifests |-> IF "staging" \in s THEN m.manifests ELSE d.manifests,
   tombs |-> IF "staging" \in s THEN m.tombs ELSE d.tombs,
   journals |-> IF "staging" \in s THEN m.journals ELSE d.journals]

\* rename within the visible directory, and between it and staging.
Renamed(f, n, m) ==
  [f EXCEPT !.visible = [f.visible EXCEPT ![m] = f.visible[n], ![n] = NoEntry]]
Staged(f, n, k) ==
  [f EXCEPT !.visible[n] = NoEntry, !.pending = @ \cup {<<k, f.visible[n]>>}]
Unstaged(f, k, o) ==
  [f EXCEPT !.visible[k.path] = o, !.pending = @ \ {<<k, o>>}]
Promoted(f, k, o) ==
  [f EXCEPT !.pending = @ \ {<<k, o>>}, !.tombs = @ \cup {o}]
Unburied(f, n, o) ==
  [f EXCEPT !.visible[n] = o, !.tombs = @ \ {o}]

\* entry_identity_state of a visible name.
Expected(n, o) == mem.visible[n] = o
Missing(n) == mem.visible[n] = NoEntry

Here(f, o) == \/ \E n \in Names : f.visible[n] = o
              \/ \E k \in Manifest : <<k, o>> \in f.pending
              \/ o \in f.tombs

-----------------------------------------------------------------------------
(* Calls of the operation that owns the guard.                             *)

At(pc) == [op EXCEPT !.pc = pc]

Phased(j, phase) ==
  [mem EXCEPT !.journals = (@ \ {j}) \cup {[j EXCEPT !.phase = phase]}]
Forgotten(j) == [mem EXCEPT !.journals = @ \ {j}]
Unlisted(k) == [mem EXCEPT !.manifests = @ \ {k}]

Quiet == UNCHANGED <<nonempty, shares, audit, dirty, reply, touched, confirmed>>

\* A call that turns mem into m and syncs the directories in s.  It may fail
\* without an effect, or after its effect and before that is durable.
Call(m, s, good, bad) ==
  \/ /\ mem' = m
     /\ disk' = Flush(disk, m, s)
     /\ op' = good
     /\ UNCHANGED faults
  \/ /\ faults < MaxFaults
     /\ faults' = faults + 1
     /\ mem' \in {mem, m}
     /\ op' = bad
     /\ UNCHANGED disk

\* remove_pending_manifest: only a manifest that was there is synced away.
Unlist(k, good, bad) ==
  Call(Unlisted(k), IF k \in mem.manifests THEN {"staging"} ELSE {}, good, bad)

Goto(pc) == op' = At(pc) /\ UNCHANGED <<mem, disk, faults>>

\* The journal of the running operation, and the manifest of its deletion.
Mine(j) == j \in mem.journals /\ j.object = op.object
Listing == [path |-> op.from, object |-> op.object]

-----------------------------------------------------------------------------
(* The storage guard.                                                      *)

Requests == [kind : {"rename"}, from : Names, to : Names, confirm : {FALSE}]
            \cup [kind : {"delete"}, from : Names, to : Names, confirm : BOOLEAN]

Operation(q, then) ==
  [kind |-> q.kind, from |-> q.from, to |-> q.to, confirm |-> q.confirm,
   object |-> NoEntry, named |-> FALSE, at |-> "pending", drop |-> FALSE,
   found |-> NoEntry, then |-> then, pc |-> IF dirty THEN "recover" ELSE "start"]

Reply(outcome) ==
  [outcome |-> outcome, kind |-> op.kind, from |-> op.from, to |-> op.to,
   object |-> op.object]

\* A writer takes the guard and marks storage dirty; a recovery that is due
\* comes first.
acquire_storage_mutation(q) ==
  /\ op = NoEntry
  /\ operations < MaxOperations
  /\ q.kind = "rename" => q.from # q.to
  /\ q.kind = "delete" => q.from = q.to
  /\ op' = Operation(q, "start")
  /\ dirty' = TRUE
  /\ reply' = NoEntry
  /\ operations' = operations + 1
  /\ UNCHANGED <<mem, disk, nonempty, database, touched, confirmed, faults,
                 externals, crashes, outage>>

\* A reader, the cleanup worker, the creation of a share or a start of the
\* process that finds storage dirty recovers it before anything else.
acquire_storage_read ==
  /\ op = NoEntry
  /\ dirty
  /\ \E n \in Names :
       op' = Operation([kind |-> "read", from |-> n, to |-> n, confirm |-> FALSE],
                       "finish")
  /\ UNCHANGED <<mem, disk, nonempty, database, dirty, reply, touched,
                 confirmed, faults, counters>>

\* StorageMutationGuard::finish_clean.
finish_clean ==
  /\ dirty' = FALSE
  /\ op' = NoEntry

\* The result of the operation is durable on every side.
finish_durable ==
  /\ op # NoEntry /\ op.pc = "done"
  /\ finish_clean
  /\ reply' = Reply("durable")
  /\ UNCHANGED <<mem, disk, nonempty, database, touched, confirmed, faults,
                 counters>>

\* An error is returned: the guard is dropped and storage stays dirty.
return_error ==
  /\ op # NoEntry /\ op.pc = "error"
  /\ op' = NoEntry
  /\ reply' = Reply("error")
  /\ UNCHANGED <<mem, disk, nonempty, database, dirty, touched, confirmed,
                 faults, counters>>

\* A staging that may be visible still commits its transaction, without rows.
\* If that fails the caller gets the database error.
settle_uncertain_stage ==
  /\ op # NoEntry /\ op.pc = "settle"
  /\ \/ op' = At("uncertain") /\ UNCHANGED <<reply, faults>>
     \/ /\ faults < MaxFaults /\ faults' = faults + 1
        /\ op' = NoEntry
        /\ reply' = Reply("internal")
  /\ UNCHANGED <<mem, disk, nonempty, database, dirty, touched, confirmed, counters>>

\* The mutation may be visible: the caller is told so, after one attempt at
\* recovery under the guard.
recover_uncertain_file_operation_before_unlock ==
  /\ op # NoEntry /\ op.pc = "uncertain"
  /\ op' = [op EXCEPT !.pc = "recover", !.then = "finish"]
  /\ reply' = Reply("uncertain")
  /\ UNCHANGED <<mem, disk, nonempty, database, dirty, touched, confirmed,
                 faults, counters>>

\* The transaction finds the administrator's session gone: nothing was done.
session_unavailable ==
  /\ op # NoEntry /\ op.pc = "start"
  /\ finish_clean
  /\ UNCHANGED <<mem, disk, nonempty, database, reply, touched, confirmed,
                 faults, counters>>

-----------------------------------------------------------------------------
(* The transaction on shares and audit.                                    *)

Record(j) ==
  [kind |-> j.kind, from |-> j.from, to |-> j.to, object |-> j.object]

\* rename_share_paths and deactivate_shares_for_path, with the audit row.
Applied(r) ==
  IF r.kind = "rename"
  THEN [s \in Shares |->
          IF shares[s] # NoEntry /\ shares[s].path = r.from
          THEN [shares[s] EXCEPT !.path = r.to] ELSE shares[s]]
  ELSE [s \in Shares |->
          IF shares[s] # NoEntry /\ shares[s].path = r.from
          THEN [shares[s] EXCEPT !.active = FALSE] ELSE shares[s]]

\* COMMIT succeeds, fails and rolls back, or its answer is lost.
Transaction(r, good, bad) ==
  /\ \/ /\ shares' = Applied(r) /\ audit' = audit \cup {r}
        /\ op' = good /\ UNCHANGED faults
     \/ /\ faults < MaxFaults /\ faults' = faults + 1
        /\ op' = bad
        /\ \/ UNCHANGED database
           \/ shares' = Applied(r) /\ audit' = audit \cup {r}
  /\ UNCHANGED <<mem, disk, nonempty, dirty, reply, touched, confirmed, counters>>

\* Mutant: the journal is retired without the transaction.
database_commit_skipped ==
  /\ op # NoEntry /\ op.pc = "commit"
  /\ Goto("retire")
  /\ Quiet /\ UNCHANGED counters

database_commit ==
  /\ op # NoEntry /\ op.pc = "commit"
  /\ Transaction(Record(op), At("retire"), At("uncertain"))

\* Mutant: a journal that stays is taken for a removed one.
remove_file_operation_unchecked ==
  /\ op # NoEntry /\ op.pc = "retire"
  /\ \E j \in mem.journals :
       Mine(j) /\ Call(Forgotten(j), {"staging"}, At("done"), At("done"))
  /\ Quiet /\ UNCHANGED counters

\* StagedRename::commit and PendingDeleteCommit::complete.
remove_file_operation ==
  /\ op # NoEntry /\ op.pc = "retire"
  /\ \E j \in mem.journals :
       Mine(j) /\ Call(Forgotten(j), {"staging"}, At("done"), At("uncertain"))
  /\ Quiet /\ UNCHANGED counters

-----------------------------------------------------------------------------
(* stage_rename_with_outcome.                                              *)

Intent(kind, recursive) ==
  [kind |-> kind, from |-> op.from, to |-> op.to, object |-> mem.visible[op.from],
   recursive |-> recursive, phase |-> "intent"]

\* The source is opened before anything is written.
Opened(o) == o # NoEntry

rename_write_intent ==
  /\ op # NoEntry /\ op.pc = "start" /\ op.kind = "rename"
  /\ LET o == mem.visible[op.from]
         kept == [op EXCEPT !.object = o]
     IN IF ~Opened(o)
        THEN Goto("error")
        ELSE Call([mem EXCEPT !.journals = @ \cup {Intent("rename", FALSE)}],
                  {"staging"}, [kept EXCEPT !.pc = "move"], [kept EXCEPT !.pc = "error"])
  /\ Quiet /\ UNCHANGED counters

\* rename_noreplace by name, and the probes of both names that tell what it
\* did.  A probe may fail as well.
rename_entry ==
  /\ op # NoEntry /\ op.pc = "move"
  /\ \/ /\ Missing(op.to) /\ ~Missing(op.from)
        /\ mem' = Renamed(mem, op.from, op.to)
        /\ op' = At(IF Expected(op.from, op.object) THEN "sync" ELSE "settle")
        /\ UNCHANGED <<disk, faults>>
     \/ /\ ~Missing(op.to) \/ Missing(op.from)
        /\ Goto(IF Expected(op.from, op.object) THEN "cancel" ELSE "settle")
     \/ /\ faults < MaxFaults /\ faults' = faults + 1
        /\ UNCHANGED <<mem, disk>>
        /\ op' \in {At("settle"),
                    At(IF Expected(op.from, op.object) THEN "cancel" ELSE "settle")}
     \/ /\ faults < MaxFaults /\ faults' = faults + 1
        /\ Missing(op.to) /\ ~Missing(op.from)
        /\ mem' = Renamed(mem, op.from, op.to)
        /\ op' = At("settle")
        /\ UNCHANGED disk
  /\ Quiet /\ UNCHANGED counters

rename_cancel ==
  /\ op # NoEntry /\ op.pc = "cancel"
  /\ \E j \in mem.journals :
       Mine(j) /\ Call(Forgotten(j), {"staging"}, At("error"), At("error"))
  /\ Quiet /\ UNCHANGED counters

\* Only a durable directory entry may be followed by the moved phase, and
\* only that by the transaction.
sync_rename_parent ==
  /\ op # NoEntry /\ op.pc = "sync"
  /\ Call(mem, {"parent"}, At("mark"), At("settle"))
  /\ Quiet /\ UNCHANGED counters

rename_mark_moved ==
  /\ op # NoEntry /\ op.pc = "mark" /\ op.kind = "rename"
  /\ \E j \in mem.journals :
       Mine(j) /\ Call(Phased(j, "moved"), {"staging"}, At("commit"), At("settle"))
  /\ Quiet /\ UNCHANGED counters

-----------------------------------------------------------------------------
(* stage_delete: the object moves to a private pending name.               *)

NeedsConfirmation(o) == o \in nonempty /\ ~op.confirm

write_pending_manifest ==
  /\ op # NoEntry /\ op.pc = "start" /\ op.kind = "delete"
  /\ LET o == mem.visible[op.from]
         kept == [op EXCEPT !.object = o]
         k == [path |-> op.from, object |-> o]
     IN IF o = NoEntry \/ NeedsConfirmation(o)
        THEN op' = [kept EXCEPT !.pc = "error"] /\ UNCHANGED <<mem, disk, faults, confirmed>>
        ELSE /\ Call([mem EXCEPT !.manifests = @ \cup {k}], {"staging"},
                     [kept EXCEPT !.pc = "stage"], [kept EXCEPT !.pc = "error"])
             /\ confirmed' = IF op.confirm THEN confirmed \cup {o} ELSE confirmed
  /\ UNCHANGED <<nonempty, database, dirty, reply, touched, counters>>

\* The rename into staging, and the probes after an error.
stage_pending_delete ==
  /\ op # NoEntry /\ op.pc = "stage"
  /\ \/ /\ ~Missing(op.from)
        /\ mem' = Staged(mem, op.from, Listing)
        /\ op' = At("inspect")
        /\ UNCHANGED <<disk, faults>>
     \/ Missing(op.from) /\ Goto("settle")
     \/ /\ faults < MaxFaults /\ faults' = faults + 1
        /\ UNCHANGED <<mem, disk>>
        /\ op' \in {At("settle"),
                    At(IF Expected(op.from, op.object) THEN "discard" ELSE "settle")}
     \/ /\ faults < MaxFaults /\ faults' = faults + 1
        /\ ~Missing(op.from)
        /\ mem' = Staged(mem, op.from, Listing)
        /\ op' = At("settle")
        /\ UNCHANGED disk
  /\ Quiet /\ UNCHANGED counters

discard_unused_pending_delete ==
  /\ op # NoEntry /\ op.pc = "discard"
  /\ Unlist(Listing, At("error"), At("error"))
  /\ Quiet /\ UNCHANGED counters

\* The staged object must be the inspected one, and durable in staging
\* before its visible name is durably gone.
inspect_pending_delete ==
  /\ op # NoEntry /\ op.pc = "inspect"
  /\ IF <<Listing, op.object>> \in mem.pending
     THEN Call(mem, {"staging", "parent"}, At("confirm"), At("putback"))
     ELSE Goto("putback")
  /\ Quiet /\ UNCHANGED counters

\* Only a verified and durable restore is reported as the original error.
reconcile_failed_delete_stage ==
  /\ op # NoEntry
  /\ \/ /\ op.pc = "putback"
        /\ \E x \in Objects :
             /\ <<Listing, x>> \in mem.pending
             /\ IF Missing(op.from)
                THEN Call(Unstaged(mem, Listing, x), {"parent", "staging"},
                          At(IF x = op.object THEN "unlist" ELSE "settle"),
                          At("settle"))
                ELSE Call(mem, {"parent", "staging"}, At("settle"), At("settle"))
     \/ /\ op.pc = "unlist"
        /\ Unlist(Listing, At("error"), At("settle"))
  /\ Quiet /\ UNCHANGED counters

-----------------------------------------------------------------------------
(* StagedDelete::commit_with_outcome.                                      *)

\* The confirmation is validated on the staged object, and once more before
\* the journal is written; a delete that lost it is rolled back.  Dropping
\* the staged delete swallows the error of the rollback.
promote_write_intent ==
  /\ op # NoEntry /\ op.pc = "confirm"
  /\ IF NeedsConfirmation(op.object)
     THEN /\ op' \in {[op EXCEPT !.pc = "undo", !.drop = d] : d \in BOOLEAN}
          /\ UNCHANGED <<mem, disk, faults>>
     ELSE LET j == [kind |-> "delete", from |-> op.from, to |-> op.to,
                    object |-> op.object, recursive |-> op.confirm,
                    phase |-> "intent"]
              m == [mem EXCEPT !.journals = @ \cup {j}]
          IN \/ /\ mem' = m /\ disk' = Flush(disk, m, {"staging"})
                /\ op' = [op EXCEPT !.pc = "promote", !.named = TRUE]
                /\ UNCHANGED faults
             \/ /\ faults < MaxFaults /\ faults' = faults + 1
                /\ mem' \in {mem, m}
                /\ op' = [op EXCEPT !.pc = "undo", !.named = mem' = m]
                /\ UNCHANGED disk
  /\ Quiet /\ UNCHANGED counters

\* The pending entry becomes a tombstone.  If its rename fails and the probe
\* of the tombstone fails too, the operation still looks at the pending name.
promote_for_cleanup ==
  /\ op # NoEntry /\ op.pc = "promote"
  /\ LET m == Promoted(mem, Listing, op.object)
     IN \/ /\ mem' = m /\ disk' = Flush(disk, m, {"staging"})
           /\ op' = [op EXCEPT !.pc = "mark", !.at = "tomb"]
           /\ UNCHANGED faults
        \/ /\ faults < MaxFaults /\ faults' = faults + 1
           /\ UNCHANGED disk
           /\ \/ mem' = m /\ op' \in {[op EXCEPT !.pc = "undo", !.at = a]
                                       : a \in {"pending", "tomb"}}
              \/ mem' = mem /\ op' \in {At("unname"), At("undo")}
  /\ Quiet /\ UNCHANGED counters

promote_forget_intent ==
  /\ op # NoEntry /\ op.pc = "unname"
  /\ \E j \in mem.journals :
       /\ Mine(j)
       /\ Call(Forgotten(j), {"staging"},
               [op EXCEPT !.pc = "undo", !.named = FALSE], At("undo"))
  /\ Quiet /\ UNCHANGED counters

delete_mark_moved ==
  /\ op # NoEntry /\ op.pc = "mark" /\ op.kind = "delete"
  /\ \E j \in mem.journals :
       Mine(j) /\ Call(Phased(j, "moved"), {"staging"}, At("supersede"), At("undo"))
  /\ Quiet /\ UNCHANGED counters

\* The superseded manifest is removed; an error is only logged.
remove_superseded_manifest ==
  /\ op # NoEntry /\ op.pc = "supersede"
  /\ Unlist(Listing, At("remove"), At("remove"))
  /\ Quiet /\ UNCHANGED counters

\* A recursive delete leaves its tombstone to the cleanup worker.  That of a
\* file or of an empty directory is removed at once.
Deferred(o) == o \in Dirs /\ op.confirm

remove_tombstone ==
  /\ op # NoEntry /\ op.pc = "remove"
  /\ LET o == op.object
         m == [mem EXCEPT !.tombs = @ \ {o}]
     IN IF Deferred(o)
        THEN Goto("commit")
        ELSE \/ /\ o \notin nonempty
                /\ mem' = m /\ disk' = Flush(disk, m, {"staging"})
                /\ op' = At("commit")
                /\ UNCHANGED faults
             \/ o \in nonempty /\ Goto("undo")
             \/ /\ faults < MaxFaults /\ faults' = faults + 1
                /\ UNCHANGED disk
                /\ \/ mem' = mem /\ op' = At(IF o \in Files THEN "commit" ELSE "undo")
                   \/ mem' = mem /\ o \in Dirs /\ op' = At("settle")
                   \/ /\ o \notin nonempty /\ mem' = m
                      /\ op' \in {At("settle"), At(IF o \in Files THEN "commit" ELSE "settle")}
  /\ Quiet /\ UNCHANGED counters

-----------------------------------------------------------------------------
(* StagedDelete::rollback.                                                 *)

RollbackFailed == At(IF op.drop THEN "error" ELSE "settle")

\* The decision to roll back is durable before the namespace changes.
rollback_decide ==
  /\ op # NoEntry /\ op.pc = "undo"
  /\ IF ~op.named
     THEN Goto("restore")
     ELSE IF \E j \in mem.journals : Mine(j)
     THEN \E j \in mem.journals :
            Mine(j) /\ Call(Phased(j, "rollback"), {"staging"}, At("restore"), RollbackFailed)
     ELSE op' = RollbackFailed /\ UNCHANGED <<mem, disk, faults>>
  /\ Quiet /\ UNCHANGED counters

rollback_restore ==
  /\ op # NoEntry /\ op.pc = "restore"
  /\ LET o == op.object
         found == IF op.at = "tomb" THEN o \in mem.tombs
                  ELSE <<Listing, o>> \in mem.pending
         m == IF op.at = "tomb" THEN Unburied(mem, op.from, o)
              ELSE Unstaged(mem, Listing, o)
     IN IF found /\ Missing(op.from)
        THEN Call(m, {"parent", "staging"}, At("forget"), RollbackFailed)
        ELSE op' = RollbackFailed /\ UNCHANGED <<mem, disk, faults>>
  /\ Quiet /\ UNCHANGED counters

rollback_forget ==
  /\ op # NoEntry
  /\ \/ /\ op.pc = "forget"
        /\ Unlist(Listing, At("forgotten"), At("forgotten"))
     \/ /\ op.pc = "forgotten"
        /\ IF op.named
           THEN \E j \in mem.journals :
                  Mine(j) /\ Call(Forgotten(j), {"staging"}, At("error"), RollbackFailed)
           ELSE Goto("error")
  /\ Quiet /\ UNCHANGED counters

-----------------------------------------------------------------------------
(* Recovery under the guard.  op.found is the record it works on.          *)

Found(r, pc) == [op EXCEPT !.found = r, !.pc = pc]
ListingOf(j) == [path |-> j.from, object |-> j.object]
Journaled(k) == \E j \in mem.journals : j.kind = "delete" /\ ListingOf(j) = k
IsPending(k) == \E o \in Objects : <<k, o>> \in mem.pending

\* recover_pending_deletions, first loop: a manifest without its pending entry
\* belongs to a restored deletion, so the original path must exist.
StaleManifests == {k \in mem.manifests : ~Journaled(k) /\ ~IsPending(k)}

recover_stale_manifest ==
  /\ op # NoEntry /\ op.pc = "recover"
  /\ \E k \in StaleManifests :
       IF Missing(k.path)
       THEN Goto("giveup")
       ELSE Call(mem, {"parent", "staging"}, Found(k, "recover_unlist"), At("giveup"))
  /\ Quiet /\ UNCHANGED counters

\* Second loop: a pending entry without a journal goes back to its name.
recover_pending_entry ==
  /\ op # NoEntry /\ op.pc = "recover"
  /\ StaleManifests = {}
  /\ \E k \in Manifest, o \in Objects :
       /\ <<k, o>> \in mem.pending /\ ~Journaled(k)
       /\ IF k \notin mem.manifests \/ ~Missing(k.path)
          THEN Goto("giveup")
          ELSE Call(Unstaged(mem, k, o), {"parent", "staging"},
                    Found(k, "recover_unlist"), At("giveup"))
  /\ Quiet /\ UNCHANGED counters

recover_unlist ==
  /\ op # NoEntry /\ op.pc = "recover_unlist"
  /\ Unlist(op.found, At("recover"), At("giveup"))
  /\ Quiet /\ UNCHANGED counters

recovered_pending_deletions ==
  /\ op # NoEntry /\ op.pc = "recover"
  /\ StaleManifests = {}
  /\ \A e \in mem.pending : Journaled(e[1])
  /\ Goto("redo")
  /\ Quiet /\ UNCHANGED counters

\* An intent whose object is still in place is cancelled, never replayed.
CancelIntent(j) == Call(Forgotten(j), {"staging"}, At("redo"), At("giveup"))

\* Mutant: a move that was not marked yet is dropped.
AfterMoveCancelled(j) == IF j.phase = "intent" THEN "cancelled" ELSE "record"
\* A move that happened is recorded, in the moved phase.
AfterMove(j) == IF j.phase = "intent" THEN "advance" ELSE "record"

\* recover_rename_operation.  The transaction is redone only for the object
\* that is proved to be at the new name.
recover_rename_operation(j) ==
  /\ op # NoEntry /\ op.pc = "redo" /\ j.kind = "rename"
  /\ LET new == mem.visible[j.to] IN
     \/ /\ new = j.object
        /\ Call(mem, {"parent"}, Found(j, AfterMove(j)), At("giveup"))
     \/ /\ new = NoEntry /\ j.phase = "intent" /\ Expected(j.from, j.object)
        /\ CancelIntent(j)
     \/ /\ new = NoEntry /\ j.phase = "moved"
        /\ op' = Found(j, "record") /\ UNCHANGED <<mem, disk, faults>>
     \/ /\ \/ new \notin {j.object, NoEntry}
           \/ new = NoEntry /\ j.phase = "intent" /\ ~Expected(j.from, j.object)
        /\ Goto("giveup")
  /\ Quiet /\ UNCHANGED counters

\* A phase is replaced before what it allows.
recover_advance ==
  /\ op # NoEntry /\ op.pc = "advance"
  /\ Call(Phased(op.found, "moved"), {"staging"},
          Found([op.found EXCEPT !.phase = "moved"], "record"), At("giveup"))
  /\ Quiet /\ UNCHANGED counters

\* Mutant: a finished rollback is not recognised.
RolledBackNever(j) == FALSE
\* The namespace rollback was complete before.
RolledBack(j) ==
  /\ Expected(j.from, j.object)
  /\ <<ListingOf(j), j.object>> \notin mem.pending /\ j.object \notin mem.tombs

\* recover_delete_rollback: the object returns to its name from wherever in
\* staging it is.
recover_delete_rollback(j) ==
  /\ op # NoEntry /\ op.pc = "redo" /\ j.kind = "delete" /\ j.phase # "moved"
  /\ LET old == mem.visible[j.from]
         held == <<ListingOf(j), j.object>> \in mem.pending
         buried == j.object \in mem.tombs
     IN IF RolledBack(j)
        THEN Call(mem, {"parent"}, Found(j, "clear"), At("giveup"))
        ELSE IF old = NoEntry /\ (held \/ buried)
        THEN Call(IF held THEN Unstaged(mem, ListingOf(j), j.object)
                  ELSE Unburied(mem, j.from, j.object),
                  {"parent", "staging"}, Found(j, "clear"), At("giveup"))
        ELSE Goto("giveup")
  /\ Quiet /\ UNCHANGED counters

recover_cancelled ==
  /\ op # NoEntry
  /\ \/ /\ op.pc = "clear"
        /\ Unlist(ListingOf(op.found), At("cancelled"), At("giveup"))
     \/ /\ op.pc = "cancelled"
        /\ Call(Forgotten(op.found), {"staging"}, At("redo"), At("giveup"))
  /\ Quiet /\ UNCHANGED counters

\* Both private names are gone: the physical deletion was complete.
DeletionResolved(j) == Found(j, "record")

\* recover_delete_operation in the moved phase: the deletion is completed.
recover_delete_operation(j) ==
  /\ op # NoEntry /\ op.pc = "redo" /\ j.kind = "delete" /\ j.phase = "moved"
  /\ IF j.object \in mem.tombs
     THEN op' = Found(j, "bury") /\ UNCHANGED <<mem, disk, faults>>
     ELSE IF <<ListingOf(j), j.object>> \in mem.pending
     THEN Call(Promoted(mem, ListingOf(j), j.object), {"staging"},
               Found(j, "bury"), At("giveup"))
     ELSE Unlist(ListingOf(j), DeletionResolved(j), At("giveup"))
  /\ Quiet /\ UNCHANGED counters

\* The tombstone goes as in the operation.  A directory that was filled and
\* may not be removed recursively turns the deletion into a rollback.
recover_tombstone ==
  /\ op # NoEntry
  /\ LET j == op.found IN
     \/ /\ op.pc = "bury"
        /\ Unlist(ListingOf(j), At("purge"), At("giveup"))
     \/ /\ op.pc = "purge"
        /\ IF j.object \in Dirs /\ j.recursive
           THEN Goto("record")
           ELSE IF j.object \notin nonempty
           THEN Call([mem EXCEPT !.tombs = @ \ {j.object}], {"staging"},
                     At("record"), At("giveup"))
           ELSE Call(Phased(j, "rollback"), {"staging"},
                     Found([j EXCEPT !.phase = "rollback"], "unbury"), At("giveup"))
     \/ /\ op.pc = "unbury"
        /\ IF Missing(j.from)
           THEN Call(Unburied(mem, j.from, j.object), {"parent", "staging"},
                     At("cancelled"), At("giveup"))
           ELSE Goto("giveup")
  /\ Quiet /\ UNCHANGED counters

\* The transaction of the interrupted operation, and then its journal.
recover_record ==
  /\ op # NoEntry /\ op.pc = "record"
  /\ Transaction(Record(op.found), At("complete"), At("giveup"))

complete_file_operation ==
  /\ op # NoEntry /\ op.pc = "complete"
  /\ Call(Forgotten(op.found), {"staging"}, At("redo"), At("giveup"))
  /\ Quiet /\ UNCHANGED counters

\* Every journal is reconciled: the request starts, or storage is clean.
\* Outside an operation the upload rows are recovered too, which may fail.
recovered ==
  /\ op # NoEntry /\ op.pc = "redo" /\ mem.journals = {}
  /\ \/ op.then = "start" /\ op' = At("start") /\ UNCHANGED <<dirty, faults>>
     \/ op.then = "finish" /\ finish_clean /\ UNCHANGED faults
     \/ /\ op.then = "start" \/ op.kind = "read"
        /\ faults < MaxFaults /\ faults' = faults + 1
        /\ op' = At("giveup") /\ UNCHANGED dirty
  /\ UNCHANGED <<mem, disk, nonempty, database, reply, touched, confirmed, counters>>

\* Recovery failed: the guard is dropped and storage stays dirty.
recovery_failed ==
  /\ op # NoEntry /\ op.pc = "giveup"
  /\ op' = NoEntry
  /\ reply' = IF op.then = "start" THEN Reply("error") ELSE reply
  /\ UNCHANGED <<mem, disk, nonempty, database, dirty, touched, confirmed,
                 faults, counters>>

-----------------------------------------------------------------------------
(* Shares, the cleanup worker, other writers and power failures.           *)

\* A share is created for an entry that is looked up under a clean guard.
create_share(s, n) ==
  /\ op = NoEntry /\ ~dirty
  /\ shares[s] = NoEntry /\ ~Missing(n)
  /\ shares' = [shares EXCEPT ![s] = [path |-> n, active |-> TRUE,
                                      target |-> mem.visible[n]]]
  /\ UNCHANGED <<mem, disk, nonempty, audit, op, dirty, reply, touched,
                 confirmed, faults, counters>>

\* The cleanup worker removes tombstones no delete journal names.
Cleanable ==
  {o \in mem.tombs : \A j \in mem.journals : j.kind = "delete" => j.object # o}

run_batch ==
  /\ op = NoEntry /\ ~dirty
  /\ \E o \in Cleanable : mem' = [mem EXCEPT !.tombs = @ \ {o}]
  /\ UNCHANGED <<disk, nonempty, database, op, dirty, reply, touched,
                 confirmed, faults, counters>>

\* Another process with access to the directory, at any time.  It may write
\* through a handle into a directory that is in staging by now.
ExternalPut(n, o) ==
  /\ o \notin Native \cup touched
  /\ mem' = [mem EXCEPT !.visible[n] = o]
  /\ touched' = touched \cup ({o, mem.visible[n]} \ {NoEntry})
  /\ UNCHANGED nonempty
ExternalRemove(n) ==
  /\ ~Missing(n)
  /\ mem' = [mem EXCEPT !.visible[n] = NoEntry]
  /\ touched' = touched \cup {mem.visible[n]}
  /\ UNCHANGED nonempty
ExternalFill(d) ==
  /\ (\E n \in Names : mem.visible[n] = d) \/ (~outage /\ Here(mem, d))
  /\ nonempty' = nonempty \cup {d}
  /\ UNCHANGED <<mem, touched>>

External ==
  /\ externals < MaxExternal
  /\ externals' = externals + 1
  /\ \/ \E n \in Names, o \in Objects : ExternalPut(n, o)
     \/ \E n \in Names : ExternalRemove(n)
     \/ \E d \in Dirs \ nonempty : ExternalFill(d)
  /\ UNCHANGED <<disk, database, op, dirty, reply, confirmed, operations,
                 faults, crashes, outage>>

\* After a power failure each directory is as synced or as last seen; a
\* rename between them is atomic.
Survivors ==
  {Flush(disk, mem, s) : s \in SUBSET {"parent", "staging"}}

Consistent(f) ==
  \A o \in Objects :
    /\ Cardinality({n \in Names : f.visible[n] = o}) + Cardinality({k \in f.pending : k[2] = o})
         + Cardinality(f.tombs \cap {o}) <= 1
    /\ Here(mem, o) /\ Here(disk, o) => Here(f, o)

\* The process ends alone, or with the machine.
Crash ==
  /\ crashes < MaxCrashes
  /\ crashes' = crashes + 1
  /\ \/ UNCHANGED <<mem, disk, outage>>
     \/ /\ \E f \in Survivors : Consistent(f) /\ mem' = f /\ disk' = f
        /\ outage' = TRUE
  /\ op' = NoEntry
  /\ dirty' = TRUE
  /\ UNCHANGED <<nonempty, database, reply, touched, confirmed, operations,
                 faults, externals>>

-----------------------------------------------------------------------------

Init ==
  /\ mem = [visible |-> Home, pending |-> {}, manifests |-> {}, tombs |-> {},
            journals |-> {}]
  /\ disk = mem
  /\ nonempty \in SUBSET (Dirs \cap Native)
  /\ shares = [s \in Shares |-> NoEntry]
  /\ audit = {}
  /\ op = NoEntry
  /\ dirty = TRUE
  /\ reply = NoEntry
  /\ touched = {} /\ confirmed = {}
  /\ operations = 0 /\ faults = 0 /\ externals = 0 /\ crashes = 0
  /\ outage = FALSE

RenameStep == rename_write_intent \/ rename_entry \/ rename_cancel
              \/ sync_rename_parent \/ rename_mark_moved

StageStep == write_pending_manifest \/ stage_pending_delete
             \/ discard_unused_pending_delete \/ inspect_pending_delete
             \/ reconcile_failed_delete_stage

DeleteStep == promote_write_intent \/ promote_for_cleanup
              \/ promote_forget_intent \/ delete_mark_moved
              \/ remove_superseded_manifest \/ remove_tombstone
              \/ rollback_decide \/ rollback_restore \/ rollback_forget

RecoveryStep ==
  \/ recover_stale_manifest \/ recover_pending_entry \/ recover_unlist
  \/ recovered_pending_deletions \/ recover_advance \/ recover_cancelled
  \/ recover_tombstone \/ recover_record \/ complete_file_operation
  \/ recovered \/ recovery_failed
  \/ \E j \in mem.journals : \/ recover_rename_operation(j)
                              \/ recover_delete_rollback(j)
                              \/ recover_delete_operation(j)

FinishStep == database_commit \/ remove_file_operation \/ finish_durable
              \/ return_error \/ settle_uncertain_stage
              \/ recover_uncertain_file_operation_before_unlock
              \/ session_unavailable

\* The spawned blocking task of the operation that owns the guard.
Progress == RenameStep \/ StageStep \/ DeleteStep \/ RecoveryStep \/ FinishStep

Next ==
  \/ \E q \in Requests : acquire_storage_mutation(q)
  \/ acquire_storage_read
  \/ Progress
  \/ \E s \in Shares, n \in Names : create_share(s, n)
  \/ run_batch
  \/ External
  \/ Crash

Spec == Init /\ [][Next]_vars

\* The blocking task runs to its end whatever its caller does, and the cleanup
\* worker retries until it gets a clean guard.
FileFairness == WF_vars(Progress) /\ WF_vars(acquire_storage_read)
FairSpec == Spec /\ FileFairness

-----------------------------------------------------------------------------
(* Properties.                                                             *)

Places == {"recover", "recover_unlist", "redo", "advance", "clear", "cancelled",
           "bury", "purge", "unbury", "record", "complete", "giveup",
           "start", "move", "cancel", "sync", "mark", "commit", "retire",
           "done", "error", "settle", "uncertain",
           "stage", "discard", "inspect", "putback", "unlist", "confirm",
           "promote", "unname", "supersede", "remove",
           "undo", "restore", "forget", "forgotten"}

OperationRecord ==
  [kind : {"rename", "delete", "read"}, from : Names, to : Names,
   confirm : BOOLEAN, object : Objects \cup {NoEntry}, named : BOOLEAN,
   at : {"pending", "tomb"}, drop : BOOLEAN,
   found : Manifest \cup Journal \cup {NoEntry},
   then : {"start", "finish"}, pc : Places]

AuditRecord ==
  [kind : {"rename", "delete"}, from : Names, to : Names, object : Objects]

ReplyRecord ==
  [outcome : {"durable", "error", "uncertain", "internal"},
   kind : {"rename", "delete", "read"}, from : Names, to : Names,
   object : Objects \cup {NoEntry}]

\* The file system, the rows and the running operation keep their types.
TypeOK ==
  /\ mem \in FileSystem /\ disk \in FileSystem
  /\ nonempty \subseteq Dirs
  /\ shares \in [Shares -> [path : Names, active : BOOLEAN, target : Objects]
                           \cup {NoEntry}]
  /\ audit \subseteq AuditRecord
  /\ op \in OperationRecord \cup {NoEntry}
  /\ dirty \in BOOLEAN
  /\ reply \in ReplyRecord \cup {NoEntry}
  /\ touched \subseteq Objects /\ confirmed \subseteq Objects
  /\ operations \in 0..MaxOperations /\ faults \in 0..MaxFaults
  /\ externals \in 0..MaxExternal /\ crashes \in 0..MaxCrashes
  /\ outage \in BOOLEAN

\* While storage is clean an active share shows the object it was created
\* for: a rename or delete that was interrupted anywhere has been reconciled
\* with the share rows (rename_share_paths, deactivate_shares_for_path).
SharesFollow ==
  ~dirty => \A s \in Shares :
    shares[s] # NoEntry /\ shares[s].active /\ shares[s].target \notin touched
      => mem.visible[shares[s].path] = shares[s].target

\* While storage is clean an object is gone exactly when its deletion is
\* audited, and is under another name only if that rename is audited
\* (required_transaction_for_mfa_session_audited and the recovery's own rows).
AuditedChanges ==
  ~dirty => \A o \in Native \ touched :
    LET at == {n \in Names : mem.visible[n] = o}
    IN /\ at = {} <=> \E r \in audit : r.kind = "delete" /\ r.object = o
       /\ \A n \in at : Home[n] = o
            \/ \E r \in audit : r.kind = "rename" /\ r.to = n /\ r.object = o

\* An operation that was refused or failed with an I/O error has, once storage
\* is clean again, left its object under the old name (the error paths of
\* rename and delete, StagedDelete::rollback, Cancelled in recovery).
FailedUnchanged ==
  ~dirty /\ reply # NoEntry /\ reply.outcome = "error"
    /\ reply.object \notin touched \cup {NoEntry}
  => mem.visible[reply.from] = reply.object

\* A result reported as durable survives a power failure: it is on disk, in
\* SQLite, and no journal is left that could redo or undo it
\* (AuditDurability::Durable).
DurableReply ==
  reply # NoEntry /\ reply.outcome = "durable" =>
    /\ Record(reply) \in audit
    /\ \A f \in {mem, disk} :
         /\ \A j \in f.journals : j.object # reply.object
         /\ reply.object \notin touched =>
              \A n \in Names : f.visible[n] = reply.object
                               <=> reply.kind = "rename" /\ n = reply.to

\* Clean storage is durable: what a reader sees of an object no other process
\* touched is what a power failure would leave (the syncs of every path that
\* ends in finish_clean).
CleanIsDurable ==
  ~dirty => \A n \in Names :
    mem.visible[n] # disk.visible[n] => {mem.visible[n], disk.visible[n]} \subseteq touched \cup {NoEntry}

\* Clean storage agrees with the share rows, with the audit and with the disk
\* (finish_clean after an operation or a recovery).
StorageAgrees == SharesFollow /\ AuditedChanges /\ CleanIsDurable

\* Nothing in staging is orphaned: a pending entry has a manifest or a journal
\* that leads back to its name, and a tombstone without a journal, which the
\* cleanup worker may destroy, belongs to an audited deletion.
UncommittedKept ==
  /\ \A e \in mem.pending : e[1] \in mem.manifests \/ Journaled(e[1])
  /\ \A o \in Cleanable : \E r \in audit : r.kind = "delete" /\ r.object = o

\* A directory with content is destroyed only by a delete that was confirmed
\* (validate_delete_confirmation, confirm_empty_only and the non-recursive
\* recovery).
ContentKept ==
  \A d \in nonempty \ (confirmed \cup touched) : Here(mem, d)

\* No interruption loses an object: a failed operation leaves it in place, a
\* staged one has a way back, content goes only with a confirmation.
NothingLost == FailedUnchanged /\ UncommittedKept /\ ContentKept

\* Two records recovery refuses for good: a manifest whose object is neither
\* pending nor under its name, and the intent of a rename onto a taken name.
LostManifest == \E k \in StaleManifests : Missing(k.path)
TakenIntent ==
  \E j \in mem.journals : /\ j.kind = "rename" /\ j.phase = "intent"
                          /\ mem.visible[j.to] \notin {j.object, NoEntry}

\* Whatever call failed and wherever the power went, storage becomes clean
\* again, except behind those two records (the retries of
\* recover_pending_file_operations by later requests and the cleanup worker).
Recovers == dirty ~> (~dirty \/ LostManifest \/ TakenIntent)

\* "A stale pending manifest is harmless and startup removes it once the
\* now-renamed pending entry is absent" (the comment in commit_with_outcome).
StaleManifestHarmless ==
  \A k \in Manifest :
    (op # NoEntry /\ op.pc = "recover" /\ k \in StaleManifests)
      ~> k \notin StaleManifests

\* "The source name is still unchanged, so recovery can safely cancel it
\* without touching SQLite" (the comment in stage_rename_with_outcome).
RenameIntentCancelled ==
  \A j \in Journal :
    (dirty /\ j \in mem.journals /\ j.kind = "rename" /\ j.phase = "intent"
       /\ Expected(j.from, j.object)) ~> j \notin mem.journals

=====================================
