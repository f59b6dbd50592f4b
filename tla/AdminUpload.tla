----------------------------- MODULE AdminUpload -----------------------------
(***************************************************************************)
(* An administrator's upload behind its form (module UploadReplay) and its *)
(* operation record (module UploadOperations): the file is staged, then a  *)
(* detached finalizer creates the missing folders and publishes the file,  *)
(* each inside a transaction that first checks the MFA session and last    *)
(* writes the audit rows.  What is on the disk cannot be rolled back with  *)
(* the transaction, and a system call may take effect and still fail.      *)
(***************************************************************************)
EXTENDS Naturals, FiniteSets

CONSTANTS
  AdminUploads,     \* requests, all with the same file name and base directory
  MaxFolders,       \* components of the folder path below the base
  MaxConcurrent,    \* upload permits
  NoUpload

ASSUME AdminUploadAssumption == {MaxFolders, MaxConcurrent} \subseteq Nat

VARIABLES
  upload,       \* request -> its state
  session_live, \* request -> its MFA session exists
  tree,         \* [depth, taken]: components that exist, and the depths with the file
  trail,        \* <<request, what>>: audit rows
  writer,       \* the finalizer with the storage guard
  replacements \* replacements_allowed: nobody else writes to the storage

adminUploadVars == <<upload, session_live, tree, trail, writer, replacements>>

AdminUploadInit ==
  /\ upload = [u \in AdminUploads |-> [at |-> "idle"]]
  /\ session_live = [u \in AdminUploads |-> TRUE]
  /\ tree = [depth |-> 0, taken |-> {}]
  /\ trail = {}
  /\ writer = NoUpload
  /\ replacements \in BOOLEAN

At(u, phase) == upload[u].at = phase
Staged(u) == upload[u].at \notin {"idle", "ended"}
Becomes(u, next) == upload' = [upload EXCEPT ![u] = next]

-----------------------------------------------------------------------------
(* Staging                                                                 *)

\* Permits, then the form up to its file, staged under a read guard.
stage_admin_upload(u, folder, overwrite) ==
  /\ At(u, "idle") /\ writer = NoUpload
  /\ Cardinality({v \in AdminUploads : Staged(v)}) < MaxConcurrent
  /\ overwrite => replacements
  /\ Becomes(u, [at |-> "staged", folder |-> folder, overwrite |-> overwrite, existed |-> FALSE,
                 created |-> FALSE, effects |-> {}, warnings |-> {}, result |-> "none"])
  /\ UNCHANGED <<session_live, tree, trail, writer, replacements>>

\* The form is cut off or refused, or the client goes: the fragment is unlinked
\* and the claim released.
DropStaged(u) ==
  /\ At(u, "staged")
  /\ Becomes(u, [at |-> "idle"])
  /\ UNCHANGED <<session_live, tree, trail, writer, replacements>>

\* The operation is marked committing and the finalizer is on its own.
SpawnFinalizer(u) ==
  /\ At(u, "staged")
  /\ Becomes(u, [upload[u] EXCEPT !.at = "directory"])
  /\ UNCHANGED <<session_live, tree, trail, writer, replacements>>

-----------------------------------------------------------------------------
(* The folders                                                             *)

\* Results that are errors.
Failed(u, retryable) ==
  [upload[u] EXCEPT !.at = "record", !.result = IF retryable THEN "retryable" ELSE "outcome_unknown"]

\* Without a folder there is nothing to create; otherwise the guard is taken now
\* and kept.
ensure_admin_upload_directory(u) ==
  /\ At(u, "directory")
  /\ IF upload[u].folder = 0
       THEN Becomes(u, [upload[u] EXCEPT !.at = "commit"]) /\ UNCHANGED writer
       ELSE writer = NoUpload /\ writer' = u /\ Becomes(u, [upload[u] EXCEPT !.at = "mkdir"])
  /\ UNCHANGED <<session_live, tree, trail, replacements>>

\* What ensure_directory_tree_with_outcome may report: how many components it
\* counts as created, whether it got to the last one and synced all of them, and
\* whether the last one counted is there (its mkdir failed and so did the probe).
TreeOutcomes(u) ==
  {o \in [created: 0 .. MaxFolders, complete: BOOLEAN, synced: BOOLEAN, present: BOOLEAN] :
     /\ tree.depth + o.created <= IF upload[u].folder > tree.depth THEN upload[u].folder ELSE tree.depth
     /\ o.complete => o.present /\ tree.depth + o.created >= upload[u].folder
     /\ o.present \/ (o.created > 0 /\ ~o.synced)}

Made(o) == IF o.present THEN o.created ELSE o.created - 1

\* Inside the transaction: the session, the tree, the audit row, the commit.  If
\* the row is lost the folders stay, and the answer will say so; without a folder
\* created, a failed transaction or a failed tree is an error.
create_admin_upload_directory_blocking(u, o, audited) ==
  /\ At(u, "mkdir") /\ o \in TreeOutcomes(u)
  /\ IF ~session_live[u]
       THEN Becomes(u, Failed(u, TRUE)) /\ UNCHANGED <<tree, trail>>
     ELSE IF o.created = 0 /\ ~(o.complete /\ audited)
       THEN Becomes(u, Failed(u, FALSE)) /\ UNCHANGED <<tree, trail>>
     ELSE /\ tree' = [tree EXCEPT !.depth = @ + Made(o)]
          /\ trail' = IF o.created > 0 /\ audited THEN trail \cup {<<u, "folders">>} ELSE trail
          /\ Becomes(u, [upload[u] EXCEPT
               !.at = IF o.complete THEN "commit" ELSE "record",
               !.created = o.created > 0,
               !.effects = IF Made(o) > 0 THEN {"folders"} ELSE {},
               !.warnings = {w \in {"storage", "audit"} :
                               IF w = "audit" THEN ~audited ELSE ~o.synced \/ ~o.complete},
               !.result = IF o.complete THEN @ ELSE "directory_uncertain"])
  /\ UNCHANGED <<session_live, writer, replacements>>

\* No database permit: before either transaction the finalizer gives up.
DatabaseBusy(u) ==
  /\ upload[u].at \in {"mkdir", "publish"}
  /\ Becomes(u, Failed(u, FALSE))
  /\ UNCHANGED <<session_live, tree, trail, writer, replacements>>

-----------------------------------------------------------------------------
(* The file                                                                *)

\* Under the guard the directory is bound and the file looked at.
commit_admin_upload(u) ==
  /\ At(u, "commit") /\ writer \in {NoUpload, u}
  /\ writer' = u
  /\ IF upload[u].folder > tree.depth
       THEN Becomes(u, Failed(u, FALSE))
       ELSE Becomes(u, [upload[u] EXCEPT !.at = "publish", !.existed = upload[u].folder \in tree.taken])
  /\ UNCHANGED <<session_live, tree, trail, replacements>>

\* The rename may take effect or not, and may report that or an error; then both
\* names are probed.  Without an answer from a probe the outcome is uncertain.
Renames(u) ==
  {n \in [moved: BOOLEAN, replied: BOOLEAN, destination: BOOLEAN, staging: BOOLEAN] :
     /\ n.moved => (upload[u].overwrite \/ upload[u].folder \notin tree.taken) /\ upload[u].folder <= tree.depth
     /\ n.replied => n.moved}
PublishOutcome(n, synced) ==
  CASE n.replied \/ (n.destination /\ n.moved) -> IF synced THEN "durable" ELSE "uncertain"
    [] ~n.replied /\ ~(n.destination /\ n.moved) /\ n.staging /\ ~n.moved -> "error"
    [] OTHER -> "uncertain"

\* Mutant: a revoked session can always be retried.
RevokedIsRetryable(u) == TRUE

\* Nothing of the request is visible if the session was gone before the file and
\* no folder was created.
SafeToRetry(u) == ~upload[u].created

publish_admin_upload_blocking(u, n, synced, audited) ==
  LET outcome == PublishOutcome(n, synced)
      t == upload[u]
      replaced == t.overwrite /\ t.existed
  IN /\ At(u, "publish") /\ n \in Renames(u)
     /\ IF ~session_live[u]
          THEN Becomes(u, Failed(u, SafeToRetry(u))) /\ UNCHANGED <<tree, trail>>
        ELSE IF outcome = "error"
          THEN Becomes(u, Failed(u, FALSE)) /\ UNCHANGED <<tree, trail>>
        ELSE /\ tree' = IF n.moved THEN [tree EXCEPT !.taken = @ \cup {t.folder}] ELSE tree
             /\ trail' = IF audited THEN trail \cup {<<u, "file">>} ELSE trail
             /\ Becomes(u, [t EXCEPT
                  !.at = "record",
                  !.effects = @ \cup (IF ~n.moved THEN {}
                                      ELSE IF t.folder \in tree.taken THEN {"file", "replaced"} ELSE {"file"}),
                  !.warnings = @ \cup (IF outcome = "durable" THEN {} ELSE {"storage"})
                                 \cup (IF audited THEN {} ELSE {"audit"}),
                  !.result = CASE replaced /\ outcome = "durable" -> "replaced"
                               [] replaced /\ outcome # "durable" -> "replaced_uncertain"
                               [] ~replaced /\ outcome = "durable" -> "created"
                               [] OTHER -> "created_uncertain"])
     /\ UNCHANGED <<session_live, writer, replacements>>

\* The result is recorded and the guard returned; a record that could not be
\* written is left to recovery, which makes it outcome_unknown.
finish_upload_operation(u, saved) ==
  /\ At(u, "record")
  /\ Becomes(u, [upload[u] EXCEPT !.at = "ended", !.result = IF saved THEN @ ELSE "outcome_unknown"])
  /\ writer' = IF writer = u THEN NoUpload ELSE writer
  /\ UNCHANGED <<session_live, tree, trail, replacements>>

-----------------------------------------------------------------------------
(* Everyone else                                                           *)

RevokeSession(u) ==
  /\ session_live[u]
  /\ session_live' = [session_live EXCEPT ![u] = FALSE]
  /\ UNCHANGED <<upload, tree, trail, writer, replacements>>

\* Another operation, which needs the guard, or a writer from outside.
OthersWrite ==
  /\ writer = NoUpload \/ ~replacements
  /\ \/ \E n \in 0 .. tree.depth : tree' = [tree EXCEPT !.taken = @ \cup {n}]
     \/ \E n \in 0 .. tree.depth : tree' = [depth |-> n, taken |-> tree.taken \cap (0 .. n)]
     \/ tree' = [tree EXCEPT !.taken = {}]
  /\ UNCHANGED <<upload, session_live, trail, writer, replacements>>

AdminUploadStep(u) ==
  \/ \E folder \in 0 .. MaxFolders, overwrite \in BOOLEAN : stage_admin_upload(u, folder, overwrite)
  \/ DropStaged(u)
  \/ SpawnFinalizer(u)
  \/ ensure_admin_upload_directory(u)
  \/ \E o \in [created: 0 .. MaxFolders, complete: BOOLEAN, synced: BOOLEAN, present: BOOLEAN],
        audited \in BOOLEAN : create_admin_upload_directory_blocking(u, o, audited)
  \/ DatabaseBusy(u)
  \/ commit_admin_upload(u)
  \/ \E n \in [moved: BOOLEAN, replied: BOOLEAN, destination: BOOLEAN, staging: BOOLEAN],
        synced, audited \in BOOLEAN : publish_admin_upload_blocking(u, n, synced, audited)
  \/ \E saved \in BOOLEAN : finish_upload_operation(u, saved)
  \/ RevokeSession(u)

AdminUploadNext == (\E u \in AdminUploads : AdminUploadStep(u)) \/ OthersWrite

AdminUploadSpec == AdminUploadInit /\ [][AdminUploadNext]_adminUploadVars

-----------------------------------------------------------------------------
Ended(u) == At(u, "ended")
Unknown(u) == upload[u].result = "outcome_unknown"

\* Whatever became visible is in the audit trail, or the answer warns that it may
\* not be, or the operation says that its outcome is not known.
EffectsAudited ==
  \A u \in AdminUploads : Ended(u) =>
    \A what \in upload[u].effects \cap {"folders", "file"} :
      <<u, what>> \in trail \/ "audit" \in upload[u].warnings \/ Unknown(u)

\* An ID is offered for a retry only if its request left nothing behind.
RetryLeftNothing ==
  \A u \in AdminUploads : Ended(u) /\ upload[u].result = "retryable" => upload[u].effects = {}

\* A definite answer is true, an indefinite one comes with a warning, and an
\* answer about folders alone never hides a published file.
AnswerTrue ==
  \A u \in AdminUploads : Ended(u) =>
    /\ upload[u].result = "created" => upload[u].effects \cap {"file", "replaced"} = {"file"}
    /\ upload[u].result = "replaced" => {"file", "replaced"} \subseteq upload[u].effects
    /\ upload[u].result = "directory_uncertain" => "file" \notin upload[u].effects
    /\ upload[u].result \in {"created_uncertain", "replaced_uncertain", "directory_uncertain"} =>
         "storage" \in upload[u].warnings

\* A replacement happens only where the form asked for one.
ReplacedWhenAsked ==
  \A u \in AdminUploads : Ended(u) /\ "replaced" \in upload[u].effects => upload[u].overwrite

\* What an administrator's upload answers and records is what it did
\* (finalize_admin_upload, whatever system call or transaction failed).
AdminUploadTruthful == EffectsAudited /\ RetryLeftNothing /\ AnswerTrue /\ ReplacedWhenAsked
=============================================================================
