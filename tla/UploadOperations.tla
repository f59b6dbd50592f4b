---------------------------- MODULE UploadOperations ----------------------------
(***************************************************************************)
(* Upload operations: the idempotency record of one logical upload         *)
(* (src/db/upload_operations.rs), the requests that claim it, the detached *)
(* finalizers that commit it (public_upload_transport/finalizer.rs,        *)
(* web/files/admin_upload_operation.rs), in-process and startup recovery   *)
(* (file_ops/upload_recovery.rs) and the cleanup of staged fragments       *)
(* (storage_cleanup.rs, secure_fs/recovery/fragments.rs).                  *)
(*                                                                         *)
(* A request r uploads ContentOf[r] under operation OpOf[r].  Its phase is *)
(* the point its task has reached; a request that is cancelled leaves      *)
(* behind the database call it was waiting for, and its release.  A staged *)
(* fragment is named by the request that wrote it.  Retention is a flag    *)
(* that any row may raise at any time, so no assumption is made on clocks. *)
(***************************************************************************)
EXTENDS Naturals, FiniteSets

CONSTANTS Ids, Requests, Contents, OpOf, ContentOf, None,
          MaxUnusedPerScope, MaxUnusedGlobal, MaxAllPerScope, MaxAllGlobal,
          DatabaseErrors,    \* may a finish or a release fail in the database?
          MaxCrashes

Scopes == {"admin", "share"}
Others == {"nobody", "recovery", "cleanup"}

ASSUME RequestAssumption ==
    /\ OpOf \in [Requests -> Ids]
    /\ ContentOf \in [Requests -> Contents]
    /\ Requests \cap Others = {}
    /\ None \notin Requests \cup Contents
    /\ IsFiniteSet(Ids)
ASSUME BoundAssumption ==
    /\ {MaxUnusedPerScope, MaxUnusedGlobal, MaxAllPerScope, MaxAllGlobal} \subseteq Nat
    /\ DatabaseErrors \in BOOLEAN
    /\ MaxCrashes \in Nat

VARIABLES
    ops,        \* the table upload_operations
    phase,      \* where each request's task is
    result,     \* what its finalizer's run returned
    calls,      \* the database call a request has dispatched, "none" if none
    active,     \* active_upload_operations: a set of ids, not of guards
    holder,     \* who holds the storage mutation guard
    dirty,      \* recovery_required
    snapshot,   \* active_upload_operations as a running recovery read it
    protected,  \* protected_upload_fragments as a running cleanup read it
    fragments,  \* staged files that exist
    up,         \* the process serves requests
    crashes,    \* crashes so far
    published,  \* history: requests whose file became visible
    charges     \* history: times an operation's quota was booked

vars == <<ops, phase, result, calls, active, holder, dirty, snapshot, protected,
          fragments, up, crashes, published, charges>>

Unused == {"ready", "retryable"}
Pending == {"processing", "committing"}
Terminal == {"completed", "rejected", "outcome_unknown"}
Absent == {"none", "gone"}

Row == [state : Unused \cup Pending \cup Terminal \cup Absent, scope : Scopes,
        fingerprint : Contents \cup {None}, fragment : Requests \cup {None},
        charged : BOOLEAN, expired : BOOLEAN]

NewRow(state, scope) ==
    [state |-> state, scope |-> scope, fingerprint |-> None, fragment |-> None,
     charged |-> FALSE, expired |-> FALSE]

(* The phases in which a request owns its staged file, and is a finalizer. *)
Staging == {"staged", "calling", "bound"}
Finalizing == {"committing", "recovering", "locked", "charged"}
Ending == {"published", "ending", "finished", "lost"}
Phases == {"idle", "claimed", "receiving", "releasing", "done"}
              \cup Staging \cup Finalizing \cup Ending
Results == {"completed", "directory_uncertain", "rejected", "retryable",
            "outcome_unknown"}

RowOf(r) == ops[OpOf[r]]
UpdateRow(r, row) == ops' = [ops EXCEPT ![OpOf[r]] = row]
Go(r, p) == phase' = [phase EXCEPT ![r] = p]

Init ==
    /\ ops = [i \in Ids |-> NewRow("none", "share")]
    /\ phase = [r \in Requests |-> "idle"]
    /\ result = [r \in Requests |-> "outcome_unknown"]
    /\ calls = [r \in Requests |-> "none"]
    /\ active = {} /\ snapshot = {} /\ protected = {} /\ fragments = {}
    /\ holder = "nobody" /\ dirty = FALSE /\ up = TRUE /\ crashes = 0
    /\ published = {} /\ charges = [i \in Ids |-> 0]

-----------------------------------------------------------------------------
(* create_upload_operation: prunes expired rows, then counts. A refusal     *)
(* rolls the pruning back.                                                  *)
Pruned ==
    [i \in Ids |-> IF ops[i].expired /\ ops[i].state \in Unused \cup Terminal
                   THEN [ops[i] EXCEPT !.state = "gone"] ELSE ops[i]]

Full(table, scope) ==
    LET all == {i \in Ids : table[i].state \notin Absent}
        unused == {i \in Ids : table[i].state \in Unused}
        own == {i \in Ids : table[i].scope = scope}
    IN  \/ Cardinality(unused \cap own) >= MaxUnusedPerScope
        \/ Cardinality(unused) >= MaxUnusedGlobal
        \/ Cardinality(all \cap own) >= MaxAllPerScope
        \/ Cardinality(all) >= MaxAllGlobal

create_upload_operation(i, scope) ==
    /\ up /\ ops[i].state = "none"
    /\ ~Full(Pruned, scope)
    /\ ops' = [Pruned EXCEPT ![i] = NewRow("ready", scope)]
    /\ UNCHANGED <<phase, result, calls, active, holder, dirty, snapshot,
                   protected, fragments, up, crashes, published, charges>>

(* claim_upload_operation commits 'processing' and only then registers the   *)
(* guard; a claim that finds another state is refused and changes nothing.   *)
claim_upload_operation(r) ==
    /\ up /\ phase[r] = "idle"
    /\ RowOf(r).state \in Unused /\ ~RowOf(r).expired
    /\ UpdateRow(r, [RowOf(r) EXCEPT !.state = "processing"])
    /\ Go(r, "claimed")
    /\ UNCHANGED <<result, calls, active, holder, dirty, snapshot, protected,
                   fragments, up, crashes, published, charges>>

register_active_upload_operation(r) ==
    /\ phase[r] = "claimed"
    /\ active' = active \cup {OpOf[r]}
    /\ Go(r, "receiving")
    /\ UNCHANGED <<ops, result, calls, holder, dirty, snapshot, protected,
                   fragments, up, crashes, published, charges>>

(* The multipart body has been staged completely. *)
Stage(r) ==
    /\ phase[r] = "receiving"
    /\ fragments' = fragments \cup {r}
    /\ Go(r, "staged")
    /\ UNCHANGED <<ops, result, calls, active, holder, dirty, snapshot, protected,
                   up, crashes, published, charges>>

(* The request dispatches the call that binds its fingerprint, or (a public  *)
(* upload whose form is rejected, its staged file dropped) the one that      *)
(* records the rejection.                                                    *)
DispatchBind(r) ==
    /\ phase[r] = "staged"
    /\ calls' = [calls EXCEPT ![r] = "bind"]
    /\ Go(r, "calling")
    /\ UNCHANGED <<ops, result, active, holder, dirty, snapshot, protected,
                   fragments, up, crashes, published, charges>>

DispatchReject(r) ==
    /\ phase[r] \in {"receiving", "staged"} /\ RowOf(r).scope = "share"
    /\ calls' = [calls EXCEPT ![r] = "reject"]
    /\ fragments' = fragments \ {r}
    /\ Go(r, "calling")
    /\ UNCHANGED <<ops, result, active, holder, dirty, snapshot, protected, up,
                   crashes, published, charges>>

(* UploadClaimGuard::drop unregisters at once and spawns the release; the    *)
(* PendingUpload it is dropped with unlinks its fragment.                    *)
DropRequest(r) ==
    /\ active' = active \ {OpOf[r]}
    /\ fragments' = fragments \ {r}
    /\ Go(r, "releasing")

(* The client disconnects, or a check or a database call fails. A call that  *)
(* was already dispatched still runs to its end.                             *)
Abort(r) ==
    /\ phase[r] \in {"receiving"} \cup Staging
    /\ DropRequest(r)
    /\ UNCHANGED <<ops, result, calls, holder, dirty, snapshot, protected, up,
                   crashes, published, charges>>

-----------------------------------------------------------------------------
(* The statements of upload_operations.rs, as functions of a row.            *)
Bindable(row, c) == row.state \in Pending /\ row.fingerprint \in {None, c}

Released(row) ==
    IF row.state = "processing"
    THEN [row EXCEPT !.state = "retryable", !.fingerprint = None, !.fragment = None]
    ELSE row

Finished(row, state) ==
    IF row.state \in Pending
    THEN [row EXCEPT !.state = state,
                     !.expired = IF state = "retryable" THEN @ ELSE FALSE,
                     !.fingerprint = IF state = "retryable" THEN None ELSE @,
                     !.fragment = IF state = "outcome_unknown" THEN @ ELSE None]
    ELSE row

(* Mutant: startup lets a client retry whatever was pending. *)
RecoveredToRetry(table, running) ==
    [i \in Ids |->
        IF i \in running \/ table[i].state \notin Pending THEN table[i]
        ELSE [table[i] EXCEPT !.state = "retryable", !.fingerprint = None, !.fragment = None]]

(* recover_upload_operations, given the ids it read from the registry. *)
Recovered(table, running) ==
    [i \in Ids |->
        IF i \in running THEN table[i]
        ELSE IF table[i].state = "committing"
             THEN [table[i] EXCEPT !.state = "outcome_unknown", !.expired = FALSE]
             ELSE Released(table[i])]

(* The dispatched call runs. A request still waiting for it goes on, one     *)
(* that was cancelled meanwhile does not notice.                             *)
bind_upload_fingerprint(r) ==
    LET ok == Bindable(RowOf(r), ContentOf[r])
        waiting == phase[r] = "calling"
    IN  /\ calls[r] = "bind"
        /\ calls' = [calls EXCEPT ![r] = "none"]
        /\ UpdateRow(r, IF ok THEN [RowOf(r) EXCEPT !.fingerprint = ContentOf[r],
                                                    !.fragment = r]
                        ELSE RowOf(r))
        /\ \/ waiting /\ ok /\ Go(r, "bound") /\ UNCHANGED <<active, fragments>>
           \/ waiting /\ ~ok /\ DropRequest(r)
           \/ ~waiting /\ UNCHANGED <<phase, active, fragments>>
        /\ UNCHANGED <<result, holder, dirty, snapshot, protected, up, crashes,
                       published, charges>>

RejectForm(r) ==
    /\ calls[r] = "reject"
    /\ calls' = [calls EXCEPT ![r] = "none"]
    /\ UpdateRow(r, Finished(RowOf(r), "rejected"))
    /\ IF phase[r] = "calling" THEN DropRequest(r)
                               ELSE UNCHANGED <<phase, active, fragments>>
    /\ UNCHANGED <<result, holder, dirty, snapshot, protected, up, crashes,
                   published, charges>>

(* Mutant: the request ends without releasing its row. *)
ReleaseForgotten(r) ==
    /\ phase[r] = "releasing"
    /\ Go(r, "done")
    /\ UNCHANGED <<ops, result, calls, active, holder, dirty, snapshot, protected,
                   fragments, up, crashes, published, charges>>

release_upload_operation(r) ==
    /\ phase[r] = "releasing"
    /\ \/ UpdateRow(r, Released(RowOf(r)))
       \/ DatabaseErrors /\ UNCHANGED ops
    /\ Go(r, "done")
    /\ UNCHANGED <<result, calls, active, holder, dirty, snapshot, protected,
                   fragments, up, crashes, published, charges>>

-----------------------------------------------------------------------------
(* Mutant: a row another finalizer already marked is marked again. *)
MarkAnyPending(r) ==
    /\ phase[r] = "bound"
    /\ \/ /\ RowOf(r).state \in Pending
          /\ UpdateRow(r, [RowOf(r) EXCEPT !.state = "committing"])
          /\ Go(r, "committing") /\ UNCHANGED <<active, fragments>>
       \/ RowOf(r).state \notin Pending /\ UNCHANGED ops /\ DropRequest(r)
    /\ UNCHANGED <<result, calls, holder, dirty, snapshot, protected, up, crashes,
                   published, charges>>

(* The finalizer, a spawned task that cannot be cancelled, starts with       *)
(* mark_upload_committing; if the row has changed it gives up.               *)
mark_upload_committing(r) ==
    /\ phase[r] = "bound"
    /\ \/ /\ RowOf(r).state = "processing"
          /\ UpdateRow(r, [RowOf(r) EXCEPT !.state = "committing"])
          /\ Go(r, "committing") /\ UNCHANGED <<active, fragments>>
       \/ RowOf(r).state # "processing" /\ UNCHANGED ops /\ DropRequest(r)
    /\ UNCHANGED <<result, calls, holder, dirty, snapshot, protected, up, crashes,
                   published, charges>>

(* acquire_storage_mutation: dirty from here on, and if it was dirty before  *)
(* the journal is recovered and the registry read first.                     *)
acquire_storage_mutation(r) ==
    /\ phase[r] = "committing" /\ holder = "nobody"
    /\ holder' = r /\ dirty' = TRUE
    /\ IF dirty THEN Go(r, "recovering") /\ snapshot' = active
                ELSE Go(r, "locked") /\ UNCHANGED snapshot
    /\ UNCHANGED <<ops, result, calls, active, protected, fragments, up, crashes,
                   published, charges>>

(* The rest of recover_pending_file_operations_with_guard, or its failure.   *)
RecoverAsFinalizer(r) ==
    /\ phase[r] = "recovering"
    /\ snapshot' = {}
    /\ \/ /\ ops' = Recovered(ops, snapshot)
          /\ Go(r, "locked") /\ UNCHANGED <<holder, result>>
       \/ /\ Go(r, "ending") /\ holder' = "nobody"
          /\ result' = [result EXCEPT ![r] = "outcome_unknown"] /\ UNCHANGED ops
    /\ UNCHANGED <<calls, active, dirty, protected, fragments, up, crashes,
                   published, charges>>

(* UploadReservations' commit on behalf of an operation: the row must still  *)
(* be committing and uncharged, or the transaction fails.                    *)
commit_upload_reservation(r) ==
    /\ phase[r] = "locked" /\ RowOf(r).scope = "share"
    /\ RowOf(r).state = "committing" /\ ~RowOf(r).charged
    /\ UpdateRow(r, [RowOf(r) EXCEPT !.charged = TRUE])
    /\ charges' = [charges EXCEPT ![OpOf[r]] = @ + 1]
    /\ Go(r, "charged")
    /\ UNCHANGED <<result, calls, active, holder, dirty, snapshot, protected,
                   fragments, up, crashes, published>>

(* PendingUpload::publish validates the staged file and renames it.          *)
Publishing(r) ==
    /\ phase[r] = IF RowOf(r).scope = "share" THEN "charged" ELSE "locked"
    /\ r \in fragments

publish(r) ==
    /\ Publishing(r)
    /\ published' = published \cup {r}
    /\ fragments' = fragments \ {r}
    /\ Go(r, "published")
    /\ UNCHANGED <<ops, result, calls, active, holder, dirty, snapshot, protected,
                   up, crashes, charges>>

(* A rename that failed, with neither end of it found by the probe, is taken *)
(* for a publication of uncertain durability.                                *)
reconcile_publication_error(r) ==
    /\ Publishing(r)
    /\ Go(r, "published")
    /\ UNCHANGED <<ops, result, calls, active, holder, dirty, snapshot, protected,
                   fragments, up, crashes, published, charges>>

(* How finalizer.run, or finalize_admin_upload, may end in each phase: with  *)
(* the guard finished clean (a rejection before anything was charged, a      *)
(* share that cannot be read), or still held.                                *)
CleanEnds(r) ==
    IF phase[r] = "locked" /\ RowOf(r).scope = "share"
    THEN {"rejected", "outcome_unknown"} ELSE {}

AdminEnds == {"directory_uncertain", "retryable", "outcome_unknown"}

HeldEnds(r) ==
    CASE phase[r] = "published" -> {"completed", "outcome_unknown"}
      [] phase[r] = "charged" -> {"directory_uncertain", "rejected", "outcome_unknown"}
      [] phase[r] = "locked" /\ RowOf(r).scope = "share" -> {"outcome_unknown"}
      [] phase[r] = "locked" /\ RowOf(r).scope = "admin" -> AdminEnds
      [] OTHER -> {}

EndRun(r) ==
    /\ \/ /\ \E res \in CleanEnds(r) : result' = [result EXCEPT ![r] = res]
          /\ holder' = "nobody" /\ dirty' = FALSE
       \/ /\ \E res \in HeldEnds(r) : result' = [result EXCEPT ![r] = res]
          /\ UNCHANGED <<holder, dirty>>
    /\ Go(r, "ending")
    /\ UNCHANGED <<ops, calls, active, snapshot, protected, fragments, up, crashes,
                   published, charges>>

RecordedState(res) == IF res = "directory_uncertain" THEN "completed" ELSE res

(* The receipt is recorded; only a complete publication finishes clean.      *)
finish_upload_operation(r) ==
    LET persisted == RowOf(r).state \in Pending
        clean == persisted /\ result[r] = "completed" /\ holder = r
    IN  /\ phase[r] = "ending"
        /\ \/ /\ UpdateRow(r, Finished(RowOf(r), RecordedState(result[r])))
              /\ Go(r, IF persisted THEN "finished" ELSE "lost")
              /\ IF clean THEN holder' = "nobody" /\ dirty' = FALSE
                          ELSE UNCHANGED <<holder, dirty>>
           \/ /\ DatabaseErrors /\ Go(r, "lost") /\ UNCHANGED <<ops, holder, dirty>>
        /\ UNCHANGED <<result, calls, active, snapshot, protected, fragments, up,
                       crashes, published, charges>>

(* The task ends: the fragment of a recorded outcome is unlinked (or left to *)
(* the cleanup), a guard still held is dropped dirty, the claim guard last.  *)
LeaveFinalizer(r) ==
    /\ phase[r] \in {"finished", "lost"}
    /\ holder' = IF holder = r THEN "nobody" ELSE holder
    /\ active' = active \ {OpOf[r]}
    /\ \/ UNCHANGED fragments
       \/ /\ phase[r] = "finished" /\ result[r] # "outcome_unknown"
          /\ fragments' = fragments \ {r}
    /\ Go(r, "releasing")
    /\ UNCHANGED <<ops, result, calls, dirty, snapshot, protected, up, crashes,
                   published, charges>>

-----------------------------------------------------------------------------
(* Another mutation of the namespace fails or is cancelled. *)
OtherMutationFails ==
    /\ up /\ holder = "nobody" /\ dirty' = TRUE
    /\ UNCHANGED <<ops, phase, result, calls, active, holder, snapshot, protected,
                   fragments, up, crashes, published, charges>>

(* A reader or another mutation finds the namespace dirty and recovers it.   *)
StartRecovery ==
    /\ up /\ holder = "nobody" /\ dirty
    /\ holder' = "recovery" /\ snapshot' = active
    /\ UNCHANGED <<ops, phase, result, calls, active, dirty, protected, fragments,
                   up, crashes, published, charges>>

recover_upload_operations ==
    /\ holder = "recovery"
    /\ ops' = Recovered(ops, snapshot)
    /\ holder' = "nobody" /\ dirty' = FALSE /\ snapshot' = {}
    /\ UNCHANGED <<phase, result, calls, active, protected, fragments, up, crashes,
                   published, charges>>

(* The journal or the database cannot be read. *)
FailRecovery ==
    /\ holder = "recovery"
    /\ holder' = "nobody" /\ snapshot' = {}
    /\ UNCHANGED <<ops, phase, result, calls, active, dirty, protected, fragments,
                   up, crashes, published, charges>>

(* A cleanup pass reads which fragments rows name, then scans the staging    *)
(* directory, sparing those and the ones an upload in this process owns.     *)
protected_upload_fragments ==
    {ops[i].fragment : i \in {j \in Ids :
        \/ ops[j].state = "committing"
        \/ ops[j].state = "outcome_unknown" /\ ~ops[j].expired}}

StartCleanup ==
    /\ up /\ holder = "nobody" /\ ~dirty
    /\ holder' = "cleanup" /\ dirty' = TRUE
    /\ protected' = protected_upload_fragments
    /\ UNCHANGED <<ops, phase, result, calls, active, snapshot, fragments, up,
                   crashes, published, charges>>

(* Mutant: the scan removes the fragments of running uploads too. *)
RemovableIgnoringActive == fragments \ protected

Removable ==
    {r \in fragments \ protected : phase[r] \notin Staging \cup Finalizing}

(* A batch removes what it can; then comes the next one, or the pass ends,   *)
(* clean only if it was neither cancelled nor failed.                        *)
run_batch ==
    /\ holder = "cleanup"
    /\ \E removed \in SUBSET Removable : fragments' = fragments \ removed
    /\ \/ UNCHANGED <<holder, protected, dirty>>
       \/ holder' = "nobody" /\ protected' = {} /\ dirty' \in BOOLEAN
    /\ UNCHANGED <<ops, phase, result, calls, active, snapshot, up, crashes,
                   published, charges>>

(* The process dies: rows and staged files stay, nothing in memory does.     *)
Crash ==
    /\ up /\ crashes < MaxCrashes
    /\ crashes' = crashes + 1 /\ up' = FALSE
    /\ phase' = [r \in Requests |-> IF phase[r] = "idle" THEN "idle" ELSE "done"]
    /\ calls' = [r \in Requests |-> "none"]
    /\ active' = {} /\ snapshot' = {} /\ protected' = {}
    /\ holder' = "nobody" /\ dirty' = TRUE
    /\ UNCHANGED <<ops, result, fragments, published, charges>>

(* recover_pending_file_operations, before the first request is served.      *)
Startup ==
    /\ ~up /\ up' = TRUE
    /\ ops' = Recovered(ops, active) /\ dirty' = FALSE
    /\ UNCHANGED <<phase, result, calls, active, holder, snapshot, protected,
                   fragments, crashes, published, charges>>

Expire(i) ==
    /\ ops[i].state \notin Absent
    /\ ops' = [ops EXCEPT ![i].expired = TRUE]
    /\ UNCHANGED <<phase, result, calls, active, holder, dirty, snapshot,
                   protected, fragments, up, crashes, published, charges>>

Request(r) ==
    \/ claim_upload_operation(r) \/ register_active_upload_operation(r)
    \/ Stage(r) \/ DispatchBind(r) \/ DispatchReject(r) \/ Abort(r)
    \/ bind_upload_fingerprint(r) \/ RejectForm(r) \/ release_upload_operation(r)

Finalizer(r) ==
    \/ mark_upload_committing(r) \/ acquire_storage_mutation(r)
    \/ RecoverAsFinalizer(r) \/ commit_upload_reservation(r)
    \/ publish(r) \/ reconcile_publication_error(r) \/ EndRun(r)
    \/ finish_upload_operation(r) \/ LeaveFinalizer(r)

Next ==
    \/ \E i \in Ids, scope \in Scopes : create_upload_operation(i, scope)
    \/ \E i \in Ids : Expire(i)
    \/ \E r \in Requests : Request(r) \/ Finalizer(r)
    \/ OtherMutationFails \/ StartRecovery \/ recover_upload_operations
    \/ FailRecovery \/ StartCleanup \/ run_batch \/ Crash \/ Startup

Spec == Init /\ [][Next]_vars

(* Every task that can run does: a request's body ends or times out, a       *)
(* dispatched call returns. The storage lock is a FIFO lock, so a waiting    *)
(* finalizer gets it although others take it again and again.                *)
Progress(r) ==
    \/ register_active_upload_operation(r) \/ Stage(r) \/ DispatchBind(r) \/ Abort(r)
    \/ bind_upload_fingerprint(r) \/ RejectForm(r) \/ release_upload_operation(r)
    \/ mark_upload_committing(r) \/ RecoverAsFinalizer(r)
    \/ commit_upload_reservation(r) \/ publish(r) \/ EndRun(r)
    \/ finish_upload_operation(r) \/ LeaveFinalizer(r)

FairSpec ==
    /\ Spec
    /\ \A r \in Requests : WF_vars(Progress(r)) /\ SF_vars(acquire_storage_mutation(r))
    /\ WF_vars(recover_upload_operations \/ FailRecovery)
    /\ WF_vars(run_batch) /\ WF_vars(Startup)

-----------------------------------------------------------------------------
HoldingPhases == {"recovering", "locked", "charged", "published", "ending",
                  "finished", "lost"}
Early == {"none", "ready", "processing", "retryable"}   \* nothing committed
Owning == Finalizing \cup {"published", "ending"}         \* a live finalizer

(* Types, and the guard belongs to a request only between its acquisition    *)
(* and the end of its finalizer.                                             *)
TypeOK ==
    /\ ops \in [Ids -> Row]
    /\ phase \in [Requests -> Phases]
    /\ result \in [Requests -> Results]
    /\ calls \in [Requests -> {"none", "bind", "reject"}]
    /\ active \subseteq Ids /\ snapshot \subseteq Ids
    /\ protected \subseteq Requests \cup {None}
    /\ fragments \subseteq Requests /\ published \subseteq Requests
    /\ holder \in Requests \cup Others
    /\ dirty \in BOOLEAN /\ up \in BOOLEAN /\ crashes \in Nat
    /\ charges \in [Ids -> Nat]
    /\ \A r \in Requests : holder = r => phase[r] \in HoldingPhases

(* An upload ID never publishes twice, and its quota is booked at most once, *)
(* however claims, late releases, recoveries and crashes interleave.         *)
PublishedOnce ==
    \A i \in Ids :
        /\ \A r, s \in published : OpOf[r] = i /\ OpOf[s] = i => r = s
        /\ charges[i] <= 1

(* Once a file is visible or its quota is booked, the operation can never    *)
(* again be claimed: it is not ready, processing or retryable, even after    *)
(* the process died at any point of the finalizer.                           *)
VisibleNeverRetryable ==
    \A i \in Ids :
        charges[i] > 0 \/ (\E r \in published : OpOf[r] = i)
            => ops[i].state \notin Early

(* While a finalizer may still publish, its operation cannot be claimed by   *)
(* another request and no other request finalizes it.                        *)
FinalizerOwnsOperation ==
    \A r \in Requests :
        phase[r] \in Owning =>
            /\ RowOf(r).state \notin Early
            /\ \A s \in Requests : phase[s] \in Owning /\ OpOf[s] = OpOf[r] => s = r

(* The staged file of an upload that may still publish is never taken away   *)
(* by a cleanup pass, although the pass read the protected names earlier.    *)
UploadFragmentKept ==
    \A r \in Requests :
        phase[r] \in {"staged", "bound"} \cup Finalizing => r \in fragments

(* The evidence of an unknown outcome stays: while the row of an operation    *)
(* that only one request ever claimed is kept, the fragment it names is in    *)
(* the staging directory or has been published.  Neither that request's own   *)
(* end nor a cleanup pass with an old list of protected names removes it.     *)
EvidenceKept ==
    \A i \in Ids :
        LET r == ops[i].fragment
            sole == \A s \in Requests \ {r} : OpOf[s] = i => phase[s] = "idle"
        IN  ops[i].state = "outcome_unknown" /\ ~ops[i].expired /\ r # None /\ sole
              => r \in fragments \cup published

(* An upload that is being finalized keeps its row and its staged file to     *)
(* itself, and the staged file outlives it when its outcome is unknown.       *)
UploadProtected == FinalizerOwnsOperation /\ UploadFragmentKept /\ EvidenceKept

(* A recorded outcome is final: a terminal row is only ever removed, by the  *)
(* pruning of expired rows.                                                  *)
TerminalStays ==
    [][\A i \in Ids : ops[i].state \in Terminal =>
          ops'[i].state = ops[i].state \/ (ops'[i].state = "gone" /\ ops[i].expired)]_vars

(* The table never outgrows its limits, per owner and in all.                *)
RowsBounded ==
    LET all == {i \in Ids : ops[i].state \notin Absent}
    IN  /\ Cardinality(all) <= MaxAllGlobal
        /\ \A scope \in Scopes :
              Cardinality({i \in all : ops[i].scope = scope}) <= MaxAllPerScope

(* A claimed operation does not stay in progress for ever: it becomes        *)
(* retryable or gets a final outcome, through crashes and lost clients.      *)
Settles ==
    \A i \in Ids : ops[i].state \in Pending ~> ops[i].state \notin Pending

(* A completed operation's stored fingerprint is that of the file that was   *)
(* published, so that a replay is compared with what was really uploaded.    *)
ReceiptMatchesContent ==
    \A i \in Ids : ops[i].state = "completed" =>
        \A r \in published : OpOf[r] = i => ops[i].fingerprint = ContentOf[r]

=============================================================================
