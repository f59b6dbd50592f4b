------------------------ MODULE UploadOperationsProofs ------------------------
(***************************************************************************)
(* Proofs about UploadOperations, for any set of upload IDs and requests,  *)
(* any limits and any number of crashes.                                   *)
(*                                                                         *)
(* The argument: only mark_upload_committing makes a finalizer, and it     *)
(* needs a row that is "processing", which by VisibleNeverRetryable has    *)
(* published and charged nothing and by FinalizerOwnsOperation has no      *)
(* other finalizer. From then on the row is never Early again until that   *)
(* finalizer itself records "retryable", which it does only when it has    *)
(* neither charged nor published.                                          *)
(***************************************************************************)
EXTENDS UploadOperations, FiniteSetTheorems, TLAPS

USE DEF Unused, Pending, Terminal, Absent

(* Phases of a finalizer that has not charged anything yet. *)
Uncharged == {"committing", "recovering", "locked"}

(* Only a finalizer that has published may still have a published file       *)
(* under its operation, and only a charged one a charge.                     *)
NothingYet(r) ==
    /\ charges[OpOf[r]] = 0
    /\ \A s \in published : OpOf[s] # OpOf[r]

FinalizerFresh ==
    \A r \in Requests :
        /\ phase[r] \in Uncharged => NothingYet(r)
        /\ phase[r] = "charged" => \A s \in published : OpOf[s] # OpOf[r]
        /\ phase[r] = "ending" /\ result[r] = "retryable" => NothingYet(r)

Core == PublishedOnce /\ VisibleNeverRetryable /\ FinalizerOwnsOperation /\ FinalizerFresh

(* A request waiting for its bind still has its staged file. *)
BindingKept ==
    \A r \in Requests : phase[r] = "calling" /\ calls[r] = "bind" => r \in fragments

IInv == TypeOK /\ Core /\ UploadFragmentKept /\ BindingKept

-----------------------------------------------------------------------------
(* The statements keep the shape of a row, and only "retryable" makes a row  *)
(* Early again.                                                              *)
LEMMA RowFacts ==
    ASSUME NEW row \in Row
    PROVE  /\ Released(row) \in Row
           /\ row.state \notin Early => Released(row).state \notin Early
           /\ \A st \in Terminal \cup {"retryable"} :
                /\ Finished(row, st) \in Row
                /\ row.state \notin Early /\ st # "retryable"
                     => Finished(row, st).state \notin Early
           /\ \A st \in {"processing", "committing"} : [row EXCEPT !.state = st] \in Row
           /\ \A c \in Contents, r \in Requests :
                [row EXCEPT !.fingerprint = c, !.fragment = r] \in Row
           /\ [row EXCEPT !.charged = TRUE] \in Row
           /\ [row EXCEPT !.expired = TRUE] \in Row
  <1>1. Released(row) \in Row
    BY DEF Row, Released
  <1>2. row.state \notin Early => Released(row).state \notin Early
    BY DEF Row, Released, Early
  <1>3. ASSUME NEW st \in Terminal \cup {"retryable"}
        PROVE  /\ Finished(row, st) \in Row
               /\ row.state \notin Early /\ st # "retryable"
                    => Finished(row, st).state \notin Early
    <2>1. Finished(row, st) \in Row
      BY DEF Row, Finished
    <2>2. Finished(row, st).state \in {row.state, st}
      BY DEF Row, Finished
    <2> QED BY <2>1, <2>2 DEF Early
  <1>4. \A st \in {"processing", "committing"} : [row EXCEPT !.state = st] \in Row
    BY DEF Row
  <1>5. \A c \in Contents, r \in Requests :
           [row EXCEPT !.fingerprint = c, !.fragment = r] \in Row
    BY DEF Row
  <1>6. [row EXCEPT !.charged = TRUE] \in Row /\ [row EXCEPT !.expired = TRUE] \in Row
    BY DEF Row
  <1> QED BY <1>1, <1>2, <1>3, <1>4, <1>5, <1>6

LEMMA TableFacts ==
    ASSUME ops \in [Ids -> Row], NEW running
    PROVE  /\ Recovered(ops, running) \in [Ids -> Row]
           /\ \A i \in Ids : ops[i].state \notin Early
                               => Recovered(ops, running)[i].state \notin Early
           /\ Pruned \in [Ids -> Row]
           /\ \A i \in Ids : ops[i].state \notin Early => Pruned[i].state \notin Early
  <1>1. ASSUME NEW i \in Ids
        PROVE  /\ Recovered(ops, running)[i] \in Row
               /\ ops[i].state \notin Early => Recovered(ops, running)[i].state \notin Early
    <2>0. ops[i] \in Row
      OBVIOUS
    <2>1. CASE i \in running
      BY <2>0, <2>1 DEF Recovered
    <2>2. CASE i \notin running /\ ops[i].state = "committing"
      BY <2>0, <2>2 DEF Recovered, Row, Early
    <2>3. CASE i \notin running /\ ops[i].state # "committing"
      BY <2>0, <2>3, RowFacts DEF Recovered
    <2> QED BY <2>1, <2>2, <2>3
  <1>2. ASSUME NEW i \in Ids
        PROVE  /\ Pruned[i] \in Row
               /\ ops[i].state \notin Early => Pruned[i].state \notin Early
    BY DEF Pruned, Row, Early
  <1> QED BY <1>1, <1>2 DEF Recovered, Pruned

LEMMA NewRowTyped == ASSUME NEW scope \in Scopes PROVE NewRow("ready", scope) \in Row /\ NewRow("none", scope) \in Row
  BY DEF NewRow, Row, Scopes
-----------------------------------------------------------------------------
(* Every action keeps the table a table of rows. *)
LEMMA TableTyped ==
    ASSUME TypeOK, [Next]_vars
    PROVE  ops' \in [Ids -> Row]
  <1> USE RequestAssumption DEF TypeOK
  <1>1. ASSUME NEW i \in Ids, NEW scope \in Scopes, create_upload_operation(i, scope)
        PROVE  ops' \in [Ids -> Row]
    BY <1>1, TableFacts, NewRowTyped DEF create_upload_operation
  <1>2. ASSUME NEW i \in Ids, Expire(i)
        PROVE  ops' \in [Ids -> Row]
    <2>1. [ops[i] EXCEPT !.expired = TRUE] \in Row
      BY RowFacts
    <2> QED BY <1>2, <2>1 DEF Expire
  <1>3. ASSUME NEW r \in Requests, Request(r) \/ Finalizer(r)
        PROVE  ops' \in [Ids -> Row]
    <2>0. /\ OpOf[r] \in Ids /\ RowOf(r) \in Row /\ ContentOf[r] \in Contents
          /\ \A row \in Row : UpdateRow(r, row) => ops' \in [Ids -> Row]
      BY DEF RowOf, UpdateRow
    <2>1. CASE claim_upload_operation(r)
      BY <2>0, <2>1, RowFacts DEF claim_upload_operation
    <2>2. CASE bind_upload_fingerprint(r)
      BY <2>0, <2>2, RowFacts DEF bind_upload_fingerprint
    <2>3. CASE RejectForm(r)
      BY <2>0, <2>3, RowFacts DEF RejectForm
    <2>4. CASE release_upload_operation(r)
      BY <2>0, <2>4, RowFacts DEF release_upload_operation
    <2>5. CASE mark_upload_committing(r)
      BY <2>0, <2>5, RowFacts DEF mark_upload_committing
    <2>6. CASE RecoverAsFinalizer(r)
      BY <2>6, TableFacts DEF RecoverAsFinalizer
    <2>7. CASE commit_upload_reservation(r)
      BY <2>0, <2>7, RowFacts DEF commit_upload_reservation
    <2>8. CASE finish_upload_operation(r)
      <3>1. RecordedState(result[r]) \in Terminal \cup {"retryable"}
        BY DEF RecordedState, Results
      <3> QED BY <2>0, <2>8, <3>1, RowFacts DEF finish_upload_operation
    <2>9. CASE \/ register_active_upload_operation(r) \/ Stage(r) \/ DispatchBind(r)
               \/ DispatchReject(r) \/ Abort(r) \/ acquire_storage_mutation(r)
               \/ publish(r) \/ reconcile_publication_error(r) \/ EndRun(r) \/ LeaveFinalizer(r)
      BY <2>9 DEF register_active_upload_operation, Stage, DispatchBind, DispatchReject,
         Abort, acquire_storage_mutation, publish, reconcile_publication_error, EndRun,
         LeaveFinalizer
    <2> QED
      BY <1>3, <2>1, <2>2, <2>3, <2>4, <2>5, <2>6, <2>7, <2>8, <2>9 DEF Request, Finalizer
  <1>4. ASSUME recover_upload_operations \/ Startup
        PROVE  ops' \in [Ids -> Row]
    BY <1>4, TableFacts DEF recover_upload_operations, Startup
  <1>5. ASSUME \/ OtherMutationFails \/ StartRecovery \/ FailRecovery \/ StartCleanup
               \/ run_batch \/ Crash \/ UNCHANGED vars
        PROVE  ops' \in [Ids -> Row]
    BY <1>5 DEF OtherMutationFails, StartRecovery, FailRecovery, StartCleanup, run_batch,
       Crash, vars
  <1> QED BY <1>1, <1>2, <1>3, <1>4, <1>5 DEF Next

(* The types of the other variables. *)
TypeRest ==
    /\ phase \in [Requests -> Phases]
    /\ result \in [Requests -> Results]
    /\ calls \in [Requests -> {"none", "bind", "reject"}]
    /\ active \subseteq Ids /\ snapshot \subseteq Ids
    /\ protected \subseteq Requests \cup {None}
    /\ fragments \subseteq Requests /\ published \subseteq Requests
    /\ holder \in Requests \cup Others
    /\ dirty \in BOOLEAN /\ up \in BOOLEAN /\ crashes \in Nat
    /\ charges \in [Ids -> Nat]
    /\ \A r \in Requests : holder = r => phase[r] \in HoldingPhases

LEMMA TypeStep ==
    ASSUME TypeOK, [Next]_vars
    PROVE  TypeOK'
  <1> SUFFICES TypeRest'
    BY TableTyped DEF TypeRest, TypeOK
  <1>0. TypeRest /\ ops \in [Ids -> Row]
    BY DEF TypeOK, TypeRest
  <1>1. ASSUME NEW i \in Ids, NEW scope \in Scopes, create_upload_operation(i, scope)
        PROVE  TypeRest'
    BY <1>0, <1>1 DEF create_upload_operation, TypeRest
  <1>2. ASSUME NEW i \in Ids, Expire(i)
        PROVE  TypeRest'
    BY <1>0, <1>2 DEF Expire, TypeRest
  <1>3. ASSUME NEW r \in Requests, Request(r) \/ Finalizer(r)
        PROVE  TypeRest'
    <2>0. OpOf[r] \in Ids /\ r \notin Others /\ "nobody" \in Others /\ "nobody" \notin Requests
      BY RequestAssumption DEF Others
    <2> USE DEF Go, Phases, Staging, Finalizing, Ending, HoldingPhases
    <2>1. CASE claim_upload_operation(r)
      BY <1>0, <2>0, <2>1 DEF claim_upload_operation, TypeRest
    <2>2. CASE register_active_upload_operation(r)
      BY <1>0, <2>0, <2>2 DEF register_active_upload_operation, TypeRest
    <2>3. CASE Stage(r)
      BY <1>0, <2>0, <2>3 DEF Stage, TypeRest
    <2>4. CASE DispatchBind(r)
      BY <1>0, <2>0, <2>4 DEF DispatchBind, TypeRest
    <2>5. CASE DispatchReject(r)
      BY <1>0, <2>0, <2>5 DEF DispatchReject, TypeRest
    <2>6. CASE Abort(r)
      BY <1>0, <2>0, <2>6 DEF Abort, TypeRest, DropRequest
    <2>7. CASE bind_upload_fingerprint(r)
      BY <1>0, <2>0, <2>7 DEF bind_upload_fingerprint, TypeRest, DropRequest
    <2>8. CASE RejectForm(r)
      BY <1>0, <2>0, <2>8 DEF RejectForm, TypeRest, DropRequest
    <2>9. CASE release_upload_operation(r)
      BY <1>0, <2>0, <2>9 DEF release_upload_operation, TypeRest
    <2>10. CASE mark_upload_committing(r)
      BY <1>0, <2>0, <2>10 DEF mark_upload_committing, TypeRest, DropRequest
    <2>11. CASE acquire_storage_mutation(r)
      BY <1>0, <2>0, <2>11 DEF acquire_storage_mutation, TypeRest
    <2>12. CASE RecoverAsFinalizer(r)
      BY <1>0, <2>0, <2>12 DEF RecoverAsFinalizer, TypeRest, Results
    <2>13. CASE commit_upload_reservation(r)
      BY <1>0, <2>0, <2>13 DEF commit_upload_reservation, TypeRest
    <2>14. CASE publish(r)
      BY <1>0, <2>0, <2>14 DEF publish, TypeRest
    <2>15. CASE reconcile_publication_error(r)
      BY <1>0, <2>0, <2>15 DEF reconcile_publication_error, TypeRest
    <2>16. CASE EndRun(r)
      <3>1. CleanEnds(r) \subseteq Results
        BY DEF CleanEnds, Results
      <3>2. HeldEnds(r) \subseteq Results
        BY DEF HeldEnds, AdminEnds, Results
      <3>3. result' \in [Requests -> Results]
        BY <1>0, <2>16, <3>1, <3>2 DEF EndRun, TypeRest
      <3>4. holder' \in {holder, "nobody"} /\ dirty' \in {dirty, FALSE}
        BY <2>16 DEF EndRun
      <3> QED BY <1>0, <2>0, <2>16, <3>3, <3>4 DEF EndRun, TypeRest
    <2>17. CASE finish_upload_operation(r)
      BY <1>0, <2>0, <2>17 DEF finish_upload_operation, TypeRest
    <2>18. CASE LeaveFinalizer(r)
      BY <1>0, <2>0, <2>18 DEF LeaveFinalizer, TypeRest
    <2> QED
      BY <1>3, <2>1, <2>2, <2>3, <2>4, <2>5, <2>6, <2>7, <2>8, <2>9, <2>10, <2>11, <2>12, <2>13, <2>14, <2>15, <2>16, <2>17, <2>18 DEF Request, Finalizer
  <1>4. ASSUME recover_upload_operations \/ Startup \/ OtherMutationFails \/ StartRecovery
               \/ FailRecovery \/ StartCleanup \/ run_batch \/ Crash \/ UNCHANGED vars
        PROVE  TypeRest'
    <2>0. Others \cap Requests = {} /\ Others = {"nobody", "recovery", "cleanup"}
      BY RequestAssumption DEF Others
    <2>1. CASE recover_upload_operations \/ Startup \/ OtherMutationFails \/ StartRecovery
      BY <1>0, <2>0, <2>1 DEF recover_upload_operations, Startup, OtherMutationFails,
         StartRecovery, TypeRest
    <2>2. CASE FailRecovery \/ run_batch \/ UNCHANGED vars
      BY <1>0, <2>0, <2>2 DEF FailRecovery, run_batch, vars, TypeRest
    <2>3. CASE StartCleanup
      <3>1. protected_upload_fragments \subseteq Requests \cup {None}
        BY <1>0 DEF protected_upload_fragments, Row
      <3> QED BY <1>0, <2>0, <2>3, <3>1 DEF StartCleanup, TypeRest
    <2>4. CASE Crash
      <3>1. phase' \in [Requests -> Phases]
        BY <1>0, <2>4 DEF Crash, TypeRest, Phases
      <3>2. calls' \in [Requests -> {"none", "bind", "reject"}] /\ crashes' \in Nat
        BY <1>0, <2>4 DEF Crash, TypeRest
      <3>3. "nobody" \in Others /\ "nobody" \notin Requests
        BY <2>0
      <3>4. \A r \in Requests : holder' = r => phase'[r] \in HoldingPhases
        BY <2>4, <3>3 DEF Crash
      <3> QED BY <1>0, <2>4, <3>1, <3>2, <3>3, <3>4 DEF Crash, TypeRest
    <2> QED BY <1>4, <2>1, <2>2, <2>3, <2>4
  <1> QED BY <1>1, <1>2, <1>3, <1>4 DEF Next

-----------------------------------------------------------------------------
(* No action takes away the staged file of an upload that may still publish. *)
FragmentsKept == UploadFragmentKept /\ BindingKept

LEMMA FragmentStep ==
    ASSUME TypeOK, FragmentsKept, [Next]_vars
    PROVE  FragmentsKept'
  <1> USE DEF FragmentsKept, UploadFragmentKept, BindingKept, Finalizing
  <1>0. /\ phase \in [Requests -> Phases]
        /\ calls \in [Requests -> {"none", "bind", "reject"}]
    BY DEF TypeOK
  <1>1. ASSUME NEW r \in Requests, Request(r)
        PROVE  FragmentsKept'
    <2> USE DEF Go
    <2>1. CASE claim_upload_operation(r) \/ register_active_upload_operation(r)
      BY <1>0, <2>1 DEF claim_upload_operation, register_active_upload_operation
    <2>2. CASE Stage(r) \/ DispatchBind(r)
      BY <1>0, <2>2 DEF Stage, DispatchBind
    <2>3. CASE DispatchReject(r)
      BY <1>0, <2>3 DEF DispatchReject
    <2>4. CASE Abort(r) \/ RejectForm(r)
      BY <1>0, <2>4 DEF Abort, RejectForm, DropRequest
    <2>5. CASE bind_upload_fingerprint(r)
      BY <1>0, <2>5 DEF bind_upload_fingerprint, DropRequest
    <2>6. CASE release_upload_operation(r)
      BY <1>0, <2>6 DEF release_upload_operation
    <2> QED BY <1>1, <2>1, <2>2, <2>3, <2>4, <2>5, <2>6 DEF Request
  <1>2. ASSUME NEW r \in Requests, Finalizer(r)
        PROVE  FragmentsKept'
    <2> USE DEF Go
    <2>1. CASE mark_upload_committing(r)
      BY <1>0, <2>1 DEF mark_upload_committing, DropRequest
    <2>2. CASE acquire_storage_mutation(r) \/ RecoverAsFinalizer(r)
      BY <1>0, <2>2 DEF acquire_storage_mutation, RecoverAsFinalizer
    <2>3. CASE commit_upload_reservation(r)
      BY <1>0, <2>3 DEF commit_upload_reservation
    <2>4. CASE publish(r) \/ reconcile_publication_error(r)
      BY <1>0, <2>4 DEF publish, reconcile_publication_error
    <2>5. CASE EndRun(r) \/ finish_upload_operation(r)
      BY <1>0, <2>5 DEF EndRun, finish_upload_operation
    <2>6. CASE LeaveFinalizer(r)
      BY <1>0, <2>6 DEF LeaveFinalizer
    <2> QED BY <1>2, <2>1, <2>2, <2>3, <2>4, <2>5, <2>6 DEF Finalizer
  <1>3. ASSUME run_batch
        PROVE  FragmentsKept'
    BY <1>0, <1>3 DEF run_batch, Removable, Staging
  <1>4. ASSUME Crash
        PROVE  FragmentsKept'
    BY <1>0, <1>4 DEF Crash
  <1>5. ASSUME \/ \E i \in Ids, scope \in Scopes : create_upload_operation(i, scope)
               \/ \E i \in Ids : Expire(i)
               \/ OtherMutationFails \/ StartRecovery \/ recover_upload_operations
               \/ FailRecovery \/ StartCleanup \/ Startup \/ UNCHANGED vars
        PROVE  FragmentsKept'
    BY <1>5 DEF create_upload_operation, Expire, OtherMutationFails, StartRecovery,
       recover_upload_operations, FailRecovery, StartCleanup, Startup, vars
  <1> QED BY <1>1, <1>2, <1>3, <1>4, <1>5 DEF Next

-----------------------------------------------------------------------------
(* A quiet step publishes and charges nothing, makes no row Early that was   *)
(* not, and takes no request closer to publishing. It keeps Core.            *)
LateStays == \A i \in Ids : ops[i].state \notin Early => ops'[i].state \notin Early

NoNewOwner ==
    \A r \in Requests :
        /\ phase'[r] \in Owning => phase[r] \in Owning
        /\ phase'[r] \in Uncharged => phase[r] \in Uncharged
        /\ phase'[r] = "charged" => phase[r] = "charged"
        /\ phase'[r] = "ending" /\ result'[r] = "retryable"
             => phase[r] = "ending" /\ result[r] = "retryable"

Quiet == LateStays /\ NoNewOwner /\ published' = published /\ charges' = charges

LEMMA QuietKeepsCore ==
    ASSUME TypeOK, Core, Quiet
    PROVE  Core'
  <1> USE RequestAssumption DEF Core, Quiet
  <1>1. PublishedOnce'
    BY DEF PublishedOnce
  <1>2. VisibleNeverRetryable'
    BY DEF VisibleNeverRetryable, LateStays
  <1>3. FinalizerOwnsOperation'
    BY DEF FinalizerOwnsOperation, LateStays, NoNewOwner, RowOf
  <1>4. FinalizerFresh'
    BY DEF FinalizerFresh, NoNewOwner, NothingYet
  <1> QED BY <1>1, <1>2, <1>3, <1>4

(* Rewriting one row of the table. *)
LEMMA UpdateKeepsLate ==
    ASSUME TypeOK, NEW r \in Requests, NEW row \in Row, UpdateRow(r, row),
           RowOf(r).state \notin Early => row.state \notin Early
    PROVE  LateStays
  BY RequestAssumption DEF TypeOK, UpdateRow, RowOf, LateStays

LEMMA RequestQuiet ==
    ASSUME TypeOK, NEW r \in Requests, Request(r)
    PROVE  Quiet
  <1>0. /\ phase \in [Requests -> Phases] /\ ops \in [Ids -> Row]
        /\ OpOf[r] \in Ids /\ RowOf(r) \in Row /\ ContentOf[r] \in Contents
    BY RequestAssumption DEF TypeOK, RowOf
  <1> USE DEF Go, Owning, Finalizing, Uncharged
  <1>1. CASE claim_upload_operation(r)
    <2>1. LateStays
      BY <1>0, <1>1, UpdateKeepsLate, RowFacts DEF claim_upload_operation, Early
    <2> QED BY <1>0, <1>1, <2>1 DEF claim_upload_operation, Quiet, NoNewOwner
  <1>2. CASE \/ register_active_upload_operation(r) \/ Stage(r) \/ DispatchBind(r)
             \/ DispatchReject(r)
    BY <1>0, <1>2 DEF register_active_upload_operation, Stage, DispatchBind,
       DispatchReject, Quiet, NoNewOwner, LateStays
  <1>3. CASE Abort(r)
    BY <1>0, <1>3 DEF Abort, DropRequest, Quiet, NoNewOwner, LateStays
  <1>4. CASE bind_upload_fingerprint(r)
    <2> DEFINE row == IF Bindable(RowOf(r), ContentOf[r])
                      THEN [RowOf(r) EXCEPT !.fingerprint = ContentOf[r], !.fragment = r]
                      ELSE RowOf(r)
    <2>1. row \in Row /\ row.state = RowOf(r).state
      BY <1>0, RowFacts, ZenonT(60) DEF Row
    <2>2. UpdateRow(r, row)
      BY <1>4 DEF bind_upload_fingerprint
    <2>3. LateStays
      BY <2>1, <2>2, UpdateKeepsLate
    <2> QED BY <1>0, <1>4, <2>3 DEF bind_upload_fingerprint, DropRequest, Quiet, NoNewOwner
  <1>5. CASE RejectForm(r)
    <2>1. LateStays
      BY <1>0, <1>5, UpdateKeepsLate, RowFacts DEF RejectForm
    <2> QED BY <1>0, <1>5, <2>1 DEF RejectForm, DropRequest, Quiet, NoNewOwner
  <1>6. CASE release_upload_operation(r)
    <2>1. LateStays
      <3>1. CASE UpdateRow(r, Released(RowOf(r)))
        BY <1>0, <3>1, UpdateKeepsLate, RowFacts
      <3>2. CASE UNCHANGED ops
        BY <3>2 DEF LateStays
      <3> QED BY <1>6, <3>1, <3>2 DEF release_upload_operation
    <2> QED BY <1>0, <1>6, <2>1 DEF release_upload_operation, Quiet, NoNewOwner
  <1> QED BY <1>1, <1>2, <1>3, <1>4, <1>5, <1>6, Request(r) DEF Request

LEMMA OthersQuiet ==
    ASSUME TypeOK,
           \/ \E i \in Ids, scope \in Scopes : create_upload_operation(i, scope)
           \/ \E i \in Ids : Expire(i)
           \/ OtherMutationFails \/ StartRecovery \/ recover_upload_operations
           \/ FailRecovery \/ StartCleanup \/ run_batch \/ Crash \/ Startup
           \/ UNCHANGED vars
    PROVE  Quiet
  <1>0. phase \in [Requests -> Phases] /\ ops \in [Ids -> Row]
    BY DEF TypeOK
  <1>1. ASSUME NEW i \in Ids, NEW scope \in Scopes, create_upload_operation(i, scope)
        PROVE  Quiet
    <2>1. LateStays
      BY <1>0, <1>1, TableFacts DEF create_upload_operation, LateStays, Early
    <2> QED BY <1>1, <2>1 DEF create_upload_operation, Quiet, NoNewOwner
  <1>2. ASSUME NEW i \in Ids, Expire(i)
        PROVE  Quiet
    BY <1>0, <1>2 DEF Expire, Quiet, NoNewOwner, LateStays, Row
  <1>3. ASSUME recover_upload_operations \/ Startup
        PROVE  Quiet
    <2>1. LateStays
      BY <1>0, <1>3, TableFacts DEF recover_upload_operations, Startup, LateStays
    <2> QED BY <1>3, <2>1 DEF recover_upload_operations, Startup, Quiet, NoNewOwner
  <1>4. ASSUME Crash
        PROVE  Quiet
    BY <1>0, <1>4 DEF Crash, Quiet, NoNewOwner, LateStays, Owning, Finalizing, Uncharged
  <1>5. ASSUME \/ OtherMutationFails \/ StartRecovery \/ FailRecovery \/ StartCleanup
               \/ run_batch \/ UNCHANGED vars
        PROVE  Quiet
    BY <1>5 DEF OtherMutationFails, StartRecovery, FailRecovery, StartCleanup, run_batch,
       vars, Quiet, NoNewOwner, LateStays
  <1> QED BY <1>1, <1>2, <1>3, <1>4, <1>5

-----------------------------------------------------------------------------
(* The finalizer's steps. A live finalizer is alone with its operation.      *)
LEMMA Alone ==
    ASSUME Core, NEW r \in Requests, phase[r] \in Owning
    PROVE  /\ RowOf(r).state \notin Early
           /\ \A s \in Requests : phase[s] \in Owning /\ s # r => OpOf[s] # OpOf[r]
  BY DEF Core, FinalizerOwnsOperation

LEMMA MarkStep ==
    ASSUME TypeOK, Core, NEW r \in Requests, mark_upload_committing(r)
    PROVE  Core'
  <1>0. /\ phase \in [Requests -> Phases] /\ ops \in [Ids -> Row]
        /\ OpOf \in [Requests -> Ids] /\ RowOf(r) \in Row
        /\ published \subseteq Requests /\ charges \in [Ids -> Nat]
        /\ published' = published /\ charges' = charges /\ result' = result
    BY RequestAssumption DEF TypeOK, RowOf, mark_upload_committing
  <1>1. CASE RowOf(r).state # "processing"
    <2>1. Quiet
      BY <1>0, <1>1 DEF mark_upload_committing, DropRequest, Go, Quiet, NoNewOwner,
         LateStays, Owning, Finalizing, Uncharged
    <2> QED BY <2>1, QuietKeepsCore
  <1>2. CASE RowOf(r).state = "processing"
    <2>1. phase' = [phase EXCEPT ![r] = "committing"] /\ phase[r] = "bound"
      BY <1>2 DEF mark_upload_committing, Go
    <2>2. ops' = [ops EXCEPT ![OpOf[r]] = [RowOf(r) EXCEPT !.state = "committing"]]
      BY <1>2 DEF mark_upload_committing, UpdateRow
    <2>3. NothingYet(r)
      BY <1>0, <1>2 DEF Core, VisibleNeverRetryable, NothingYet, RowOf, Early
    <2>4. \A s \in Requests : phase[s] \in Owning => OpOf[s] # OpOf[r]
      BY <1>2 DEF Core, FinalizerOwnsOperation, RowOf, Early
    <2>5. /\ ops'[OpOf[r]].state = "committing"
          /\ \A i \in Ids : i # OpOf[r] => ops'[i] = ops[i]
      BY <1>0, <2>2 DEF Row
    <2>6. PublishedOnce' /\ VisibleNeverRetryable'
      BY <1>0, <2>5 DEF Core, PublishedOnce, VisibleNeverRetryable, Early
    <2>7. FinalizerOwnsOperation'
      <3>1. \A s \in Requests : phase'[s] \in Owning => s = r \/ phase[s] \in Owning
        BY <1>0, <2>1
      <3> QED BY <1>0, <2>4, <2>5, <3>1 DEF Core, FinalizerOwnsOperation, RowOf, Early
    <2>8. FinalizerFresh'
      BY <1>0, <2>1, <2>3 DEF Core, FinalizerFresh, NothingYet
    <2> QED BY <2>6, <2>7, <2>8 DEF Core
  <1> QED BY <1>1, <1>2

LEMMA ChargeStep ==
    ASSUME TypeOK, Core, NEW r \in Requests, commit_upload_reservation(r)
    PROVE  Core'
  <1>0. /\ phase \in [Requests -> Phases] /\ ops \in [Ids -> Row]
        /\ OpOf \in [Requests -> Ids] /\ RowOf(r) \in Row /\ charges \in [Ids -> Nat]
        /\ published' = published /\ result' = result
    BY RequestAssumption DEF TypeOK, RowOf, commit_upload_reservation
  <1>1. /\ phase[r] = "locked" /\ phase' = [phase EXCEPT ![r] = "charged"]
        /\ charges' = [charges EXCEPT ![OpOf[r]] = @ + 1]
        /\ ops' = [ops EXCEPT ![OpOf[r]] = [RowOf(r) EXCEPT !.charged = TRUE]]
    BY DEF commit_upload_reservation, Go, UpdateRow
  <1>2. NothingYet(r)
    BY <1>1 DEF Core, FinalizerFresh, Uncharged
  <1>3. \A i \in Ids : ops'[i].state = ops[i].state
    BY <1>0, <1>1 DEF Row, RowOf
  <1>4. /\ RowOf(r).state \notin Early
        /\ \A s \in Requests : phase[s] \in Owning /\ s # r => OpOf[s] # OpOf[r]
    BY <1>1, Alone DEF Owning, Finalizing
  <1>5. /\ charges'[OpOf[r]] = 1
        /\ \A i \in Ids : i # OpOf[r] => charges'[i] = charges[i]
    BY <1>0, <1>1, <1>2 DEF NothingYet
  <1>6. PublishedOnce' /\ VisibleNeverRetryable'
    BY <1>0, <1>3, <1>4, <1>5 DEF Core, PublishedOnce, VisibleNeverRetryable, RowOf
  <1>7. FinalizerOwnsOperation'
    BY <1>0, <1>1, <1>3 DEF Core, FinalizerOwnsOperation, RowOf, Owning, Finalizing
  <1>8. FinalizerFresh'
    BY <1>0, <1>1, <1>2, <1>4, <1>5
       DEF Core, FinalizerFresh, NothingYet, Uncharged, Owning, Finalizing
  <1> QED BY <1>6, <1>7, <1>8 DEF Core

LEMMA PublishStep ==
    ASSUME TypeOK, Core, NEW r \in Requests, publish(r)
    PROVE  Core'
  <1>0. /\ phase \in [Requests -> Phases] /\ published \subseteq Requests
        /\ OpOf \in [Requests -> Ids] /\ charges \in [Ids -> Nat]
        /\ ops' = ops /\ result' = result /\ charges' = charges
        /\ published' = published \cup {r}
    BY RequestAssumption DEF TypeOK, publish
  <1>1. phase[r] \in {"locked", "charged"} /\ phase' = [phase EXCEPT ![r] = "published"]
    BY DEF publish, Publishing, Go
  <1>2. \A s \in published : OpOf[s] # OpOf[r]
    BY <1>1 DEF Core, FinalizerFresh, NothingYet, Uncharged
  <1>3. /\ RowOf(r).state \notin Early
        /\ \A s \in Requests : phase[s] \in Owning /\ s # r => OpOf[s] # OpOf[r]
    BY <1>1, Alone DEF Owning, Finalizing
  <1>4. PublishedOnce'
    BY <1>0, <1>2 DEF Core, PublishedOnce
  <1>5. VisibleNeverRetryable'
    BY <1>0, <1>3 DEF Core, VisibleNeverRetryable, RowOf
  <1>6. FinalizerOwnsOperation'
    BY <1>0, <1>1 DEF Core, FinalizerOwnsOperation, RowOf, Owning, Finalizing
  <1>7. FinalizerFresh'
    BY <1>0, <1>1, <1>3 DEF Core, FinalizerFresh, NothingYet, Uncharged, Owning, Finalizing
  <1> QED BY <1>4, <1>5, <1>6, <1>7 DEF Core

(* A run ends "retryable" only when it has neither charged nor published.    *)
LEMMA EndStep ==
    ASSUME TypeOK, Core, NEW r \in Requests, EndRun(r)
    PROVE  Core'
  <1>0. /\ phase \in [Requests -> Phases] /\ result \in [Requests -> Results]
        /\ ops' = ops /\ charges' = charges /\ published' = published
        /\ phase' = [phase EXCEPT ![r] = "ending"]
    BY DEF TypeOK, EndRun, Go
  <1>1. PICK res \in CleanEnds(r) \cup HeldEnds(r) : result' = [result EXCEPT ![r] = res]
    BY DEF EndRun
  <1>2. /\ phase[r] \in {"locked", "charged", "published"}
        /\ res = "retryable" => phase[r] = "locked"
    BY <1>1 DEF CleanEnds, HeldEnds
  <1>3. PublishedOnce' /\ VisibleNeverRetryable'
    BY <1>0 DEF Core, PublishedOnce, VisibleNeverRetryable
  <1>4. FinalizerOwnsOperation'
    BY <1>0, <1>2 DEF Core, FinalizerOwnsOperation, RowOf, Owning, Finalizing
  <1>5. FinalizerFresh'
    BY <1>0, <1>1, <1>2 DEF Core, FinalizerFresh, NothingYet, Uncharged
  <1> QED BY <1>3, <1>4, <1>5 DEF Core

LEMMA FinishStep ==
    ASSUME TypeOK, Core, NEW r \in Requests, finish_upload_operation(r)
    PROVE  Core'
  <1>0. /\ phase \in [Requests -> Phases] /\ ops \in [Ids -> Row]
        /\ OpOf \in [Requests -> Ids] /\ RowOf(r) \in Row /\ charges \in [Ids -> Nat]
        /\ result[r] \in Results
        /\ charges' = charges /\ published' = published /\ result' = result
        /\ phase[r] = "ending"
    BY RequestAssumption DEF TypeOK, RowOf, finish_upload_operation
  <1>1. /\ phase'[r] \in {"finished", "lost"}
        /\ \A s \in Requests : s # r => phase'[s] = phase[s]
    BY <1>0 DEF finish_upload_operation, Go
  <1>2. NoNewOwner
    BY <1>0, <1>1 DEF NoNewOwner, Owning, Finalizing, Uncharged
  <1>3. CASE UNCHANGED ops
    BY <1>0, <1>2, <1>3, QuietKeepsCore DEF Quiet, LateStays
  <1>4. CASE /\ UpdateRow(r, Finished(RowOf(r), RecordedState(result[r])))
             /\ result[r] # "retryable"
    <2>1. RecordedState(result[r]) \in Terminal
      BY <1>0, <1>4 DEF RecordedState, Results
    <2>2. /\ Finished(RowOf(r), RecordedState(result[r])) \in Row
          /\ RowOf(r).state \notin Early
               => Finished(RowOf(r), RecordedState(result[r])).state \notin Early
      BY <1>0, <2>1, RowFacts
    <2>3. LateStays
      BY <1>4, <2>2, UpdateKeepsLate
    <2> QED BY <1>0, <1>2, <2>3, QuietKeepsCore DEF Quiet
  <1>5. CASE /\ UpdateRow(r, Finished(RowOf(r), RecordedState(result[r])))
             /\ result[r] = "retryable"
    <2>1. NothingYet(r)
      BY <1>0, <1>5 DEF Core, FinalizerFresh
    <2>2. \A s \in Requests : phase[s] \in Owning /\ s # r => OpOf[s] # OpOf[r]
      BY <1>0, Alone DEF Owning
    <2>3. \A i \in Ids : i # OpOf[r] => ops'[i] = ops[i]
      BY <1>0, <1>5 DEF UpdateRow
    <2>4. PublishedOnce' /\ VisibleNeverRetryable'
      BY <1>0, <2>1, <2>3 DEF Core, PublishedOnce, VisibleNeverRetryable, NothingYet
    <2>5. FinalizerOwnsOperation'
      BY <1>0, <1>1, <1>2, <2>2, <2>3
         DEF Core, FinalizerOwnsOperation, RowOf, NoNewOwner, Owning, Finalizing
    <2>6. FinalizerFresh'
      BY <1>0, <1>1 DEF Core, FinalizerFresh, NothingYet, Uncharged
    <2> QED BY <2>4, <2>5, <2>6 DEF Core
  <1> QED BY <1>3, <1>4, <1>5 DEF finish_upload_operation

LEMMA FinalizerQuiet ==
    ASSUME TypeOK, NEW r \in Requests,
           \/ acquire_storage_mutation(r) \/ RecoverAsFinalizer(r)
           \/ reconcile_publication_error(r) \/ LeaveFinalizer(r)
    PROVE  Quiet
  <1>0. /\ phase \in [Requests -> Phases] /\ ops \in [Ids -> Row]
        /\ result \in [Requests -> Results]
    BY DEF TypeOK
  <1> USE DEF Go, Owning, Finalizing, Uncharged, Quiet, NoNewOwner
  <1>1. CASE acquire_storage_mutation(r)
    BY <1>0, <1>1 DEF acquire_storage_mutation, LateStays
  <1>2. CASE RecoverAsFinalizer(r)
    <2>1. LateStays
      BY <1>0, <1>2, TableFacts DEF RecoverAsFinalizer, LateStays
    <2> QED BY <1>0, <1>2, <2>1 DEF RecoverAsFinalizer
  <1>3. CASE reconcile_publication_error(r)
    BY <1>0, <1>3 DEF reconcile_publication_error, Publishing, LateStays
  <1>4. CASE LeaveFinalizer(r)
    BY <1>0, <1>4 DEF LeaveFinalizer, LateStays
  <1> QED BY <1>1, <1>2, <1>3, <1>4

LEMMA CoreStep ==
    ASSUME TypeOK, Core, [Next]_vars
    PROVE  Core'
  <1>1. ASSUME NEW r \in Requests, Request(r)
        PROVE  Core'
    BY <1>1, RequestQuiet, QuietKeepsCore
  <1>2. ASSUME NEW r \in Requests, Finalizer(r)
        PROVE  Core'
    BY <1>2, MarkStep, ChargeStep, PublishStep, EndStep, FinishStep, FinalizerQuiet,
       QuietKeepsCore DEF Finalizer
  <1>3. ASSUME \/ \E i \in Ids, scope \in Scopes : create_upload_operation(i, scope)
               \/ \E i \in Ids : Expire(i)
               \/ OtherMutationFails \/ StartRecovery \/ recover_upload_operations
               \/ FailRecovery \/ StartCleanup \/ run_batch \/ Crash \/ Startup
               \/ UNCHANGED vars
        PROVE  Core'
    BY <1>3, OthersQuiet, QuietKeepsCore
  <1> QED BY <1>1, <1>2, <1>3 DEF Next

LEMMA InitIInv == Init => IInv
  <1> SUFFICES ASSUME Init PROVE IInv
    OBVIOUS
  <1>1. TypeOK
    <2>1. ops \in [Ids -> Row]
      BY NewRowTyped DEF Init, Scopes
    <2>2. holder \in Others /\ \A r \in Requests : holder # r
      BY RequestAssumption DEF Init, Others
    <2> QED BY <2>1, <2>2 DEF Init, TypeOK, Phases, Results
  <1>2. Core
    BY RequestAssumption DEF Init, Core, PublishedOnce, VisibleNeverRetryable,
       FinalizerOwnsOperation, FinalizerFresh, NothingYet, Owning, Finalizing, Uncharged
  <1>3. UploadFragmentKept /\ BindingKept
    BY DEF Init, UploadFragmentKept, BindingKept, Finalizing
  <1> QED BY <1>1, <1>2, <1>3 DEF IInv

(* The inductive invariant holds in every reachable state: types, the        *)
(* ownership of an operation by at most one finalizer, and what each phase   *)
(* of the finalizer has not done yet.                                        *)
THEOREM Inductive == Spec => []IInv
  <1>1. IInv /\ [Next]_vars => IInv'
    BY TypeStep, CoreStep, FragmentStep DEF IInv, FragmentsKept
  <1> QED BY InitIInv, <1>1, PTL DEF Spec

(* Every variable keeps its type and the storage guard is only ever held by  *)
(* a running finalizer, a recovery or a cleanup pass.                        *)
THEOREM TypeCorrect == Spec => []TypeOK
  <1>1. IInv => TypeOK
    BY DEF IInv
  <1> QED BY Inductive, <1>1, PTL

(* THREAT_MODEL INV-17: an upload ID never publishes or charges twice.       *)
THEOREM PublishedOnceHolds == Spec => []PublishedOnce
  <1>1. IInv => PublishedOnce
    BY DEF IInv, Core
  <1> QED BY Inductive, <1>1, PTL

(* THREAT_MODEL INV-06: what is visible or charged is never offered for a    *)
(* retry, whatever fails or dies afterwards.                                 *)
THEOREM VisibleNeverRetryableHolds == Spec => []VisibleNeverRetryable
  <1>1. IInv => VisibleNeverRetryable
    BY DEF IInv, Core
  <1> QED BY Inductive, <1>1, PTL

(* A live finalizer is alone with its operation, which nobody can claim.     *)
THEOREM FinalizerOwnsOperationHolds == Spec => []FinalizerOwnsOperation
  <1>1. IInv => FinalizerOwnsOperation
    BY DEF IInv, Core
  <1> QED BY Inductive, <1>1, PTL

(* No cleanup pass removes the staged file of an upload that may publish.    *)
THEOREM UploadFragmentKeptHolds == Spec => []UploadFragmentKept
  <1>1. IInv => UploadFragmentKept
    BY DEF IInv
  <1> QED BY Inductive, <1>1, PTL

-----------------------------------------------------------------------------
(* How a row may change, other than by a registration that also prunes.      *)
Evolves(row, next) ==
    /\ next.scope = row.scope
    /\ row.state \in Absent => next.state \in Absent
    /\ row.state \in Terminal => next.state = row.state

LEMMA EvolvesFacts ==
    ASSUME NEW row \in Row
    PROVE  /\ Evolves(row, row) /\ Evolves(row, Released(row))
           /\ \A st : Evolves(row, Finished(row, st))
  BY DEF Evolves, Row, Released, Finished

LEMMA RecoveredEvolves ==
    ASSUME ops \in [Ids -> Row], NEW running, NEW i \in Ids
    PROVE  Evolves(ops[i], Recovered(ops, running)[i])
  <1>0. ops[i] \in Row
    OBVIOUS
  <1>1. CASE i \in running
    BY <1>0, <1>1, EvolvesFacts DEF Recovered
  <1>2. CASE i \notin running /\ ops[i].state = "committing"
    BY <1>0, <1>2 DEF Recovered, Row, Evolves
  <1>3. CASE i \notin running /\ ops[i].state # "committing"
    BY <1>0, <1>3, EvolvesFacts DEF Recovered
  <1> QED BY <1>1, <1>2, <1>3

LEMMA TableEvolves ==
    ASSUME TypeOK, [Next]_vars,
           ~\E i \in Ids, scope \in Scopes : create_upload_operation(i, scope)
    PROVE  \A i \in Ids : Evolves(ops[i], ops'[i])
  <1>0. ops \in [Ids -> Row]
    BY DEF TypeOK
  <1>1. ASSUME UNCHANGED ops
        PROVE  \A i \in Ids : Evolves(ops[i], ops'[i])
    BY <1>0, <1>1, EvolvesFacts
  <1>2. ASSUME NEW j \in Ids, Expire(j)
        PROVE  \A i \in Ids : Evolves(ops[i], ops'[i])
    BY <1>0, <1>2 DEF Expire, Evolves, Row
  <1>3. ASSUME recover_upload_operations \/ Startup
        PROVE  \A i \in Ids : Evolves(ops[i], ops'[i])
    BY <1>0, <1>3, RecoveredEvolves DEF recover_upload_operations, Startup
  <1>4. ASSUME NEW r \in Requests, Request(r) \/ Finalizer(r)
        PROVE  \A i \in Ids : Evolves(ops[i], ops'[i])
    <2>0. RowOf(r) \in Row /\ OpOf[r] \in Ids
      BY <1>0, RequestAssumption DEF RowOf
    <2>1. ASSUME NEW row, UpdateRow(r, row), Evolves(RowOf(r), row)
          PROVE  \A i \in Ids : Evolves(ops[i], ops'[i])
      BY <1>0, <2>0, <2>1, EvolvesFacts DEF UpdateRow, RowOf
    <2>2. CASE RejectForm(r) \/ finish_upload_operation(r) \/ release_upload_operation(r)
      BY <1>1, <2>0, <2>1, <2>2, EvolvesFacts
         DEF RejectForm, finish_upload_operation, release_upload_operation
    <2>3. CASE claim_upload_operation(r)
      <3>1. Evolves(RowOf(r), [RowOf(r) EXCEPT !.state = "processing"])
        BY <2>0, <2>3 DEF claim_upload_operation, Evolves, Row
      <3> QED BY <2>1, <2>3, <3>1 DEF claim_upload_operation
    <2>4. CASE bind_upload_fingerprint(r)
      <3>1. Evolves(RowOf(r), [RowOf(r) EXCEPT !.fingerprint = ContentOf[r], !.fragment = r])
        BY <2>0 DEF Evolves, Row
      <3> QED BY <2>0, <2>1, <2>4, <3>1, EvolvesFacts DEF bind_upload_fingerprint
    <2>5. CASE mark_upload_committing(r)
      <3>1. RowOf(r).state = "processing"
              => Evolves(RowOf(r), [RowOf(r) EXCEPT !.state = "committing"])
        BY <2>0 DEF Evolves, Row
      <3> QED BY <1>1, <2>1, <2>5, <3>1 DEF mark_upload_committing
    <2>6. CASE commit_upload_reservation(r)
      <3>1. Evolves(RowOf(r), [RowOf(r) EXCEPT !.charged = TRUE])
        BY <2>0 DEF Evolves, Row
      <3> QED BY <2>1, <2>6, <3>1 DEF commit_upload_reservation
    <2>7. CASE RecoverAsFinalizer(r)
      BY <1>0, <1>1, <2>7, RecoveredEvolves DEF RecoverAsFinalizer
    <2>8. CASE \/ register_active_upload_operation(r) \/ Stage(r) \/ DispatchBind(r)
               \/ DispatchReject(r) \/ Abort(r) \/ acquire_storage_mutation(r)
               \/ publish(r) \/ reconcile_publication_error(r) \/ EndRun(r) \/ LeaveFinalizer(r)
      BY <1>1, <2>8 DEF register_active_upload_operation, Stage, DispatchBind, DispatchReject,
         Abort, acquire_storage_mutation, publish, reconcile_publication_error, EndRun,
         LeaveFinalizer
    <2> QED
      BY <1>4, <2>2, <2>3, <2>4, <2>5, <2>6, <2>7, <2>8 DEF Request, Finalizer
  <1>5. ASSUME \/ OtherMutationFails \/ StartRecovery \/ FailRecovery \/ StartCleanup
               \/ run_batch \/ Crash \/ UNCHANGED vars
        PROVE  \A i \in Ids : Evolves(ops[i], ops'[i])
    BY <1>1, <1>5 DEF OtherMutationFails, StartRecovery, FailRecovery, StartCleanup,
       run_batch, Crash, vars
  <1> QED BY <1>2, <1>3, <1>4, <1>5 DEF Next

(* A recorded outcome is final: only the pruning of an expired row ends it.  *)
THEOREM TerminalStaysHolds == Spec => TerminalStays
  <1> DEFINE Final == \A i \in Ids : ops[i].state \in Terminal =>
        ops'[i].state = ops[i].state \/ (ops'[i].state = "gone" /\ ops[i].expired)
  <1>1. ASSUME TypeOK, [Next]_vars
        PROVE  Final
    <2>0. ops \in [Ids -> Row]
      BY <1>1 DEF TypeOK
    <2>1. ASSUME NEW j \in Ids, NEW scope \in Scopes, create_upload_operation(j, scope)
          PROVE  Final
      BY <2>0, <2>1 DEF create_upload_operation, Pruned, Row
    <2>2. CASE ~\E j \in Ids, scope \in Scopes : create_upload_operation(j, scope)
      BY <1>1, <2>2, TableEvolves DEF Evolves
    <2> QED BY <2>1, <2>2
  <1>2. TypeOK /\ [Next]_vars => [Final]_vars
    BY <1>1
  <1> HIDE DEF Final
  <1>3. [][Final]_vars => TerminalStays
    BY PTL DEF Final, TerminalStays
  <1> QED BY TypeCorrect, <1>2, <1>3, PTL DEF Spec

-----------------------------------------------------------------------------
Live(table) == {i \in Ids : table[i].state \notin Absent}
Owned(table, scope) == {i \in Live(table) : table[i].scope = scope}

LEMMA Counting ==
    ASSUME NEW S, NEW T, NEW x, NEW n \in Nat, IsFiniteSet(S)
    PROVE  /\ T \subseteq S /\ Cardinality(S) <= n => Cardinality(T) <= n
           /\ T \subseteq S \cup {x} /\ ~(Cardinality(S) >= n) => Cardinality(T) <= n
  <1>0. Cardinality(S) \in Nat /\ IsFiniteSet(S \cup {x})
    BY FS_CardinalityType, FS_AddElement
  <1>1. ASSUME T \subseteq S
        PROVE  Cardinality(T) <= Cardinality(S) /\ Cardinality(T) \in Nat
    BY <1>1, FS_Subset, FS_CardinalityType
  <1>2. ASSUME T \subseteq S \cup {x}
        PROVE  Cardinality(T) <= Cardinality(S \cup {x}) /\ Cardinality(T) \in Nat
    BY <1>0, <1>2, FS_Subset, FS_CardinalityType
  <1>3. Cardinality(S \cup {x}) \in {Cardinality(S), Cardinality(S) + 1}
    BY <1>0, FS_AddElement
  <1> QED BY <1>0, <1>1, <1>2, <1>3

(* The table never outgrows its total limits, per owner and in all, although *)
(* rows go back to "retryable" without passing the registration again.       *)
THEOREM RowsBoundedHolds == Spec => []RowsBounded
  <1> DEFINE Bounded == /\ Cardinality(Live(ops)) <= MaxAllGlobal
                        /\ \A scope \in Scopes : Cardinality(Owned(ops, scope)) <= MaxAllPerScope
  <1>0. /\ MaxAllGlobal \in Nat /\ MaxAllPerScope \in Nat
        /\ \A table : IsFiniteSet(Live(table))
        /\ \A table, scope : IsFiniteSet(Owned(table, scope))
    <2>1. \A table, scope : Live(table) \subseteq Ids /\ Owned(table, scope) \subseteq Ids
      BY DEF Live, Owned
    <2> QED BY <2>1, BoundAssumption, RequestAssumption, FS_Subset
  <1>1. Init => Bounded
    <2> SUFFICES ASSUME Init PROVE Bounded
      OBVIOUS
    <2>1. Live(ops) = {} /\ \A scope \in Scopes : Owned(ops, scope) = {}
      BY DEF Init, Live, Owned, NewRow
    <2> QED BY <1>0, <2>1, FS_EmptySet
  <1>2. ASSUME TypeOK, Bounded, [Next]_vars
        PROVE  Bounded'
    <2>0. ops \in [Ids -> Row]
      BY <1>2 DEF TypeOK
    <2>1. ASSUME NEW j \in Ids, NEW scope \in Scopes, create_upload_operation(j, scope)
          PROVE  Bounded'
      <3>1. /\ Live(Pruned) \subseteq Live(ops)
            /\ \A sc \in Scopes : Owned(Pruned, sc) \subseteq Owned(ops, sc)
        BY <2>0 DEF Pruned, Live, Owned, Row
      <3>2. ops' = [Pruned EXCEPT ![j] = NewRow("ready", scope)]
        BY <2>1 DEF create_upload_operation
      <3>3. Pruned \in [Ids -> Row]
        BY <2>0, TableFacts
      <3>4. /\ Live(ops') \subseteq Live(Pruned) \cup {j}
            /\ Owned(ops', scope) \subseteq Owned(Pruned, scope) \cup {j}
            /\ \A sc \in Scopes \ {scope} : Owned(ops', sc) \subseteq Owned(Pruned, sc)
        BY <3>2, <3>3 DEF Live, Owned, NewRow
      <3>5. /\ ~(Cardinality(Live(Pruned)) >= MaxAllGlobal)
            /\ ~(Cardinality(Owned(Pruned, scope)) >= MaxAllPerScope)
        <4>1. Live(Pruned) \cap {i \in Ids : Pruned[i].scope = scope} = Owned(Pruned, scope)
          BY DEF Live, Owned
        <4> QED BY <2>1, <4>1 DEF create_upload_operation, Full, Live
      <3>6. Cardinality(Live(ops')) <= MaxAllGlobal
        BY <1>0, <3>4, <3>5, Counting, ZenonT(60)
      <3>7. Cardinality(Owned(ops', scope)) <= MaxAllPerScope
        BY <1>0, <3>4, <3>5, Counting, ZenonT(60)
      <3>8. ASSUME NEW sc \in Scopes, sc # scope
            PROVE  Cardinality(Owned(ops', sc)) <= MaxAllPerScope
        <4>1. Owned(ops', sc) \subseteq Owned(ops, sc)
          BY <3>1, <3>4, <3>8
        <4> QED BY <1>0, <1>2, <4>1, Counting
      <3> QED BY <3>6, <3>7, <3>8
    <2>2. CASE ~\E j \in Ids, scope \in Scopes : create_upload_operation(j, scope)
      <3>1. \A i \in Ids : Evolves(ops[i], ops'[i])
        BY <1>2, <2>2, TableEvolves
      <3>2. /\ Live(ops') \subseteq Live(ops)
            /\ \A sc \in Scopes : Owned(ops', sc) \subseteq Owned(ops, sc)
        BY <3>1 DEF Evolves, Live, Owned
      <3> QED BY <1>0, <1>2, <3>2, Counting
    <2> QED BY <2>1, <2>2
  <1>3. Bounded => RowsBounded
    BY DEF RowsBounded, Live, Owned
  <1>4. TypeOK /\ Bounded /\ [Next]_vars => Bounded'
    BY <1>2
  <1> HIDE DEF Bounded
  <1> QED BY TypeCorrect, <1>1, <1>3, <1>4, PTL DEF Spec

=============================================================================
