----------------------------- MODULE MCWorkers -----------------------------
(* The liveness instance: the components whose work has to come to an end,   *)
(* side by side.  They share no variable: `part` picks the one that moves,   *)
(* so TLC explores each of them completely and not their product.            *)
EXTENDS DatabaseAdmission, CleanupWorker, Server, FileOperations

CONSTANTS g1, t1, t2, a, b, c, f, d1

MCJobs == {g1, t1, t2}
MCTransferJobs == {t1, t2}
MCHome == [n \in {a, b, c} |-> IF n = a THEN f ELSE IF n = b THEN d1 ELSE NoEntry]

VARIABLE part

MCInit == /\ part \in {"admission", "cleanup", "server", "files"}
          /\ AdmissionInit
          /\ CleanupInit /\ (part # "cleanup" => stale = {} /\ ~held)
          /\ ServerInit /\ (part # "server" => transport = "direct")
          /\ Init /\ (part # "files" => nonempty = {})

MCNext ==
    \/ part = "admission" /\ AdmissionNext /\ UNCHANGED <<cleanupVars, serverVars, vars>>
    \/ part = "cleanup" /\ CleanupNext /\ UNCHANGED <<admissionVars, serverVars, vars>>
    \/ part = "server" /\ ServerNext /\ UNCHANGED <<admissionVars, cleanupVars, vars>>
    \/ part = "files" /\ Next /\ UNCHANGED <<admissionVars, cleanupVars, serverVars>>

mcVars == <<part, admissionVars, cleanupVars, serverVars, vars>>
MCSpec == /\ MCInit
          /\ [][MCNext /\ UNCHANGED part]_mcVars
          /\ \/ part = "admission" /\ AdmissionFairness
             \/ part = "cleanup" /\ CleanupFairness
             \/ part = "server" /\ ServerFairness
             \/ part = "files" /\ FileFairness

(* Recovers of FileOperations, of the behaviours in which files move: dirty  *)
(* storage becomes clean again once recovery keeps being retried.            *)
StorageRecovers == part = "files" => Recovers
=============================================================================
