---------------------------- MODULE InitialSetup ----------------------------
(***************************************************************************)
(* The initial setup (src/setup/*.rs, the start modes of                   *)
(* src/server/runtime.rs): a form is turned into a configuration file, a   *)
(* marker in the data directory and the first administrator, in this       *)
(* order; the secret of the second factor is shown once, the operator      *)
(* confirms it, the marker goes, and the server starts.  The process may   *)
(* stop between any two of these steps, each of them may fail, and the     *)
(* operator may come back with the same or with another form.  The command *)
(* init-admin stores a first administrator without form or marker; it is a *)
(* process of its own and may run beside the setup.                        *)
(***************************************************************************)
EXTENDS Naturals

CONSTANTS
  Forms,           \* what an operator submits: [config, user, password]
  MaxSubmissions,  \* bound on the submissions
  Missing

InitialAdmin == [user : {form.user : form \in Forms},
                 password : {form.password : form \in Forms}, secret : Nat,
                 by : {"setup", "init-admin"}]
Submission == [form : Forms, recovering : BOOLEAN, wrote : BOOLEAN, secret : Nat \cup {Missing},
               at : {"hashing", "configuring", "marking", "creating", "showing"}]
Command == [user : {form.user : form \in Forms}, password : {form.password : form \in Forms},
            secret : Nat, at : {"creating", "printing"}]

ASSUME SetupAssumption ==
  /\ MaxSubmissions \in Nat
  /\ \A form \in Forms : Missing \notin {form.config, form.user}
  /\ Missing \notin InitialAdmin /\ Missing \notin Submission /\ Missing \notin Nat
  /\ Missing \notin Command

VARIABLES
  disk,     \* config file, pending marker, administrator (Missing or the value;
            \* "by" records which of the two stored the administrator)
  process,  \* "down", "setup", the service: "served" if it was started by
            \* container-start or from the setup page, "plain" if by itself
  memory,   \* the setup process: for a container, prepared, completed, start requested
  submit,   \* the submission that holds the commit lock, or Missing
  command,  \* the process of init-admin, or Missing
  secrets,  \* secrets generated so far
  shown     \* the secrets that were shown to the operator

setupVars == <<disk, process, memory, submit, command, secrets, shown>>

Forgotten == [container |-> FALSE, prepared |-> FALSE, completed |-> FALSE, start |-> "possible"]

InitialSetupInit ==
  /\ disk = [config |-> Missing, pending |-> Missing, admin |-> Missing]
  /\ process = "down"
  /\ memory = Forgotten
  /\ submit = Missing
  /\ command = Missing
  /\ secrets = 0
  /\ shown = {}

\* The marker names the administrator, if there are both.
MarkerStands ==
  disk.pending # Missing /\ disk.admin # Missing => disk.admin.user = disk.pending

\* Answered only if the marker stands, or without a configuration to find it by.
needs_setup ==
  disk.config = Missing \/ disk.admin = Missing \/ disk.pending # Missing

\* The setup modes ask nothing; container-start runs its setup when it is needed.
StartSetup(container) ==
  /\ process = "down"
  /\ container => needs_setup /\ (disk.config # Missing => MarkerStands)
  /\ process' = "setup" /\ memory' = [Forgotten EXCEPT !.container = container]
  /\ UNCHANGED <<disk, submit, command, secrets, shown>>

\* container-start with a finished setup.
StartService ==
  /\ process = "down"
  /\ MarkerStands /\ ~needs_setup
  /\ process' = "served"
  /\ UNCHANGED <<disk, memory, submit, command, secrets, shown>>

\* The mode without a command, in which the packages' unit starts the service:
\* the configuration has to be there, needs_setup is not asked.
Serve ==
  /\ process = "down"
  /\ disk.config # Missing
  /\ process' = "plain"
  /\ UNCHANGED <<disk, memory, submit, command, secrets, shown>>

Stop ==
  /\ process # "down"
  /\ process' = "down" /\ submit' = Missing
  /\ memory' = Forgotten
  /\ UNCHANGED <<disk, command, secrets, shown>>

-----------------------------------------------------------------------------
At(step) == process = "setup" /\ submit # Missing /\ submit.at = step

Go(step) == submit' = [submit EXCEPT !.at = step]

Release == submit' = Missing

\* The form is parsed and validated; a configuration file that is there must say
\* the same.  Every refusal releases the lock and changes nothing.
submit_setup(form) ==
  /\ process = "setup" /\ submit = Missing /\ ~memory.completed
  /\ secrets < MaxSubmissions
  /\ disk.config \in {Missing, form.config}
  /\ submit' = [form |-> form, at |-> "hashing",
                recovering |-> disk.config # Missing, wrote |-> FALSE, secret |-> Missing]
  /\ UNCHANGED <<disk, process, memory, command, secrets, shown>>

\* The request goes away while the password is hashed.
CancelSubmission ==
  /\ At("hashing") /\ Release
  /\ UNCHANGED <<disk, process, memory, command, secrets, shown>>

Recoverable ==
  /\ submit.recovering /\ disk.pending = submit.form.user
  /\ disk.admin.user = submit.form.user /\ disk.admin.password = submit.form.password

\* The administrator that an earlier attempt stored is recovered, or refused;
\* without one a new secret is generated.
build_and_store ==
  /\ At("hashing")
  /\ \/ /\ disk.admin # Missing /\ Recoverable
        /\ submit' = [submit EXCEPT !.at = "showing", !.secret = disk.admin.secret]
        /\ UNCHANGED secrets
     \/ /\ disk.admin # Missing /\ ~Recoverable
        /\ Release /\ UNCHANGED secrets
     \/ /\ disk.admin = Missing
        /\ secrets' = secrets + 1
        /\ submit' = [submit EXCEPT !.secret = secrets + 1,
                        !.at = IF submit.recovering THEN "marking" ELSE "configuring"]
  /\ UNCHANGED <<disk, process, memory, command, shown>>

\* write_config_atomic_new: nothing, or the whole file; an error of the last sync
\* leaves the file in place.
write_config_atomic_new(exists, synced) ==
  /\ At("configuring")
  /\ synced => exists
  /\ disk' = [disk EXCEPT !.config = IF exists THEN submit.form.config ELSE @]
  /\ IF synced THEN submit' = [submit EXCEPT !.at = "marking", !.wrote = TRUE] ELSE Release
  /\ UNCHANGED <<process, memory, command, secrets, shown>>

\* The error paths remove the file this attempt wrote, as far as they can.
RemoveConfig(removed) ==
  IF submit.wrote /\ removed THEN Missing ELSE disk.config

\* Mutant: the marker is not written before the administrator is.
MarkLater(ok, removed) ==
  /\ At("marking") /\ Go("creating")
  /\ UNCHANGED <<disk, process, memory, command, secrets, shown>>

ensure_initial_setup_pending(ok, removed) ==
  /\ At("marking")
  /\ LET user == submit.form.user
         stands == disk.pending = user
         free == disk.pending = Missing
     IN \/ /\ stands \/ (free /\ ok)
           /\ disk' = [disk EXCEPT !.pending = user]
           /\ Go("creating")
        \/ /\ ~stands
           /\ \E left \in {disk.pending} \cup (IF free THEN {user} ELSE {}) :
                disk' = [disk EXCEPT !.pending = left, !.config = RemoveConfig(removed)]
           /\ Release
  /\ UNCHANGED <<process, memory, command, secrets, shown>>

\* AlreadyInitialized leaves the configuration and the marker as they are.
create_initial_admin_and_audit(ok, removed) ==
  /\ At("creating")
  /\ \/ /\ ok /\ disk.admin = Missing
        /\ disk' = [disk EXCEPT !.admin = [user |-> submit.form.user, by |-> "setup",
                      password |-> submit.form.password, secret |-> submit.secret]]
        /\ Go("showing")
     \/ /\ ok /\ disk.admin # Missing
        /\ UNCHANGED disk /\ Release
     \/ /\ ~ok
        /\ disk' = [disk EXCEPT !.config = RemoveConfig(removed)]
        /\ Release
  /\ UNCHANGED <<process, memory, command, secrets, shown>>

\* The page with the secret; rendering the code may fail.
ShowSecret(rendered) ==
  /\ At("showing") /\ Release
  /\ IF rendered
     THEN /\ memory' = [memory EXCEPT !.prepared = TRUE]
          /\ shown' = shown \cup {submit.secret}
     ELSE UNCHANGED <<memory, shown>>
  /\ UNCHANGED <<disk, process, command, secrets>>

-----------------------------------------------------------------------------
\* clear_initial_setup_pending_for_storage may fail before or after the removal.
complete_setup(cleared, synced) ==
  /\ process = "setup" /\ submit = Missing
  /\ memory.prepared /\ ~memory.completed /\ disk.config # Missing
  /\ synced => cleared
  /\ disk' = [disk EXCEPT !.pending = IF cleared THEN Missing ELSE @]
  /\ memory' = [memory EXCEPT !.completed = synced]
  /\ UNCHANGED <<process, submit, command, secrets, shown>>

\* The sender is taken once; the task that uses it sleeps first.
start_server ==
  /\ process = "setup" /\ submit = Missing
  /\ memory.completed /\ memory.start = "possible"
  /\ memory' = [memory EXCEPT !.start = "requested"]
  /\ UNCHANGED <<disk, process, submit, command, secrets, shown>>

\* axum::serve returns and setup::run says start; container-start asks
\* needs_setup once more.
SetupEnds ==
  /\ process = "setup" /\ memory.start = "requested" /\ submit = Missing
  /\ process' = IF memory.container /\ (needs_setup \/ ~MarkerStands) THEN "down" ELSE "served"
  /\ memory' = Forgotten
  /\ UNCHANGED <<disk, submit, command, secrets, shown>>

-----------------------------------------------------------------------------
(* init-admin                                                              *)

\* A configuration may also be written by hand, before anything is started.
InstallConfig(form) ==
  /\ process = "down" /\ disk.config = Missing
  /\ disk' = [disk EXCEPT !.config = form.config]
  /\ UNCHANGED <<process, memory, submit, command, secrets, shown>>

\* There is no administrator; the password is asked for and a secret generated.
init_admin(form) ==
  /\ command = Missing /\ secrets < MaxSubmissions
  /\ disk.config # Missing /\ disk.admin = Missing
  /\ secrets' = secrets + 1
  /\ command' = [user |-> form.user, password |-> form.password, secret |-> secrets + 1,
                 at |-> "creating"]
  /\ UNCHANGED <<disk, process, memory, submit, shown>>

\* The same transaction, which looks again; a failure or an administrator by now
\* ends the command.
InitAdminCreates(ok) ==
  /\ command # Missing /\ command.at = "creating"
  /\ IF ok /\ disk.admin = Missing
       THEN /\ disk' = [disk EXCEPT !.admin = [user |-> command.user, by |-> "init-admin",
                          password |-> command.password, secret |-> command.secret]]
            /\ command' = [command EXCEPT !.at = "printing"]
       ELSE command' = Missing /\ UNCHANGED disk
  /\ UNCHANGED <<process, memory, submit, secrets, shown>>

\* The secret is printed, or the command is stopped before.
InitAdminEnds(printed) ==
  /\ command # Missing
  /\ printed => command.at = "printing"
  /\ shown' = IF printed THEN shown \cup {command.secret} ELSE shown
  /\ command' = Missing
  /\ UNCHANGED <<disk, process, memory, submit, secrets>>

InitialSetupNext ==
  \/ \E container \in BOOLEAN : StartSetup(container)
  \/ StartService \/ Serve \/ Stop
  \/ \E form \in Forms : submit_setup(form) \/ InstallConfig(form) \/ init_admin(form)
  \/ CancelSubmission \/ build_and_store
  \/ \E ok, also \in BOOLEAN :
       \/ write_config_atomic_new(ok, also)
       \/ ensure_initial_setup_pending(ok, also)
       \/ create_initial_admin_and_audit(ok, also)
       \/ complete_setup(ok, also)
  \/ \E ok \in BOOLEAN : ShowSecret(ok) \/ InitAdminCreates(ok) \/ InitAdminEnds(ok)
  \/ start_server \/ SetupEnds

InitialSetupSpec == InitialSetupInit /\ [][InitialSetupNext]_setupVars

-----------------------------------------------------------------------------
\* A service that container-start or the setup page started has a configuration
\* and an administrator, wherever an earlier setup stopped or failed.  As long as
\* the secret of an administrator stored by the setup has not been shown, the
\* marker stands for that administrator beside the configuration, so that
\* container-start opens the setup again and neither serves nor refuses to start;
\* when it serves, the secret has been shown (build_and_store, complete_setup,
\* needs_setup).  The plain start mode asks nothing, and an administrator stored by
\* init-admin has no marker: nothing is said of them.
ServedSetupConfirmed ==
  /\ process = "served" => disk.config # Missing /\ disk.admin # Missing
  /\ disk.admin # Missing /\ disk.admin.by = "setup" =>
       /\ disk.config # Missing
       /\ MarkerStands
       /\ disk.admin.secret \notin shown => disk.pending # Missing /\ process # "served"
=============================================================================
