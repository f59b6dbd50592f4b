---------------------------- MODULE UpdateControl ----------------------------
(***************************************************************************)
(* Updates from the web interface (src/updates/host.rs, src/updates.rs,    *)
(* src/web/updates.rs): a root controller takes one request at a time,     *)
(* records it in status.json and starts a job as a systemd unit; the job   *)
(* picks the request up, works, and records the end.  Both read and write  *)
(* the file under one lock, and what systemd does and answers may be late. *)
(* Versions are numbers.  Request ids are drawn afresh for every request   *)
(* (web/updates.rs), so the answer to a repeated one is left out.          *)
(***************************************************************************)
EXTENDS Naturals

CONSTANTS
  MaxVersion,   \* versions are 1 .. MaxVersion
  MaxRequests,  \* bound on the requests
  NoUpdate

ASSUME UpdateAssumption == MaxVersion \in Nat \ {0} /\ MaxRequests \in Nat

VARIABLES
  job_status, \* status.json
  controller, \* where serve stands with its request; at "starting" it holds the lock
  unit,       \* vaultlink-gui-update.service: "inactive", "pending" or "active"
  worker,     \* the job in it: where it stands and the status it read
  host,       \* installed and newest version, update.conf and its timer
  requests,   \* requests so far
  begun       \* requests some job has begun

updateVars == <<job_status, controller, unit, worker, host, requests, begun>>

Actions == {<<"check", 0>>, <<"automatic", TRUE>>, <<"automatic", FALSE>>}
             \cup {<<"install", v>> : v \in 1 .. MaxVersion}
Waiting == [pc |-> "idle", request |-> 0, action |-> NoUpdate]
NoWorker == [pc |-> "none", state |-> NoUpdate, ok |-> FALSE, before |-> FALSE]

UpdateInit ==
  /\ job_status = [phase |-> "idle", request |-> 0, operation |-> NoUpdate, latest |-> 0,
               update_available |-> FALSE, fresh |-> FALSE]
  /\ controller = Waiting
  /\ unit = "inactive" /\ worker = NoWorker
  /\ host = [installed |-> 1, released |-> 1, conf |-> FALSE, timer |-> FALSE]
  /\ requests = 0 /\ begun = {}

-----------------------------------------------------------------------------
LockFree == controller.pc # "starting"
busy(state) == state.phase \in {"queued", "running"}

\* Something else may have installed what the last check found.
refresh_installed(state) ==
  [state EXCEPT !.update_available = @ /\ state.latest > host.installed]

\* systemctl show, external: a start that is under way may look like none, and
\* the question may fail.
ActiveStates ==
  {"unknown"} \cup (CASE unit = "active" -> {"active"}
                      [] unit = "pending" -> {"inactive", "activating"}
                      [] unit = "inactive" -> {"inactive"})

\* Bug shape: no answer counts as the end of the job.
ReconcileUnknown(state, active) ==
  IF busy(state) /\ active \in {"inactive", "unknown"}
    THEN [refresh_installed(state) EXCEPT !.phase = "failed"]
    ELSE state
reconcile_job_state(state, active) ==
  IF busy(state) /\ active = "inactive"
    THEN [refresh_installed(state) EXCEPT !.phase = "failed"]
    ELSE state

status ==
  \E active \in ActiveStates : job_status' = reconcile_job_state(job_status, active)

validate_submission(state, action) ==
  /\ ~busy(state)
  /\ action[1] = "install" =>
       /\ state.update_available /\ state.fresh
       /\ state.latest = action[2] /\ action[2] > host.installed

\* serve: a status request.
answer_status ==
  /\ controller.pc = "idle" /\ status
  /\ UNCHANGED <<controller, unit, worker, host, requests, begun>>

\* The web's submit, once the audit row is committed.
receive_submit(action) ==
  /\ controller.pc = "idle" /\ requests < MaxRequests
  /\ requests' = requests + 1
  /\ controller' = [pc |-> "refreshing", request |-> requests', action |-> action]
  /\ UNCHANGED <<job_status, unit, worker, host, begun>>

\* submit: the status first, under a lock of its own.
refresh_interrupted ==
  /\ controller.pc = "refreshing" /\ status
  /\ controller' = [controller EXCEPT !.pc = "admitting"]
  /\ UNCHANGED <<unit, worker, host, requests, begun>>
submit_update ==
  /\ controller.pc = "admitting"
  /\ LET state == refresh_installed(job_status)
         admitted == validate_submission(state, controller.action)
     IN /\ job_status' = IF admitted
                       THEN [state EXCEPT !.request = controller.request, !.phase = "queued",
                                          !.operation = controller.action]
                       ELSE job_status
        /\ controller' = IF admitted THEN [controller EXCEPT !.pc = "starting"] ELSE Waiting
  /\ UNCHANGED <<unit, worker, host, requests, begun>>

\* systemd-run: started, refused, or no answer in time; and then the start may
\* have been submitted or not.  A unit of that name is not started twice.
systemd_run(answer) ==
  /\ controller.pc = "starting"
  /\ controller' = Waiting
  /\ job_status' = IF answer = "refused" THEN [job_status EXCEPT !.phase = "failed"] ELSE job_status
  /\ unit' \in CASE answer = "started" -> {"pending"}
                 [] answer = "refused" -> {unit}
                 [] answer = "timed out" -> {unit} \cup (IF unit = "inactive" THEN {"pending"} ELSE {})
  /\ answer = "started" => unit = "inactive"
  /\ UNCHANGED <<worker, host, requests, begun>>

\* The controller's own deadline, an error, or its end.  A start that was under
\* way may go on.
request_fails ==
  /\ controller.pc # "idle"
  /\ controller' = Waiting
  /\ unit' \in {unit} \cup (IF controller.pc = "starting" /\ unit = "inactive"
                              THEN {"pending"} ELSE {})
  /\ UNCHANGED <<job_status, worker, host, requests, begun>>

-----------------------------------------------------------------------------
\* systemd, external.
unit_starts ==
  /\ unit = "pending"
  /\ \/ unit' = "active" /\ worker' = [NoWorker EXCEPT !.pc = "begin"]
     \/ unit' = "inactive" /\ UNCHANGED worker
  /\ UNCHANGED <<job_status, controller, host, requests, begun>>
JobEnds == unit' = "inactive" /\ worker' = NoWorker
job_killed ==
  /\ unit = "active" /\ JobEnds
  /\ UNCHANGED <<job_status, controller, host, requests, begun>>
reboot ==
  /\ controller' = Waiting /\ JobEnds
  /\ UNCHANGED <<job_status, host, requests, begun>>

\* job: it takes up what is queued, and nothing else.
job ==
  /\ worker.pc = "begin" /\ LockFree
  /\ \/ /\ job_status.phase # "queued" /\ JobEnds
        /\ UNCHANGED <<job_status, begun>>
     \/ /\ job_status.phase = "queued"
        /\ job_status' = [job_status EXCEPT !.phase = "running"]
        /\ worker' = [worker EXCEPT !.pc = "working", !.state = job_status']
        /\ begun' = begun \cup {job_status.request}
        /\ UNCHANGED unit
  /\ UNCHANGED <<controller, host, requests>>

Operation == worker.state.operation
Done(ok, state) == worker' = [worker EXCEPT !.pc = "finishing", !.ok = ok, !.state = state]

\* The signed updater, external: it reports the newest release, and installs the
\* confirmed version only while that is the newest.
check ==
  /\ worker.pc = "working" /\ Operation[1] = "check"
  /\ Done(TRUE, [worker.state EXCEPT !.latest = host.released, !.fresh = TRUE,
                                     !.update_available = host.released > host.installed])
  /\ UNCHANGED <<job_status, controller, unit, host, requests, begun>>
install ==
  /\ worker.pc = "working" /\ Operation[1] = "install" /\ Operation[2] = host.released
  /\ host' = [host EXCEPT !.installed = host.released]
  /\ Done(TRUE, [worker.state EXCEPT !.update_available = FALSE])
  /\ UNCHANGED <<job_status, controller, unit, requests, begun>>
operation_fails ==
  /\ worker.pc = "working" /\ Done(FALSE, worker.state)
  /\ UNCHANGED <<job_status, controller, unit, host, requests, begun>>

\* set_automatic: the file, then the timer; what fails is put back as far as it can.
write_update_conf ==
  /\ worker.pc = "working" /\ Operation[1] = "automatic"
  /\ worker' = [worker EXCEPT !.pc = "timer", !.before = host.conf]
  /\ host' = [host EXCEPT !.conf = Operation[2]]
  /\ UNCHANGED <<job_status, controller, unit, requests, begun>>
set_timer(succeeds) ==
  /\ worker.pc = "timer" /\ Done(succeeds, worker.state)
  /\ IF succeeds
       THEN host' = [host EXCEPT !.timer = Operation[2]]
       ELSE \E conf \in {worker.before, host.conf}, timer \in BOOLEAN :
              host' = [host EXCEPT !.conf = conf, !.timer = timer]
  /\ UNCHANGED <<job_status, controller, unit, requests, begun>>

\* The end of job writes back the status it has read, with the outcome.
finish_job ==
  /\ worker.pc = "finishing" /\ LockFree
  /\ job_status' = [refresh_installed(worker.state) EXCEPT
                  !.phase = IF worker.ok THEN "complete" ELSE "failed"]
  /\ JobEnds
  /\ UNCHANGED <<controller, host, requests, begun>>

-----------------------------------------------------------------------------
\* The world: a release, an installation by timer or command line, an hour.
publish_release ==
  /\ host.released < MaxVersion
  /\ host' = [host EXCEPT !.released = @ + 1]
  /\ UNCHANGED <<job_status, controller, unit, worker, requests, begun>>
native_update ==
  /\ host.installed < host.released
  /\ host' = [host EXCEPT !.installed = host.released]
  /\ UNCHANGED <<job_status, controller, unit, worker, requests, begun>>
check_expires ==
  /\ job_status.fresh /\ ~busy(job_status)
  /\ job_status' = [job_status EXCEPT !.fresh = FALSE]
  /\ UNCHANGED <<controller, unit, worker, host, requests, begun>>

UpdateNext ==
  \/ answer_status \/ refresh_interrupted \/ submit_update \/ request_fails
  \/ \E action \in Actions : receive_submit(action)
  \/ \E answer \in {"started", "refused", "timed out"} : systemd_run(answer)
  \/ unit_starts \/ job_killed \/ reboot
  \/ job \/ check \/ install \/ operation_fails \/ write_update_conf \/ finish_job
  \/ \E succeeds \in BOOLEAN : set_timer(succeeds)
  \/ publish_release \/ native_update \/ check_expires

UpdateSpec == UpdateInit /\ [][UpdateNext]_updateVars

-----------------------------------------------------------------------------
\* What the page shows of an update is so, however late systemd answers and
\* wherever a process ends: while a job works, the status is that of its request
\* and no other is admitted; a request a job has begun is never queued again; and
\* a completed request has taken effect (submit, status, job, reconcile_job_state).
UpdateStatusTrue ==
  /\ worker.pc \in {"working", "timer", "finishing"} =>
       job_status.phase = "running" /\ job_status.request = worker.state.request
  /\ job_status.phase = "queued" => job_status.request \notin begun
  /\ job_status.phase = "complete" =>
       CASE job_status.operation[1] = "check" -> job_status.latest \in 1 .. host.released
         [] job_status.operation[1] = "install" -> host.installed >= job_status.operation[2]
         [] job_status.operation[1] = "automatic" ->
              host.conf = job_status.operation[2] /\ host.timer = job_status.operation[2]
=============================================================================
