--------------------------- MODULE PlatformProofs ---------------------------
(***************************************************************************)
(* What the platform promises for every value of the constants: the update *)
(* status is true, and the published settings and the service built from them*)
(* agree with the database.                                                *)
(***************************************************************************)
EXTENDS UpdateControl, RuntimeSettings, TLAPS

-----------------------------------------------------------------------------
(* Updates                                                                 *)

UpdatePhases == {"idle", "queued", "running", "complete", "failed"}
UpdateVersions == 1 .. MaxVersion
UpdateStatusRow == [phase : UpdatePhases, request : Nat, operation : Actions \cup {NoUpdate},
           latest : Nat, update_available : BOOLEAN, fresh : BOOLEAN]
UpdateWorking == {"working", "timer", "finishing"}

UpdateTypes ==
  /\ job_status \in UpdateStatusRow
  /\ controller \in [pc : {"idle", "refreshing", "admitting", "starting"}, request : Nat,
                     action : Actions \cup {NoUpdate}]
  /\ unit \in {"inactive", "pending", "active"}
  /\ worker \in [pc : {"none", "begin"} \cup UpdateWorking, state : UpdateStatusRow \cup {NoUpdate},
                 ok : BOOLEAN, before : BOOLEAN]
  /\ host \in [installed : Nat, released : Nat, conf : BOOLEAN, timer : BOOLEAN]
  /\ requests \in Nat /\ begun \in SUBSET Nat

\* What a request has done once it is complete.
TookEffect(state) ==
  /\ state.operation \in Actions
  /\ state.operation[1] = "check" => state.latest \in 1 .. host.released
  /\ state.operation[1] = "install" => host.installed >= state.operation[2]
  /\ state.operation[1] = "automatic" =>
       host.conf = state.operation[2] /\ host.timer = state.operation[2]

\* Requests are numbered: the one in the controller is the last, and until it is
\* admitted neither the status nor a job knows it.
Numbered ==
  /\ job_status.request <= requests
  /\ \A n \in begun : n <= requests
  /\ controller.pc # "idle" =>
       controller.request = requests /\ requests \notin begun /\ controller.action \in Actions
  /\ controller.pc \in {"refreshing", "admitting"} => job_status.request # requests
  /\ job_status.phase = "queued" => job_status.request \notin begun

\* While the controller starts the job it keeps the lock, and the request queued.
Starting ==
  controller.pc = "starting" => job_status.phase = "queued" /\ job_status.request = requests

\* The job and its unit, and what the job has read and done.
Job ==
  /\ worker.pc # "none" <=> unit = "active"
  /\ busy(job_status) => job_status.operation \in Actions
  /\ job_status.phase = "complete" => TookEffect(job_status)
  /\ host.installed <= host.released /\ host.released >= 1
  /\ worker.pc \in UpdateWorking =>
       /\ job_status.phase = "running"
       /\ worker.state \in UpdateStatusRow /\ worker.state.operation \in Actions
       /\ worker.state.request = job_status.request
       /\ worker.pc = "timer" => /\ worker.state.operation[1] = "automatic"
                                 /\ host.conf = worker.state.operation[2]
       /\ worker.pc = "finishing" /\ worker.ok => TookEffect(worker.state)

UpdateInv == UpdateTypes /\ Numbered /\ Starting /\ Job

-----------------------------------------------------------------------------
\* A field of a status may be set.
LEMMA SetStatus ==
  ASSUME NEW state \in UpdateStatusRow
  PROVE  /\ \A phase \in UpdatePhases : [state EXCEPT !.phase = phase] \in UpdateStatusRow
         /\ \A b \in BOOLEAN : /\ [state EXCEPT !.update_available = b] \in UpdateStatusRow
                               /\ [state EXCEPT !.fresh = b] \in UpdateStatusRow
  BY DEF UpdateStatusRow

LEMMA RefreshKeeps ==
  ASSUME NEW state \in UpdateStatusRow
  PROVE  LET new == refresh_installed(state)
         IN /\ new \in UpdateStatusRow
            /\ new.phase = state.phase /\ new.request = state.request
            /\ new.operation = state.operation /\ new.latest = state.latest
<1>1. (state.update_available /\ state.latest > host.installed) \in BOOLEAN
  OBVIOUS
<1>2. refresh_installed(state) =
        [state EXCEPT !.update_available = state.update_available /\ state.latest > host.installed]
  BY DEF refresh_installed, UpdateStatusRow
<1>3. refresh_installed(state) \in UpdateStatusRow
  <2> DEFINE b == state.update_available /\ state.latest > host.installed
  <2>1. b \in BOOLEAN
    BY <1>1
  <2> HIDE DEF b
  <2>2. [state EXCEPT !.update_available = b] \in UpdateStatusRow
    BY <2>1, SetStatus, Zenon
  <2> QED BY <1>2, <2>2 DEF b
<1>4. LET new == refresh_installed(state)
      IN /\ new.phase = state.phase /\ new.request = state.request
         /\ new.operation = state.operation /\ new.latest = state.latest
  BY <1>2 DEF UpdateStatusRow
<1> QED BY <1>3, <1>4

LEMMA UpdateInitInv == UpdateInit => UpdateInv
  BY UpdateAssumption
  DEF UpdateInit, UpdateInv, UpdateTypes, UpdateStatusRow, UpdatePhases, UpdateWorking, Numbered, Starting, Job, Waiting,
      NoWorker, busy

\* The second part of an action depends on its kind.
LEMMA ActionKinds ==
  ASSUME NEW action \in Actions
  PROVE  /\ action[1] = "install" => action[2] \in Nat
         /\ action[1] = "automatic" => action[2] \in BOOLEAN
         /\ action[1] \in {"check", "install", "automatic"}
<1>1. CASE action = <<"check", 0>>
  <2>1. action[1] = "check"
    BY <1>1
  <2> QED BY <2>1
<1>2. CASE \E on \in BOOLEAN : action = <<"automatic", on>>
  <2>1. action[1] = "automatic" /\ action[2] \in BOOLEAN
    BY <1>2
  <2> QED BY <2>1
<1>3. CASE \E v \in 1 .. MaxVersion : action = <<"install", v>>
  <2>1. action[1] = "install" /\ action[2] \in Nat
    BY <1>3
  <2> QED BY <2>1
<1> QED BY <1>1, <1>2, <1>3, Zenon DEF Actions

\* A job that has come to the end of its work, in whichever way.
LEMMA WorkDone ==
  ASSUME UpdateInv, NEW ok \in BOOLEAN, NEW new \in UpdateStatusRow,
         worker.pc \in {"working", "timer"}, Done(ok, new),
         new.request = worker.state.request, new.operation = worker.state.operation,
         ok => TookEffect(new)',
         host' \in [installed : Nat, released : Nat, conf : BOOLEAN, timer : BOOLEAN],
         host'.installed <= host'.released, host'.released >= 1,
         UNCHANGED <<job_status, controller, unit, requests, begun>>
  PROVE  UpdateInv'
<1> USE DEF UpdateInv, UpdateTypes, Numbered, Starting, Job
<1>1. worker' = [worker EXCEPT !.pc = "finishing", !.ok = ok, !.state = new]
  BY DEF Done
<1>2. UpdateTypes'
  BY <1>1, Zenon DEF UpdateWorking
<1>3. Numbered' /\ Starting'
  OBVIOUS
<1>4. /\ worker'.pc = "finishing" /\ worker'.ok = ok /\ worker'.state = new
      /\ worker.pc # "none" /\ job_status.phase = "running"
  BY <1>1 DEF UpdateWorking
<1>5. Job'
  BY <1>4 DEF UpdateWorking, busy
<1> QED BY <1>2, <1>3, <1>5

\* What a question for the status may do: nothing, or end a job that is not there.
LEMMA StatusSteps ==
  ASSUME UpdateInv, status
  PROVE  \/ job_status' = job_status
         \/ /\ busy(job_status) /\ unit # "active"
            /\ job_status' \in UpdateStatusRow /\ job_status'.phase = "failed"
            /\ job_status'.request = job_status.request
            /\ job_status'.operation = job_status.operation
<1>1. PICK active \in ActiveStates : job_status' = reconcile_job_state(job_status, active)
  BY DEF status
<1>2. CASE busy(job_status) /\ active = "inactive"
  <2>1. unit # "active"
    BY <1>2 DEF ActiveStates, UpdateInv, UpdateTypes
  <2> DEFINE new == refresh_installed(job_status)
  <2>2. new \in UpdateStatusRow /\ new.request = job_status.request /\ new.operation = job_status.operation
    BY RefreshKeeps DEF UpdateInv, UpdateTypes
  <2>3. job_status' = [new EXCEPT !.phase = "failed"]
    BY <1>1, <1>2 DEF reconcile_job_state
  <2> HIDE DEF new
  <2>4. job_status' \in UpdateStatusRow
    BY <2>2, <2>3, SetStatus, Zenon DEF UpdatePhases
  <2>5. /\ job_status'.phase = "failed"
        /\ job_status'.request = new.request /\ job_status'.operation = new.operation
    BY <2>2, <2>3 DEF UpdateStatusRow
  <2> QED BY <1>2, <2>1, <2>2, <2>4, <2>5
<1>3. CASE ~(busy(job_status) /\ active = "inactive")
  BY <1>1, <1>3 DEF reconcile_job_state
<1> QED BY <1>2, <1>3

LEMMA UpdateStepInv == UpdateInv /\ [UpdateNext]_updateVars => UpdateInv'
<1> SUFFICES ASSUME UpdateInv, [UpdateNext]_updateVars PROVE UpdateInv'
  OBVIOUS
<1> USE UpdateAssumption DEF UpdateInv, UpdateTypes, Numbered, Starting, Job
<1>1. CASE answer_status
  <2>1. UpdateTypes'
    BY <1>1, StatusSteps DEF answer_status
  <2>2. Numbered' /\ Starting'
    BY <1>1, StatusSteps DEF answer_status, busy
  <2>3. Job'
    BY <1>1, StatusSteps DEF answer_status, busy, UpdateWorking, TookEffect
  <2> QED BY <2>1, <2>2, <2>3
<1>2. CASE refresh_interrupted
  <2>1. UpdateTypes'
    BY <1>2, StatusSteps DEF refresh_interrupted
  <2>2. Numbered' /\ Starting'
    BY <1>2, StatusSteps DEF refresh_interrupted, busy
  <2>3. Job'
    BY <1>2, StatusSteps DEF refresh_interrupted, busy, UpdateWorking, TookEffect
  <2> QED BY <2>1, <2>2, <2>3
<1>3. CASE submit_update
  <2> DEFINE state == refresh_installed(job_status)
             admitted == validate_submission(state, controller.action)
  <2>1. /\ state \in UpdateStatusRow /\ state.phase = job_status.phase
        /\ state.request = job_status.request /\ state.operation = job_status.operation
    BY RefreshKeeps
  <2>2. CASE admitted
    <3>1. ~busy(job_status)
      BY <2>1, <2>2 DEF validate_submission, busy
    <3>2. /\ job_status' = [state EXCEPT !.request = controller.request, !.phase = "queued",
                                         !.operation = controller.action]
          /\ controller' = [controller EXCEPT !.pc = "starting"]
          /\ UNCHANGED <<unit, worker, host, requests, begun>>
      BY <1>3, <2>2 DEF submit_update
    <3> HIDE DEF state, admitted
    <3>3. /\ job_status' \in UpdateStatusRow /\ job_status'.request = controller.request
          /\ job_status'.phase = "queued" /\ job_status'.operation = controller.action
      BY <1>3, <2>1, <3>2, Zenon DEF submit_update, UpdateStatusRow, UpdatePhases
    <3>4. controller'.pc = "starting" /\ controller'.request = controller.request
            /\ controller'.action = controller.action /\ controller.pc = "admitting"
      BY <1>3, <3>2 DEF submit_update
    <3>5. UpdateTypes'
      BY <3>2, <3>3
    <3>6. Numbered' /\ Starting'
      BY <3>2, <3>3, <3>4
    <3>7. Job'
      BY <3>1, <3>2, <3>3, <3>4 DEF busy, UpdateWorking
    <3> QED BY <3>5, <3>6, <3>7
  <2>3. CASE ~admitted
    <3>1. job_status' = job_status /\ controller' = Waiting
            /\ UNCHANGED <<unit, worker, host, requests, begun>>
      BY <1>3, <2>3 DEF submit_update
    <3> QED BY <3>1 DEF Waiting, busy, UpdateWorking, TookEffect
  <2> QED BY <2>2, <2>3
<1>4. CASE request_fails
  <2>1. UpdateTypes'
    BY <1>4 DEF request_fails, Waiting, UpdateStatusRow, UpdatePhases, UpdateWorking
  <2>2. Numbered' /\ Starting'
    BY <1>4, Zenon DEF request_fails, Waiting, UpdateStatusRow, busy, UpdateWorking
  <2>3. Job'
    BY <1>4 DEF request_fails, Waiting, UpdateStatusRow, busy, UpdateWorking, TookEffect
  <2> QED BY <2>1, <2>2, <2>3
<1>5. CASE unit_starts
  <2>1. UpdateTypes'
    BY <1>5, Zenon DEF unit_starts, NoWorker, UpdateWorking
  <2>2. Numbered' /\ Starting'
    BY <1>5 DEF unit_starts, NoWorker, UpdateStatusRow, busy, UpdateWorking
  <2>3. Job'
    BY <1>5 DEF unit_starts, NoWorker, UpdateStatusRow, busy, UpdateWorking, TookEffect
  <2> QED BY <2>1, <2>2, <2>3
<1>6. CASE job_killed
  <2>1. UpdateTypes'
    BY <1>6 DEF job_killed, JobEnds, NoWorker, UpdateStatusRow, UpdatePhases, UpdateWorking
  <2>2. Numbered' /\ Starting'
    BY <1>6, Zenon DEF job_killed, JobEnds, NoWorker, UpdateStatusRow, busy, UpdateWorking
  <2>3. Job'
    BY <1>6 DEF job_killed, JobEnds, NoWorker, UpdateStatusRow, busy, UpdateWorking, TookEffect
  <2> QED BY <2>1, <2>2, <2>3
<1>7. CASE reboot
  <2>1. UpdateTypes'
    BY <1>7 DEF reboot, JobEnds, NoWorker, Waiting, UpdateStatusRow, UpdatePhases, UpdateWorking
  <2>2. Numbered' /\ Starting'
    BY <1>7, Zenon DEF reboot, JobEnds, NoWorker, Waiting, UpdateStatusRow, busy, UpdateWorking
  <2>3. Job'
    BY <1>7 DEF reboot, JobEnds, NoWorker, Waiting, UpdateStatusRow, busy, UpdateWorking, TookEffect
  <2> QED BY <2>1, <2>2, <2>3
<1>8. CASE job
  <2>1. CASE job_status.phase # "queued"
    <3>1. JobEnds /\ UNCHANGED <<job_status, controller, host, requests, begun>>
      BY <1>8, <2>1 DEF job
    <3> QED BY <3>1 DEF JobEnds, NoWorker, UpdateWorking, busy, TookEffect
  <2>2. CASE job_status.phase = "queued"
    <3>1. /\ worker.pc = "begin" /\ controller.pc # "starting"
          /\ job_status' = [job_status EXCEPT !.phase = "running"]
          /\ worker' = [worker EXCEPT !.pc = "working", !.state = job_status']
          /\ begun' = begun \cup {job_status.request}
          /\ UNCHANGED <<unit, controller, host, requests>>
      BY <1>8, <2>2 DEF job, LockFree
    <3>2. /\ job_status' \in UpdateStatusRow /\ job_status'.phase = "running"
          /\ job_status'.request = job_status.request
          /\ job_status'.operation = job_status.operation
      <4>1. job_status' \in UpdateStatusRow
        BY <3>1, SetStatus, Zenon DEF UpdatePhases
      <4> QED BY <3>1, <4>1 DEF UpdateStatusRow
    <3>3. worker'.pc = "working" /\ worker'.state = job_status'
      BY <3>1
    <3>4. UpdateTypes'
      BY <3>1, <3>2, ZenonT(30) DEF UpdateWorking, UpdateStatusRow
    <3>5. Numbered' /\ Starting'
      BY <2>2, <3>1, <3>2 DEF UpdateStatusRow
    <3>6. Job'
      BY <2>2, <3>1, <3>2, <3>3, Zenon DEF UpdateWorking, busy
    <3> QED BY <3>4, <3>5, <3>6
  <2> QED BY <2>1, <2>2
<1>9. CASE check
  <2>1. PICK new : /\ new = [worker.state EXCEPT !.latest = host.released, !.fresh = TRUE,
                                   !.update_available = host.released > host.installed]
                   /\ worker.pc = "working" /\ worker.state.operation[1] = "check"
                   /\ Done(TRUE, new)
                   /\ UNCHANGED <<job_status, controller, unit, host, requests, begun>>
    BY <1>9, Zenon DEF check, Operation
  <2>2. worker.state \in UpdateStatusRow /\ (host.released > host.installed) \in BOOLEAN
    BY <2>1 DEF UpdateWorking
  <2>3. /\ new \in UpdateStatusRow /\ new.operation = worker.state.operation
        /\ new.request = worker.state.request /\ new.latest = host.released
    BY <2>1, <2>2, Zenon DEF UpdateStatusRow
  <2>4. TookEffect(new)'
    BY <2>1, <2>3, ActionKinds DEF TookEffect, UpdateWorking
  <2> QED BY <2>1, <2>3, <2>4, WorkDone, Zenon
<1>10. CASE install
  <2>1. PICK new : /\ new = [worker.state EXCEPT !.update_available = FALSE]
                   /\ worker.pc = "working" /\ worker.state.operation[1] = "install"
                   /\ worker.state.operation[2] = host.released /\ Done(TRUE, new)
                   /\ host' = [host EXCEPT !.installed = host.released]
                   /\ UNCHANGED <<job_status, controller, unit, requests, begun>>
    BY <1>10, Zenon DEF install, Operation
  <2>2. worker.state \in UpdateStatusRow
    BY <2>1 DEF UpdateWorking
  <2>3. /\ new \in UpdateStatusRow /\ new.operation = worker.state.operation
        /\ new.request = worker.state.request
    BY <2>1, <2>2, Zenon DEF UpdateStatusRow
  <2>4. /\ host' \in [installed : Nat, released : Nat, conf : BOOLEAN, timer : BOOLEAN]
        /\ host'.installed = host.released /\ host'.released = host.released
    BY <2>1
  <2>5. TookEffect(new)'
    BY <2>1, <2>3, <2>4, ActionKinds DEF TookEffect, UpdateWorking
  <2>6. host'.installed <= host'.released /\ host'.released >= 1
    BY <2>4
  <2> QED BY <2>1, <2>3, <2>4, <2>5, <2>6, WorkDone, Zenon
<1>11. CASE operation_fails
  <2>1. /\ worker.pc = "working" /\ Done(FALSE, worker.state)
        /\ UNCHANGED <<job_status, controller, unit, host, requests, begun>>
    BY <1>11, Zenon DEF operation_fails
  <2>2. worker.state \in UpdateStatusRow
    BY <2>1 DEF UpdateWorking
  <2> QED BY <2>1, <2>2, WorkDone, Zenon
<1>12. CASE write_update_conf
  <2>1. /\ worker.pc = "working" /\ worker.state.operation[1] = "automatic"
        /\ worker' = [worker EXCEPT !.pc = "timer", !.before = host.conf]
        /\ host' = [host EXCEPT !.conf = worker.state.operation[2]]
        /\ UNCHANGED <<job_status, controller, unit, requests, begun>>
    BY <1>12 DEF write_update_conf, Operation
  <2>2. worker.state \in UpdateStatusRow /\ worker.state.operation \in Actions
    BY <2>1 DEF UpdateWorking
  <2>3. worker.state.operation[2] \in BOOLEAN
    BY <2>1, <2>2, ActionKinds
  <2>4. UpdateTypes'
    BY <2>1, <2>2, <2>3, Zenon DEF UpdateWorking
  <2>5. Numbered' /\ Starting'
    BY <2>1
  <2>6. Job'
    BY <2>1, <2>2 DEF UpdateWorking, busy
  <2> QED BY <2>4, <2>5, <2>6
<1>13. ASSUME NEW succeeds \in BOOLEAN, set_timer(succeeds) PROVE UpdateInv'
  <2>1. /\ worker.pc = "timer" /\ Done(succeeds, worker.state)
        /\ UNCHANGED <<job_status, controller, unit, requests, begun>>
    BY <1>13, Zenon DEF set_timer
  <2>2. worker.state \in UpdateStatusRow /\ worker.state.operation \in Actions
          /\ worker.state.operation[1] = "automatic"
          /\ host.conf = worker.state.operation[2]
    BY <2>1 DEF UpdateWorking
  <2>3. worker.state.operation[2] \in BOOLEAN
    BY <2>2, ActionKinds
  <2>4. CASE succeeds
    <3>1. host' = [host EXCEPT !.timer = worker.state.operation[2]]
      BY <1>13, <2>4 DEF set_timer, Operation
    <3>2. /\ host' \in [installed : Nat, released : Nat, conf : BOOLEAN, timer : BOOLEAN]
          /\ host'.installed = host.installed /\ host'.released = host.released
          /\ host'.conf = host.conf /\ host'.timer = worker.state.operation[2]
      BY <2>3, <3>1
    <3>3. TookEffect(worker.state)'
      BY <2>1, <2>2, <3>2 DEF TookEffect, Done
    <3>4. worker'.state = worker.state
      BY <2>1 DEF Done
    <3> QED BY <2>1, <2>2, <3>2, <3>3, <3>4, WorkDone
  <2>5. CASE ~succeeds
    <3>1. PICK conf \in {worker.before, host.conf}, timer \in BOOLEAN :
            host' = [host EXCEPT !.conf = conf, !.timer = timer]
      BY <1>13, <2>5, Zenon DEF set_timer
    <3>2. /\ host' \in [installed : Nat, released : Nat, conf : BOOLEAN, timer : BOOLEAN]
          /\ host'.installed = host.installed /\ host'.released = host.released
      BY <3>1, Zenon
    <3> QED BY <2>1, <2>2, <2>5, <3>2, WorkDone
  <2> QED BY <2>4, <2>5
<1>14. CASE finish_job
  <2>1. UpdateTypes'
    BY <1>14, ZenonT(30) DEF finish_job, LockFree, refresh_installed, JobEnds, NoWorker, UpdateStatusRow, UpdatePhases, UpdateWorking
  <2>2. Numbered' /\ Starting'
    BY <1>14 DEF finish_job, LockFree, refresh_installed, JobEnds, NoWorker, UpdateStatusRow, busy, UpdateWorking
  <2>3. Job'
    BY <1>14 DEF finish_job, LockFree, refresh_installed, JobEnds, NoWorker, UpdateStatusRow, busy, UpdateWorking, TookEffect
  <2> QED BY <2>1, <2>2, <2>3
<1>15. CASE publish_release
  <2>1. UpdateTypes'
    BY <1>15 DEF publish_release, UpdateStatusRow, UpdatePhases, UpdateWorking
  <2>2. Numbered' /\ Starting'
    BY <1>15 DEF publish_release, UpdateStatusRow, busy, UpdateWorking
  <2>3. Job'
    BY <1>15 DEF publish_release, UpdateStatusRow, busy, UpdateWorking, TookEffect
  <2> QED BY <2>1, <2>2, <2>3
<1>16. CASE native_update
  <2>1. /\ host' = [host EXCEPT !.installed = host.released] /\ host.installed < host.released
        /\ UNCHANGED <<job_status, controller, unit, worker, requests, begun>>
    BY <1>16 DEF native_update
  <2>2. /\ host' \in [installed : Nat, released : Nat, conf : BOOLEAN, timer : BOOLEAN]
        /\ host'.installed = host.released /\ host'.released = host.released
        /\ host'.conf = host.conf /\ host'.timer = host.timer
    BY <2>1
  <2>3. \A state \in UpdateStatusRow : TookEffect(state) => TookEffect(state)'
    <3> SUFFICES ASSUME NEW state \in UpdateStatusRow, TookEffect(state) PROVE TookEffect(state)'
      OBVIOUS
    <3>1. state.operation[1] = "install" => state.operation[2] \in Nat
      BY ActionKinds DEF TookEffect
    <3> QED BY <2>1, <2>2, <3>1 DEF TookEffect
  <2>4. UpdateTypes' /\ Numbered' /\ Starting'
    BY <2>1, <2>2
  <2>5. Job'
    BY <2>1, <2>2, <2>3 DEF UpdateWorking, busy
  <2> QED BY <2>4, <2>5
<1>17. CASE check_expires
  <2>1. UpdateTypes'
    BY <1>17, SetStatus, ZenonT(30) DEF check_expires
  <2>2. Numbered' /\ Starting'
    BY <1>17 DEF check_expires, UpdateStatusRow, busy, UpdateWorking
  <2>3. Job'
    BY <1>17 DEF check_expires, UpdateStatusRow, busy, UpdateWorking, TookEffect
  <2> QED BY <2>1, <2>2, <2>3
<1>18. ASSUME NEW action \in Actions, receive_submit(action) PROVE UpdateInv'
  <2>1. /\ controller.pc = "idle" /\ requests' = requests + 1
        /\ controller' = [pc |-> "refreshing", request |-> requests', action |-> action]
        /\ UNCHANGED <<job_status, unit, worker, host, begun>>
    BY <1>18 DEF receive_submit
  <2>2. job_status.request \in Nat
    BY DEF UpdateStatusRow
  <2>3. UpdateTypes'
    BY <2>1
  <2>4. Numbered' /\ Starting'
    BY <2>1, <2>2
  <2>5. Job'
    BY <2>1 DEF UpdateWorking, busy, TookEffect
  <2> QED BY <2>3, <2>4, <2>5
<1>19. ASSUME NEW answer \in {"started", "refused", "timed out"}, systemd_run(answer)
       PROVE  UpdateInv'
  <2>1. UpdateTypes'
    <3>1. job_status' \in UpdateStatusRow
      BY <1>19, SetStatus, Zenon DEF systemd_run, UpdatePhases
    <3> QED BY <1>19, <3>1, Zenon DEF systemd_run, Waiting
  <2>2. Numbered' /\ Starting'
    BY <1>19, Zenon DEF systemd_run, Waiting, UpdateStatusRow, busy, UpdateWorking
  <2>3. Job'
    BY <1>19, Zenon DEF systemd_run, Waiting, UpdateStatusRow, busy, UpdateWorking, TookEffect
  <2> QED BY <2>1, <2>2, <2>3, Zenon
<1>20. CASE UNCHANGED updateVars
  <2>1. UpdateTypes'
    BY <1>20 DEF updateVars, UpdateStatusRow, UpdatePhases, UpdateWorking
  <2>2. Numbered' /\ Starting'
    BY <1>20 DEF updateVars, UpdateStatusRow, busy, UpdateWorking
  <2>3. Job'
    BY <1>20 DEF updateVars, UpdateStatusRow, busy, UpdateWorking, TookEffect
  <2> QED BY <2>1, <2>2, <2>3
<1> QED BY <1>1, <1>2, <1>3, <1>4, <1>5, <1>6, <1>7, <1>8, <1>9, <1>10, <1>11, <1>12, <1>13, <1>14, <1>15, <1>16, <1>17, <1>18, <1>19, <1>20, Zenon DEF UpdateNext

LEMMA UpdateInvImplies == UpdateInv => UpdateStatusTrue
<1> SUFFICES ASSUME UpdateInv PROVE UpdateStatusTrue
  OBVIOUS
<1>1. worker.pc \in {"working", "timer", "finishing"} =>
        job_status.phase = "running" /\ job_status.request = worker.state.request
  BY DEF UpdateInv, Job, UpdateWorking
<1>2. job_status.phase = "queued" => job_status.request \notin begun
  BY DEF UpdateInv, Numbered
<1>3. job_status.phase = "complete" =>
        CASE job_status.operation[1] = "check" -> job_status.latest \in 1 .. host.released
          [] job_status.operation[1] = "install" -> host.installed >= job_status.operation[2]
          [] job_status.operation[1] = "automatic" ->
               host.conf = job_status.operation[2] /\ host.timer = job_status.operation[2]
  <2> SUFFICES ASSUME job_status.phase = "complete"
               PROVE  CASE job_status.operation[1] = "check" -> job_status.latest \in 1 .. host.released
                        [] job_status.operation[1] = "install" -> host.installed >= job_status.operation[2]
                        [] job_status.operation[1] = "automatic" ->
                             host.conf = job_status.operation[2] /\ host.timer = job_status.operation[2]
    BY Zenon
  <2>1. TookEffect(job_status)
    BY DEF UpdateInv, Job
  <2>2. job_status.operation[1] \in {"check", "install", "automatic"}
    BY <2>1, ActionKinds DEF TookEffect
  <2>3. CASE job_status.operation[1] = "check"
    BY <2>1, <2>3 DEF TookEffect
  <2>4. CASE job_status.operation[1] = "install"
    BY <2>1, <2>4 DEF TookEffect
  <2>5. CASE job_status.operation[1] = "automatic"
    BY <2>1, <2>5 DEF TookEffect
  <2> QED BY <2>2, <2>3, <2>4, <2>5, Zenon
<1> QED BY <1>1, <1>2, <1>3, Zenon DEF UpdateStatusTrue

\* The status is true: UpdateStatusTrue holds in every state of every behaviour
\* (src/updates/host.rs), for any number of versions and requests.
THEOREM StatusIsTrue == UpdateSpec => []UpdateStatusTrue
<1>1. UpdateSpec => []UpdateInv
  BY UpdateInitInv, UpdateStepInv, PTL DEF UpdateSpec
<1> QED BY <1>1, UpdateInvImplies, PTL

-----------------------------------------------------------------------------
(* Runtime settings                                                        *)

\* The public base URL of the table.
Table == IF persisted = Nobody THEN ConfigUrl ELSE persisted

\* The states of an update that holds the mutex.
Deciding == {"counting", "ready", "published"}

SettingsTypes ==
  /\ runtime \in BaseUrls /\ persisted \in BaseUrls \cup {Nobody}
  /\ webauthn \in SettingsService
  /\ update \in [Updates -> SettingsUpdate \cup {Nobody}]
  /\ mutation \in Updates \cup {"registrar", Nobody}
  /\ registrar \in Registration \cup {Nobody}
  /\ reader \in BaseUrls \cup {Nobody}
  /\ panicked \in 0 .. MaxPanics

\* Who holds the mutex of the security settings.
MutationHeld ==
  /\ \A u \in Updates : update[u] # Nobody /\ update[u].at \in Deciding => mutation = u
  /\ registrar # Nobody => mutation = "registrar"

\* What an update has decided is still so when it commits.
Decided ==
  \A u \in Updates : update[u] # Nobody /\ update[u].at \in Deciding =>
    /\ update[u].changed = (Table # update[u].next)
    /\ update[u].at # "counting" /\ update[u].changed => keyring = {}
    /\ update[u].at = "published" =>
         /\ update[u].before # Nobody /\ update[u].before.url = Table
         /\ update[u].before.service.poisoned \/ update[u].before.service.url = Table
         /\ update[u].changed => /\ webauthn.poisoned = update[u].before.service.poisoned
                                 /\ webauthn.url = update[u].next

\* The snapshots outside and inside a publication.
SnapshotsRight ==
  \/ \E u \in Updates : /\ update[u] # Nobody /\ update[u].at = "published"
                        /\ runtime = update[u].next
                        /\ webauthn.poisoned \/ webauthn.url = update[u].next
  \/ /\ \A u \in Updates : update[u] = Nobody \/ update[u].at # "published"
     /\ runtime = Table /\ (webauthn.poisoned \/ webauthn.url = Table)

\* A registration goes through the service of the table's URL.
RegistrarRight == registrar # Nobody => registrar.service.url = Table

\* After the one panic: who repairs the service builds it from the table's URL.
RepairRight ==
  /\ webauthn.poisoned \/ reader # Nobody => panicked = 1
  /\ reader # Nobody /\ webauthn.poisoned => reader = Table

\* The security keys are of the table's URL.
KeysOfTable == keyring \subseteq {Table}

SettingsInv ==
  /\ SettingsTypes /\ MutationHeld /\ Decided /\ SnapshotsRight /\ RegistrarRight
  /\ RepairRight /\ KeysOfTable

-----------------------------------------------------------------------------
\* STEPS
USE SettingsAssumption DEF SettingsUpdate, SettingsService, SettingsBefore, Registration, Deciding

\* Steps of a change that publish nothing.
LEMMA ChangeStep ==
  ASSUME SettingsInv, MaxPanics <= 1, NEW u \in Updates,
         \/ webauthn_credential_count(u) \/ UpdateRefused(u)
         \/ \E panics \in BOOLEAN : PublicationDropped(u, panics)
  PROVE  SettingsInv'
<1>1. CASE webauthn_credential_count(u)
  <2>1. SettingsTypes'
    BY <1>1 DEF SettingsInv, SettingsTypes, others, webauthn_credential_count, Updated, UpdateAt,
      release
  <2>2. MutationHeld'
    BY <1>1 DEF SettingsInv, SettingsTypes, MutationHeld, others, webauthn_credential_count,
      Updated, UpdateAt, release
  <2>3. Decided'
    BY <1>1 DEF SettingsInv, SettingsTypes, MutationHeld, Decided, KeysOfTable, Table, others,
      webauthn_credential_count, Updated, UpdateAt, release
  <2>4. SnapshotsRight'
    BY <1>1 DEF SettingsInv, SettingsTypes, MutationHeld, Decided, SnapshotsRight, RepairRight,
      Table, others, webauthn_credential_count, Updated, UpdateAt, release
  <2>5. RegistrarRight' /\ KeysOfTable'
    BY <1>1 DEF SettingsInv, SettingsTypes, MutationHeld, Decided, RegistrarRight,
      SnapshotsRight, RepairRight, KeysOfTable, Table, others, webauthn_credential_count,
      Updated, UpdateAt, release
  <2>6. RepairRight'
    BY <1>1 DEF SettingsInv, SettingsTypes, MutationHeld, SnapshotsRight, Decided, RepairRight,
      Table, others, webauthn_credential_count, Updated, UpdateAt, release
  <2> QED BY <2>1, <2>2, <2>3, <2>4, <2>5, <2>6 DEF SettingsInv
<1>2. CASE UpdateRefused(u)
  <2>1. SettingsTypes'
    BY <1>2 DEF SettingsInv, SettingsTypes, others, UpdateRefused, Updated, UpdateAt, release
  <2>2. MutationHeld'
    BY <1>2 DEF SettingsInv, SettingsTypes, MutationHeld, others, UpdateRefused, Updated,
      UpdateAt, release
  <2>3. Decided'
    BY <1>2 DEF SettingsInv, SettingsTypes, MutationHeld, Decided, KeysOfTable, Table, others,
      UpdateRefused, Updated, UpdateAt, release
  <2>4. SnapshotsRight'
    BY <1>2 DEF SettingsInv, SettingsTypes, MutationHeld, Decided, SnapshotsRight, RepairRight,
      Table, others, UpdateRefused, Updated, UpdateAt, release
  <2>5. RegistrarRight' /\ KeysOfTable'
    BY <1>2 DEF SettingsInv, SettingsTypes, MutationHeld, Decided, RegistrarRight,
      SnapshotsRight, RepairRight, KeysOfTable, Table, others, UpdateRefused, Updated, UpdateAt,
      release
  <2>6. RepairRight'
    BY <1>2 DEF SettingsInv, SettingsTypes, MutationHeld, SnapshotsRight, Decided, RepairRight,
      Table, others, UpdateRefused, Updated, UpdateAt, release
  <2> QED BY <2>1, <2>2, <2>3, <2>4, <2>5, <2>6 DEF SettingsInv
<1>3. ASSUME NEW panics \in BOOLEAN, PublicationDropped(u, panics)
      PROVE  SettingsInv'
  <2>1. SettingsTypes'
    BY <1>3 DEF SettingsInv, SettingsTypes, MutationHeld, Decided, others, PublicationDropped, Updated,
      UpdateAt, release
  <2>2. MutationHeld'
    BY <1>3 DEF SettingsInv, SettingsTypes, MutationHeld, others, PublicationDropped, Updated,
      UpdateAt, release
  <2>3. Decided'
    BY <1>3 DEF SettingsInv, SettingsTypes, MutationHeld, Decided, KeysOfTable, Table, others,
      PublicationDropped, Updated, UpdateAt, release
  <2>4. SnapshotsRight'
    BY <1>3 DEF SettingsInv, SettingsTypes, MutationHeld, Decided, SnapshotsRight, RepairRight,
      Table, others, PublicationDropped, Updated, UpdateAt, release
  <2>5. RegistrarRight' /\ KeysOfTable'
    BY <1>3 DEF SettingsInv, SettingsTypes, MutationHeld, Decided, RegistrarRight,
      SnapshotsRight, RepairRight, KeysOfTable, Table, others, PublicationDropped, Updated,
      UpdateAt, release
  <2>6. RepairRight'
    BY <1>3 DEF SettingsInv, SettingsTypes, MutationHeld, SnapshotsRight, Decided, RepairRight,
      Table, others, PublicationDropped, Updated, UpdateAt, release
  <2> QED BY <2>1, <2>2, <2>3, <2>4, <2>5, <2>6 DEF SettingsInv
<1> QED BY <1>1, <1>2, <1>3

\* Registrations, repairs and a restart.
LEMMA OtherStep ==
  ASSUME SettingsInv,
         \/ settings_snapshot \/ webauthn_snapshot
         \/ \E step \in {"start", "finish"} : BeginRegistration(step)
         \/ commit_start \/ finish_registration \/ RegistrationFails \/ DeleteKeys \/ Restart
  PROVE  SettingsInv'
<1>1. CASE settings_snapshot
  <2>1. SettingsTypes'
    BY <1>1 DEF SettingsInv, SettingsTypes, others, settings_snapshot, RuntimeLocked, UpdateAt
  <2>2. MutationHeld'
    BY <1>1 DEF SettingsInv, SettingsTypes, MutationHeld, others, settings_snapshot,
      RuntimeLocked, UpdateAt
  <2>3. Decided'
    BY <1>1, Zenon DEF SettingsInv, SettingsTypes, MutationHeld, Decided, KeysOfTable, Table, others,
      settings_snapshot, RuntimeLocked, UpdateAt
  <2>4. SnapshotsRight'
    BY <1>1 DEF SettingsInv, SettingsTypes, MutationHeld, Decided, SnapshotsRight, RepairRight,
      Table, others, settings_snapshot, RuntimeLocked, UpdateAt
  <2>5. RegistrarRight' /\ KeysOfTable'
    BY <1>1 DEF SettingsInv, SettingsTypes, MutationHeld, Decided, RegistrarRight,
      SnapshotsRight, RepairRight, KeysOfTable, Table, others, settings_snapshot, RuntimeLocked,
      UpdateAt
  <2>6. RepairRight'
    BY <1>1 DEF SettingsInv, SettingsTypes, MutationHeld, SnapshotsRight, Decided, RepairRight,
      Table, others, settings_snapshot, RuntimeLocked, UpdateAt
  <2> QED BY <2>1, <2>2, <2>3, <2>4, <2>5, <2>6 DEF SettingsInv
<1>2. CASE webauthn_snapshot
  <2>1. SettingsTypes'
    BY <1>2 DEF SettingsInv, SettingsTypes, others, webauthn_snapshot, NewService,
      WebauthnLocked, UpdateAt
  <2>2. MutationHeld'
    BY <1>2 DEF SettingsInv, SettingsTypes, MutationHeld, others, webauthn_snapshot, NewService,
      WebauthnLocked, UpdateAt
  <2>3. Decided'
    BY <1>2, Zenon DEF SettingsInv, SettingsTypes, MutationHeld, Decided, KeysOfTable, Table, others,
      webauthn_snapshot, NewService, WebauthnLocked, UpdateAt
  <2>4. SnapshotsRight'
    BY <1>2 DEF SettingsInv, SettingsTypes, MutationHeld, Decided, SnapshotsRight, RepairRight,
      Table, others, webauthn_snapshot, NewService, WebauthnLocked, UpdateAt
  <2>5. RegistrarRight' /\ KeysOfTable'
    BY <1>2 DEF SettingsInv, SettingsTypes, MutationHeld, Decided, RegistrarRight,
      SnapshotsRight, RepairRight, KeysOfTable, Table, others, webauthn_snapshot, NewService,
      WebauthnLocked, UpdateAt
  <2>6. RepairRight'
    BY <1>2 DEF SettingsInv, SettingsTypes, MutationHeld, SnapshotsRight, Decided, RepairRight,
      Table, others, webauthn_snapshot, NewService, WebauthnLocked, UpdateAt
  <2> QED BY <2>1, <2>2, <2>3, <2>4, <2>5, <2>6 DEF SettingsInv
<1>3. ASSUME NEW step \in {"start", "finish"}, BeginRegistration(step)
      PROVE  SettingsInv'
  <2>1. SettingsTypes'
    BY <1>3 DEF SettingsInv, SettingsTypes, others, BeginRegistration,
      acquire_security_settings_mutation, WebauthnLocked, UpdateAt
  <2>2. MutationHeld'
    BY <1>3 DEF SettingsInv, SettingsTypes, MutationHeld, others, BeginRegistration,
      acquire_security_settings_mutation, WebauthnLocked, UpdateAt
  <2>3. Decided'
    BY <1>3 DEF SettingsInv, SettingsTypes, MutationHeld, Decided, KeysOfTable, Table, others,
      BeginRegistration, acquire_security_settings_mutation, WebauthnLocked, UpdateAt
  <2>4. SnapshotsRight'
    BY <1>3 DEF SettingsInv, SettingsTypes, MutationHeld, Decided, SnapshotsRight, RepairRight,
      Table, others, BeginRegistration, acquire_security_settings_mutation, WebauthnLocked,
      UpdateAt
  <2>5. RegistrarRight' /\ KeysOfTable'
    BY <1>3 DEF SettingsInv, SettingsTypes, MutationHeld, Decided, RegistrarRight,
      SnapshotsRight, RepairRight, KeysOfTable, Table, others, BeginRegistration,
      acquire_security_settings_mutation, WebauthnLocked, UpdateAt
  <2>6. RepairRight'
    BY <1>3 DEF SettingsInv, SettingsTypes, MutationHeld, SnapshotsRight, Decided, RepairRight,
      Table, others, BeginRegistration, acquire_security_settings_mutation, WebauthnLocked,
      UpdateAt
  <2> QED BY <2>1, <2>2, <2>3, <2>4, <2>5, <2>6 DEF SettingsInv
<1>4. CASE commit_start
  <2>1. SettingsTypes'
    BY <1>4 DEF SettingsInv, SettingsTypes, others, commit_start, release
  <2>2. MutationHeld'
    BY <1>4 DEF SettingsInv, SettingsTypes, MutationHeld, others, commit_start, release
  <2>3. Decided'
    BY <1>4 DEF SettingsInv, SettingsTypes, MutationHeld, Decided, KeysOfTable, Table, others,
      commit_start, release
  <2>4. SnapshotsRight'
    BY <1>4 DEF SettingsInv, SettingsTypes, MutationHeld, Decided, SnapshotsRight, RepairRight,
      Table, others, commit_start, release
  <2>5. RegistrarRight' /\ KeysOfTable'
    BY <1>4 DEF SettingsInv, SettingsTypes, MutationHeld, Decided, RegistrarRight,
      SnapshotsRight, RepairRight, KeysOfTable, Table, others, commit_start, release
  <2>6. RepairRight'
    BY <1>4 DEF SettingsInv, SettingsTypes, MutationHeld, SnapshotsRight, Decided, RepairRight,
      Table, others, commit_start, release
  <2> QED BY <2>1, <2>2, <2>3, <2>4, <2>5, <2>6 DEF SettingsInv
<1>5. CASE finish_registration
  <2>1. SettingsTypes'
    BY <1>5 DEF SettingsInv, SettingsTypes, others, finish_registration, release
  <2>2. MutationHeld'
    BY <1>5 DEF SettingsInv, SettingsTypes, MutationHeld, others, finish_registration, release
  <2>3. Decided'
    BY <1>5 DEF SettingsInv, SettingsTypes, MutationHeld, Decided, KeysOfTable, Table, others,
      finish_registration, release
  <2>4. SnapshotsRight'
    BY <1>5 DEF SettingsInv, SettingsTypes, MutationHeld, Decided, SnapshotsRight, RepairRight,
      Table, others, finish_registration, release
  <2>5. RegistrarRight' /\ KeysOfTable'
    BY <1>5 DEF SettingsInv, SettingsTypes, MutationHeld, Decided, RegistrarRight,
      SnapshotsRight, RepairRight, KeysOfTable, Table, others, finish_registration, release
  <2>6. RepairRight'
    BY <1>5 DEF SettingsInv, SettingsTypes, MutationHeld, SnapshotsRight, Decided, RepairRight,
      Table, others, finish_registration, release
  <2> QED BY <2>1, <2>2, <2>3, <2>4, <2>5, <2>6 DEF SettingsInv
<1>6. CASE RegistrationFails
  <2>1. SettingsTypes'
    BY <1>6 DEF SettingsInv, SettingsTypes, others, RegistrationFails, release
  <2>2. MutationHeld'
    BY <1>6 DEF SettingsInv, SettingsTypes, MutationHeld, others, RegistrationFails, release
  <2>3. Decided'
    BY <1>6 DEF SettingsInv, SettingsTypes, MutationHeld, Decided, KeysOfTable, Table, others,
      RegistrationFails, release
  <2>4. SnapshotsRight'
    BY <1>6 DEF SettingsInv, SettingsTypes, MutationHeld, Decided, SnapshotsRight, RepairRight,
      Table, others, RegistrationFails, release
  <2>5. RegistrarRight' /\ KeysOfTable'
    BY <1>6 DEF SettingsInv, SettingsTypes, MutationHeld, Decided, RegistrarRight,
      SnapshotsRight, RepairRight, KeysOfTable, Table, others, RegistrationFails, release
  <2>6. RepairRight'
    BY <1>6 DEF SettingsInv, SettingsTypes, MutationHeld, SnapshotsRight, Decided, RepairRight,
      Table, others, RegistrationFails, release
  <2> QED BY <2>1, <2>2, <2>3, <2>4, <2>5, <2>6 DEF SettingsInv
<1>7. CASE DeleteKeys
  <2>1. SettingsTypes'
    BY <1>7 DEF SettingsInv, SettingsTypes, others, DeleteKeys
  <2>2. MutationHeld'
    BY <1>7 DEF SettingsInv, SettingsTypes, MutationHeld, others, DeleteKeys
  <2>3. Decided'
    BY <1>7 DEF SettingsInv, SettingsTypes, MutationHeld, Decided, KeysOfTable, Table, others,
      DeleteKeys
  <2>4. SnapshotsRight'
    BY <1>7 DEF SettingsInv, SettingsTypes, MutationHeld, Decided, SnapshotsRight, RepairRight,
      Table, others, DeleteKeys
  <2>5. RegistrarRight' /\ KeysOfTable'
    BY <1>7 DEF SettingsInv, SettingsTypes, MutationHeld, Decided, RegistrarRight,
      SnapshotsRight, RepairRight, KeysOfTable, Table, others, DeleteKeys
  <2>6. RepairRight'
    BY <1>7 DEF SettingsInv, SettingsTypes, MutationHeld, SnapshotsRight, Decided, RepairRight,
      Table, others, DeleteKeys
  <2> QED BY <2>1, <2>2, <2>3, <2>4, <2>5, <2>6 DEF SettingsInv
<1>8. CASE Restart
  <2>1. SettingsTypes'
    BY <1>8 DEF SettingsInv, SettingsTypes, others, Restart, NewService
  <2>2. MutationHeld'
    BY <1>8 DEF SettingsInv, SettingsTypes, MutationHeld, others, Restart, NewService
  <2>3. Decided'
    BY <1>8 DEF SettingsInv, SettingsTypes, MutationHeld, Decided, KeysOfTable, Table, others,
      Restart, NewService
  <2>4. SnapshotsRight'
    BY <1>8 DEF SettingsInv, SettingsTypes, MutationHeld, Decided, SnapshotsRight, RepairRight,
      Table, others, Restart, NewService
  <2>5. RegistrarRight' /\ KeysOfTable'
    BY <1>8 DEF SettingsInv, SettingsTypes, MutationHeld, Decided, RegistrarRight,
      SnapshotsRight, RepairRight, KeysOfTable, Table, others, Restart, NewService
  <2>6. RepairRight'
    BY <1>8 DEF SettingsInv, SettingsTypes, MutationHeld, SnapshotsRight, Decided, RepairRight,
      Table, others, Restart, NewService
  <2> QED BY <2>1, <2>2, <2>3, <2>4, <2>5, <2>6 DEF SettingsInv
<1> QED BY <1>1, <1>2, <1>3, <1>4, <1>5, <1>6, <1>7, <1>8

\* A change begins: it holds nothing yet.
LEMMA UpdateStep ==
  ASSUME SettingsInv, NEW u \in Updates, NEW url \in BaseUrls, update_settings(u, url)
  PROVE  SettingsInv'
<1> USE DEF SettingsInv, SettingsTypes, KeysOfTable, update_settings, Updated, others
<1> DEFINE new == [at |-> "waiting", next |-> url, changed |-> FALSE, before |-> Nobody]
<1>a. new \in SettingsUpdate /\ new.at = "waiting"
  OBVIOUS
<1>b. update' = [update EXCEPT ![u] = new]
  OBVIOUS
<1> HIDE DEF new
<1>1. /\ update'[u].at = "waiting" /\ update'[u] # Nobody
      /\ \A v \in Updates : v # u => update'[v] = update[v]
  BY <1>a, <1>b, ZenonT(30)
<1>2. SettingsTypes'
  OBVIOUS
<1>3. MutationHeld' /\ RegistrarRight' /\ RepairRight'
  BY <1>1 DEF MutationHeld, RegistrarRight, RepairRight, Table
<1>5. Decided'
  <2>1. \A v \in Updates : update'[v] # Nobody /\ update'[v].at \in Deciding =>
          update'[v] = update[v] /\ update[v].at \in Deciding
    BY <1>1
  <2>2. webauthn' = webauthn /\ persisted' = persisted /\ keyring' = keyring
    OBVIOUS
  <2>3. Decided /\ Table' = Table
    BY <2>2 DEF Table
  <2> HIDE DEF SettingsInv, SettingsTypes, KeysOfTable, update_settings, Updated, others
  <2> QED BY ONLY <2>1, <2>2, <2>3 DEF Decided
<1>4. SnapshotsRight'
  BY <1>1 DEF SnapshotsRight, Table
<1> QED BY <1>2, <1>3, <1>4, <1>5 DEF Table

\* It takes the mutex, and compares with the snapshot, which is the table's.
LEMMA CommitStep ==
  ASSUME SettingsInv, NEW u \in Updates, commit_runtime_settings(u)
  PROVE  SettingsInv'
<1> USE DEF SettingsInv, SettingsTypes, KeysOfTable, others, UpdateAt
<1> DEFINE new == [at |-> IF runtime # update[u].next THEN "counting" ELSE "ready",
                   next |-> update[u].next, changed |-> runtime # update[u].next,
                   before |-> Nobody]
<1>1. update[u] \in SettingsUpdate
  BY DEF commit_runtime_settings
<1>2. new \in SettingsUpdate
  BY <1>1
<1>3. /\ update' = [update EXCEPT ![u] = new]
      /\ mutation = Nobody /\ mutation' = u
      /\ UNCHANGED <<panicked, runtime, webauthn, persisted, keyring, ceremony, registrar, reader>>
  BY DEF commit_runtime_settings, Updated, acquire_security_settings_mutation
<1>4. /\ update[u].at = "waiting"
      /\ \A v \in Updates : update[v] = Nobody \/ update[v].at # "published"
  BY DEF commit_runtime_settings, RuntimeLocked
<1>5. runtime = Table /\ (webauthn.poisoned \/ webauthn.url = Table) /\ Table' = Table
  BY <1>3, <1>4 DEF SnapshotsRight, Table
<1>6. /\ new # Nobody /\ new.at \in {"counting", "ready"} /\ new.next = update[u].next
      /\ new.changed = (runtime # new.next) /\ (new.at = "ready" => ~new.changed)
  BY <1>2, Zenon
<1> HIDE DEF new
<1>7. /\ update'[u] = new
      /\ \A v \in Updates : v # u => update'[v] = update[v]
  BY <1>3
<1>8. SettingsTypes'
  BY <1>2, <1>3
<1>9. MutationHeld' /\ RegistrarRight' /\ RepairRight'
  BY <1>3, <1>5, <1>7 DEF MutationHeld, RegistrarRight, RepairRight
<1>10. Decided'
  BY <1>3, <1>5, <1>6, <1>7, SMTT(30) DEF Decided, MutationHeld
<1>11. SnapshotsRight'
  BY <1>3, <1>4, <1>5, <1>6, <1>7 DEF SnapshotsRight
<1> QED BY <1>3, <1>5, <1>8, <1>9, <1>10, <1>11

\* The snapshots are switched, and what they were is kept.
LEMMA PublishStep ==
  ASSUME SettingsInv, NEW u \in Updates, publish(u)
  PROVE  SettingsInv'
<1> USE DEF SettingsInv, SettingsTypes, KeysOfTable, others, UpdateAt
<1> DEFINE new == [at |-> "published", next |-> update[u].next, changed |-> update[u].changed,
                   before |-> [url |-> runtime, service |-> webauthn]]
<1>1. update[u] \in SettingsUpdate /\ update[u].at = "ready"
  BY DEF publish
<1>2. new \in SettingsUpdate /\ new # Nobody /\ new.before # Nobody
  BY <1>1
<1>3. /\ update' = [update EXCEPT ![u] = new] /\ runtime' = update[u].next
      /\ UNCHANGED <<panicked, persisted, mutation, keyring, ceremony, registrar, reader>>
  BY DEF publish, Updated
<1>4. /\ update[u].changed => webauthn' = [id |-> webauthn.id + 1, url |-> update[u].next,
                                            poisoned |-> webauthn.poisoned]
      /\ ~update[u].changed => webauthn' = webauthn
  BY DEF publish, NewService
<1>5. /\ runtime = Table /\ (webauthn.poisoned \/ webauthn.url = Table) /\ Table' = Table
      /\ \A v \in Updates : update[v] = Nobody \/ update[v].at # "published"
  BY <1>3 DEF SnapshotsRight, Table, publish, RuntimeLocked
<1>6. /\ mutation = u /\ update[u].changed = (Table # update[u].next)
      /\ update[u].changed => keyring = {}
  BY <1>1 DEF MutationHeld, Decided
<1>7. /\ webauthn' \in SettingsService /\ webauthn'.poisoned = webauthn.poisoned
      /\ webauthn'.poisoned \/ webauthn'.url = update[u].next
      /\ update[u].changed => webauthn'.url = update[u].next
  BY <1>1, <1>4, <1>5, <1>6
<1>8. /\ update'[u] = new /\ \A v \in Updates : v # u => update'[v] = update[v]
      /\ new.at = "published" /\ new.next = update[u].next /\ new.changed = update[u].changed
      /\ new.before.url = runtime /\ new.before.service = webauthn
  BY <1>3
<1> HIDE DEF new
<1>9. SettingsTypes'
  BY <1>1, <1>2, <1>3, <1>7
<1>10. MutationHeld' /\ RegistrarRight' /\ RepairRight'
  BY <1>3, <1>5, <1>6, <1>7, <1>8 DEF MutationHeld, RegistrarRight, RepairRight
<1>11. Decided'
  BY <1>2, <1>3, <1>5, <1>6, <1>7, <1>8, SMTT(30) DEF Decided, MutationHeld
<1>12. SnapshotsRight'
  BY <1>2, <1>3, <1>7, <1>8 DEF SnapshotsRight
<1> QED BY <1>3, <1>5, <1>9, <1>10, <1>11, <1>12

\* The table follows: no key is registered if the URL is another one.
LEMMA AcceptStep ==
  ASSUME SettingsInv, NEW u \in Updates, accept_commit(u)
  PROVE  SettingsInv'
<1> USE DEF SettingsInv, SettingsTypes, KeysOfTable, others, UpdateAt
<1>1. update[u] # Nobody /\ update[u].at = "published" /\ update[u].next \in BaseUrls /\ mutation = u
  BY DEF accept_commit, MutationHeld
<1>2. /\ update' = [update EXCEPT ![u] = Nobody] /\ mutation' = Nobody
      /\ persisted' = update[u].next /\ runtime' = runtime
      /\ UNCHANGED <<panicked, keyring, ceremony, registrar, reader>>
  BY DEF accept_commit, Updated, release, replace_settings_rows
<1>3. /\ webauthn' \in SettingsService /\ webauthn'.url = webauthn.url
      /\ webauthn'.poisoned = (webauthn.poisoned /\ ~update[u].changed)
  BY <1>1, Zenon DEF accept_commit
<1>4. Table' = update[u].next
  BY <1>1, <1>2 DEF Table
<1>5. \A v \in Updates : update[v] # Nobody /\ update[v].at \in Deciding => v = u
  BY <1>1 DEF MutationHeld
<1>6. runtime = update[u].next /\ (webauthn.poisoned \/ webauthn.url = update[u].next)
  BY <1>1, <1>5 DEF SnapshotsRight
<1>7. /\ update[u].changed = (Table # update[u].next) /\ (update[u].changed => keyring = {})
      /\ update[u].changed => webauthn.url = update[u].next
  BY <1>1 DEF Decided
<1>8. SettingsTypes'
  BY <1>1, <1>2, <1>3
<1>9. registrar = Nobody
  BY <1>1 DEF MutationHeld
<1>10. MutationHeld' /\ Decided' /\ RegistrarRight'
  BY <1>2, <1>5, <1>9, SMTT(30) DEF MutationHeld, Decided, RegistrarRight
<1>11. RepairRight'
  BY <1>2, <1>3, <1>4, <1>7 DEF RepairRight
<1>12. webauthn'.poisoned \/ webauthn'.url = update[u].next
  BY <1>3, <1>6, <1>7
<1>13. SnapshotsRight'
  BY <1>2, <1>4, <1>5, <1>6, <1>12 DEF SnapshotsRight
<1>14. KeysOfTable'
  BY <1>2, <1>4, <1>7, Zenon
<1> QED BY <1>8, <1>10, <1>11, <1>13, <1>14, Zenon

LEMMA SettingsInitInv ==
  ASSUME RuntimeSettingsInit
  PROVE  SettingsInv
  BY DEF RuntimeSettingsInit, SettingsInv, SettingsTypes, KeysOfTable, MutationHeld, Decided,
    SnapshotsRight, RegistrarRight, RepairRight, Table

LEMMA SettingsStepInv ==
  ASSUME MaxPanics <= 1, SettingsInv, [RuntimeSettingsNext]_settingsVars
  PROVE  SettingsInv'
<1>1. CASE UNCHANGED settingsVars
  <2>1. SettingsTypes' /\ MutationHeld'
    BY <1>1 DEF SettingsInv, SettingsTypes, MutationHeld, settingsVars
  <2>2. Decided' /\ SnapshotsRight'
    BY <1>1 DEF SettingsInv, Decided, SnapshotsRight, Table, settingsVars
  <2>3. RegistrarRight' /\ RepairRight' /\ KeysOfTable'
    BY <1>1 DEF SettingsInv, RegistrarRight, RepairRight, KeysOfTable, Table, settingsVars
  <2> QED BY <2>1, <2>2, <2>3, Zenon DEF SettingsInv
<1>2. ASSUME NEW u \in Updates,
             \/ \E url \in BaseUrls : update_settings(u, url)
             \/ commit_runtime_settings(u) \/ webauthn_credential_count(u) \/ UpdateRefused(u)
             \/ publish(u) \/ accept_commit(u)
             \/ \E panics \in BOOLEAN : PublicationDropped(u, panics)
      PROVE  SettingsInv'
  BY <1>2, ChangeStep, UpdateStep, CommitStep, PublishStep, AcceptStep, Zenon
<1>3. CASE \/ settings_snapshot \/ webauthn_snapshot
           \/ \E step \in {"start", "finish"} : BeginRegistration(step)
           \/ commit_start \/ finish_registration \/ RegistrationFails \/ DeleteKeys \/ Restart
  BY <1>3, OtherStep, Zenon
<1> QED BY <1>1, <1>2, <1>3, Zenon DEF RuntimeSettingsNext

\* SettingsAgree for any number of requests, URLs, services and failed commits,
\* and one panic in a publication: the table, the published snapshots and the
\* registered keys agree (commit_runtime_settings, RuntimeSettingsPublication).
\* The hypothesis is needed: webauthn_snapshot reads the settings before it locks
\* the service, and if meanwhile a change is committed and a further one panics, it
\* repairs the service with the URL from before.
THEOREM SettingsStayAgreed ==
  ASSUME MaxPanics <= 1
  PROVE  RuntimeSettingsSpec => []SettingsAgree
<1>1. RuntimeSettingsInit => SettingsInv
  BY SettingsInitInv
<1>2. SettingsInv /\ [RuntimeSettingsNext]_settingsVars => SettingsInv'
  BY SettingsStepInv
<1>3. SettingsInv => SettingsAgree
  BY DEF SettingsInv, SnapshotsRight, KeysOfTable, SettingsAgree, KeysMatchOrigin, SnapshotsArePersisted,
    RuntimeLocked, UpdateAt, Table
<1> QED BY <1>1, <1>2, <1>3, PTL DEF RuntimeSettingsSpec
=============================================================================
