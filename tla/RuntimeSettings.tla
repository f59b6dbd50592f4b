--------------------------- MODULE RuntimeSettings ---------------------------
(***************************************************************************)
(* Changing the settings of the running server (commit_runtime_settings in *)
(* src/http_auth/runtime.rs, src/state/runtime.rs,                         *)
(* src/db/runtime_settings.rs) while security keys are registered          *)
(* (src/web/account.rs, src/webauthn.rs).  The snapshot in memory and the  *)
(* WebAuthn service are switched inside the transaction, and switched back *)
(* when it fails.  Of the settings only the public base URL is kept: keys  *)
(* are bound to it, and a service is built from it.                        *)
(***************************************************************************)
EXTENDS Naturals

CONSTANTS
  Updates,      \* requests that change the settings
  BaseUrls,
  ConfigUrl,    \* public_base_url of the configuration file
  MaxServices,  \* bound on the services a behaviour builds
  MaxPanics,    \* bound on its panics
  Nobody

SettingsService == [id : Nat, url : BaseUrls, poisoned : BOOLEAN]
SettingsBefore == [url : BaseUrls, service : SettingsService]
SettingsUpdate == [at : {"waiting", "counting", "ready", "published"}, next : BaseUrls,
                   changed : BOOLEAN, before : SettingsBefore \cup {Nobody}]
Registration == [step : {"start", "finish"}, service : SettingsService]

ASSUME SettingsAssumption ==
  /\ ConfigUrl \in BaseUrls /\ {MaxServices, MaxPanics} \subseteq Nat
  /\ Nobody \notin BaseUrls \cup Updates \cup {"registrar"}
  /\ Nobody \notin 0 .. MaxServices
  /\ Nobody \notin SettingsUpdate /\ Nobody \notin SettingsBefore /\ Nobody \notin Registration
  /\ "registrar" \notin Updates

VARIABLES
  runtime,    \* the URL of the snapshot
  webauthn,   \* the service: its number, its URL and whether its lock is poisoned
  panicked,   \* the panics so far
  persisted,  \* the URL in the table, or Nobody
  mutation,   \* who holds security_settings_mutation
  update,     \* update -> its state
  keyring,    \* URLs of the registered keys
  ceremony,   \* the service a registration was started with, or Nobody
  registrar,  \* the request that starts or finishes a registration
  reader      \* a request that repairs the poisoned service

settingsVars ==
  <<runtime, webauthn, panicked, persisted, mutation, update, keyring, ceremony, registrar, reader>>
others == <<keyring, ceremony, registrar, reader>>

RuntimeSettingsInit ==
  /\ runtime = ConfigUrl /\ persisted = Nobody
  /\ webauthn = [id |-> 0, url |-> ConfigUrl, poisoned |-> FALSE]
  /\ mutation = Nobody /\ panicked = 0
  /\ update = [u \in Updates |-> Nobody]
  /\ keyring = {} /\ ceremony = Nobody
  /\ registrar = Nobody /\ reader = Nobody

UpdateAt(u, at) == update[u] # Nobody /\ update[u].at = at
Updated(u, next) == update' = [update EXCEPT ![u] = next]
\* The write locks of an update between its publication and its commit.
RuntimeLocked == \E u \in Updates : UpdateAt(u, "published")
WebauthnLocked == \E u \in Updates : UpdateAt(u, "published") /\ update[u].changed
NewService(url) == [id |-> webauthn.id + 1, url |-> url, poisoned |-> FALSE]

-----------------------------------------------------------------------------
\* Mutant: security settings are changed side by side.
SideBySide(p) == mutation' = Nobody

acquire_security_settings_mutation(p) == mutation = Nobody /\ mutation' = p

release == mutation' = Nobody

\* update_settings: the next settings are built on the snapshot of the moment.
update_settings(u, url) ==
  /\ update[u] = Nobody /\ ~RuntimeLocked
  /\ Updated(u, [at |-> "waiting", next |-> url, changed |-> FALSE, before |-> Nobody])
  /\ UNCHANGED <<panicked, runtime, webauthn, persisted, mutation, others>>

\* A new URL needs a service of its own, and no keys.
commit_runtime_settings(u) ==
  /\ UpdateAt(u, "waiting") /\ ~RuntimeLocked
  /\ acquire_security_settings_mutation(u)
  /\ LET changed == runtime # update[u].next IN
       Updated(u, [at |-> IF changed THEN "counting" ELSE "ready", next |-> update[u].next,
                   changed |-> changed, before |-> Nobody])
  /\ UNCHANGED <<panicked, runtime, webauthn, persisted, others>>

webauthn_credential_count(u) ==
  /\ UpdateAt(u, "counting")
  /\ IF keyring = {}
       THEN Updated(u, [update[u] EXCEPT !.at = "ready"]) /\ UNCHANGED mutation
       ELSE Updated(u, Nobody) /\ release
  /\ UNCHANGED <<panicked, runtime, webauthn, persisted, others>>

\* The session is gone, the database refuses, or the request is dropped.
UpdateRefused(u) ==
  /\ UpdateAt(u, "counting") \/ UpdateAt(u, "ready")
  /\ Updated(u, Nobody) /\ release
  /\ UNCHANGED <<panicked, runtime, webauthn, persisted, others>>

\* RuntimeSettingsPublication::publish, inside the transaction.
publish(u) ==
  /\ UpdateAt(u, "ready") /\ ~RuntimeLocked
  /\ update[u].changed => webauthn.id < MaxServices
  /\ Updated(u, [at |-> "published", next |-> update[u].next, changed |-> update[u].changed,
                 before |-> [url |-> runtime, service |-> webauthn]])
  /\ runtime' = update[u].next
  /\ webauthn' = IF update[u].changed
                   THEN [NewService(update[u].next) EXCEPT !.poisoned = webauthn.poisoned]
                   ELSE webauthn
  /\ UNCHANGED <<panicked, persisted, mutation, others>>

\* replace_runtime_settings_for_mfa_session: every row of the table is replaced.
replace_settings_rows(u) == persisted' = update[u].next

\* accept_commit, clear_poison, and the locks.
accept_commit(u) ==
  /\ UpdateAt(u, "published")
  /\ replace_settings_rows(u)
  /\ webauthn' = [webauthn EXCEPT !.poisoned = @ /\ ~update[u].changed]
  /\ Updated(u, Nobody) /\ release
  /\ UNCHANGED <<panicked, runtime, others>>

\* Drop for RuntimeSettingsPublication: an audit event that cannot be written, a
\* COMMIT that fails, or a panic, which also poisons the locks it unwinds through.
PublicationDropped(u, panics) ==
  /\ UpdateAt(u, "published")
  /\ panics => panicked < MaxPanics
  /\ panicked' = IF panics THEN panicked + 1 ELSE panicked
  /\ runtime' = update[u].before.url
  /\ webauthn' = IF update[u].changed
                   THEN [update[u].before.service EXCEPT !.poisoned = @ \/ panics]
                   ELSE webauthn
  /\ Updated(u, Nobody) /\ release
  /\ UNCHANGED <<persisted, others>>

-----------------------------------------------------------------------------
(* webauthn_snapshot of a poisoned service                                 *)

settings_snapshot ==
  /\ reader = Nobody /\ webauthn.poisoned /\ ~RuntimeLocked
  /\ reader' = runtime
  /\ UNCHANGED <<panicked, runtime, webauthn, persisted, mutation, update, keyring, ceremony, registrar>>

\* Somebody may have cleared the poison in between.
webauthn_snapshot ==
  /\ reader # Nobody /\ ~WebauthnLocked
  /\ webauthn.poisoned => webauthn.id < MaxServices
  /\ webauthn' = IF webauthn.poisoned THEN NewService(reader) ELSE webauthn
  /\ reader' = Nobody
  /\ UNCHANGED <<panicked, runtime, persisted, mutation, update, keyring, ceremony, registrar>>

-----------------------------------------------------------------------------
(* Registering a security key                                              *)

\* start_security_key_registration, finish_security_key_registration: the service
\* is taken under the mutex of the settings.
BeginRegistration(step) ==
  /\ registrar = Nobody /\ ~webauthn.poisoned /\ ~WebauthnLocked
  /\ acquire_security_settings_mutation("registrar")
  /\ registrar' = [step |-> step, service |-> webauthn]
  /\ UNCHANGED <<panicked, runtime, webauthn, persisted, update, keyring, ceremony, reader>>

\* commit_start; a ceremony lives in its service.
commit_start ==
  /\ registrar # Nobody /\ registrar.step = "start"
  /\ ceremony' = registrar.service.id
  /\ registrar' = Nobody /\ release
  /\ UNCHANGED <<panicked, runtime, webauthn, persisted, update, keyring, reader>>

\* RegistrationMutations::finish and the row of the key.
finish_registration ==
  /\ registrar # Nobody /\ registrar.step = "finish"
  /\ IF ceremony = registrar.service.id
       THEN keyring' = keyring \cup {registrar.service.url} /\ ceremony' = Nobody
       ELSE UNCHANGED <<keyring, ceremony>>
  /\ registrar' = Nobody /\ release
  /\ UNCHANGED <<panicked, runtime, webauthn, persisted, update, reader>>

RegistrationFails ==
  /\ registrar # Nobody
  /\ registrar' = Nobody /\ release
  /\ UNCHANGED <<panicked, runtime, webauthn, persisted, update, keyring, ceremony, reader>>

DeleteKeys ==
  /\ keyring # {} /\ mutation = Nobody
  /\ keyring' = {}
  /\ UNCHANGED <<panicked, runtime, webauthn, persisted, mutation, update, ceremony, registrar, reader>>

-----------------------------------------------------------------------------
\* The process ends and starts again from the table (runtime_settings_from_persisted).
Restart ==
  /\ webauthn.id < MaxServices
  /\ runtime' = IF persisted = Nobody THEN ConfigUrl ELSE persisted
  /\ webauthn' = NewService(runtime')
  /\ mutation' = Nobody /\ update' = [u \in Updates |-> Nobody]
  /\ ceremony' = Nobody /\ registrar' = Nobody /\ reader' = Nobody
  /\ UNCHANGED <<panicked, persisted, keyring>>

RuntimeSettingsNext ==
  \/ \E u \in Updates :
       \/ \E url \in BaseUrls : update_settings(u, url)
       \/ commit_runtime_settings(u) \/ webauthn_credential_count(u) \/ UpdateRefused(u)
       \/ publish(u) \/ accept_commit(u)
       \/ \E panics \in BOOLEAN : PublicationDropped(u, panics)
  \/ settings_snapshot \/ webauthn_snapshot
  \/ \E step \in {"start", "finish"} : BeginRegistration(step)
  \/ commit_start \/ finish_registration \/ RegistrationFails \/ DeleteKeys
  \/ Restart

RuntimeSettingsSpec == RuntimeSettingsInit /\ [][RuntimeSettingsNext]_settingsVars

-----------------------------------------------------------------------------
\* A registered key belongs to the public base URL the table holds, so that it can
\* still sign its administrator in: neither a change that counts the keys while one
\* is being registered, nor a ceremony from before a change, leaves one behind
\* (commit_runtime_settings, RegistrationMutations::finish).
KeysMatchOrigin ==
  keyring \subseteq {IF persisted = Nobody THEN ConfigUrl ELSE persisted}

\* Unless a change holds the locks, the snapshot is what the table holds and the
\* service is built from it, after failures, a panic and its repair too
\* (RuntimeSettingsPublication, webauthn_snapshot).
SnapshotsArePersisted ==
  ~RuntimeLocked =>
    /\ runtime = IF persisted = Nobody THEN ConfigUrl ELSE persisted
    /\ webauthn.poisoned \/ webauthn.url = runtime

\* The table, the published snapshots and the registered keys agree on the
\* public base URL (commit_runtime_settings, RuntimeSettingsPublication).
SettingsAgree == KeysMatchOrigin /\ SnapshotsArePersisted
=============================================================================
