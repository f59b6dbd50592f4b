------------------------------ MODULE Accounts ------------------------------
(***************************************************************************)
(* Administrator accounts: password and second-factor login, session      *)
(* rotation, the account page (security keys, TOTP switch, password,       *)
(* TOTP enrolment), and the management of other administrators.            *)
(*                                                                         *)
(* Every handler reads what it needs, leaves the database to verify a      *)
(* password, a TOTP code or a security-key response, and comes back with   *)
(* one transaction.  A handler whose transaction uses what it read earlier *)
(* is two actions here, with the values it carries in logins[r]; one       *)
(* whose transaction reads everything again is a single action.            *)
(*                                                                         *)
(* Tokens, password hashes and enrolment tokens are random in the code: a  *)
(* fresh token is one that no row, request or ceremony mentions, and the   *)
(* other fresh values are numbered by `accountChanges`, which also bounds  *)
(* the behaviours (MaxChanges).                                            *)
(***************************************************************************)
EXTENDS Naturals, FiniteSets

CONSTANTS
  Admins,            \* administrator rows
  LoginTokens,       \* session tokens
  Keys,              \* security keys (webauthn credentials)
  LoginRequests,     \* concurrent handlers that carry values between reads
  TotpSteps,         \* TOTP time steps whose code the clock accepts
  MaxChanges,        \* bound on the credential changes of a behaviour
  Absent             \* no row, no request, no verification

AdminRow == [active : BOOLEAN, password : Nat, generation : Nat, totp_enabled : BOOLEAN,
             last_step : Nat]

ASSUME AccountsAssumption ==
  /\ TotpSteps \subseteq Nat \ {0}
  /\ MaxChanges \in Nat
  /\ IsFiniteSet(Keys)
  /\ Absent \notin AdminRow \cup Admins \cup LoginTokens

VARIABLES
  admins,       \* the admins table with its admin_totp_replay row
  keys,         \* admin_webauthn_credentials: the owner of each key
  sessions,     \* sessions, by token, with the token's webauthn ceremony
  enrollments,  \* admin_mfa_enrollments: the enrolment token, per admin
  logins,       \* handlers between their reads and their transaction
  accepted,     \* ghost: the steps accepted with the current secret, per admin
  replayed,     \* ghost: a code was accepted again, or for a replaced secret
  accountChanges \* number of credential changes so far

accountVars == <<admins, keys, sessions, enrollments,
                 logins, accepted, replayed, accountChanges>>

-----------------------------------------------------------------------------
NewAdmin(password) ==
  [active |-> TRUE, password |-> password, generation |-> 0,
   totp_enabled |-> TRUE, last_step |-> 0]

\* A database some earlier run of the service left: administrators with TOTP
\* and any security keys, nobody signed in.
AccountsInit ==
  /\ \E present \in SUBSET Admins \ {{}} :
       /\ admins = [a \in Admins |-> IF a \in present THEN NewAdmin(0) ELSE Absent]
       /\ keys \in [Keys -> {Absent} \cup present]
  /\ sessions = [t \in LoginTokens |-> Absent]
  /\ enrollments = [a \in Admins |-> Absent]
  /\ logins = [r \in LoginRequests |-> Absent]
  /\ accepted = [a \in Admins |-> {}]
  /\ replayed = FALSE
  /\ accountChanges = 0

KeysOf(a) == {k \in Keys : keys[k] = a}
IsActive(a) == admins[a] # Absent /\ admins[a].active

Owner(t) == sessions[t].admin

\* session_at: an unexpired row of an active administrator.
SignedIn(t) == sessions[t] # Absent /\ IsActive(sessions[t].admin)
live_mfa_session(t) == SignedIn(t) /\ sessions[t].verified # Absent
AwaitsFactor(t) == SignedIn(t) /\ sessions[t].verified = Absent

FreshToken(t) ==
  /\ sessions[t] = Absent
  /\ \A r \in LoginRequests : logins[r] # Absent => logins[r].token # t

\* The transaction of one login or account handler, which ends it.
Finish(r) == logins' = [logins EXCEPT ![r] = Absent]
Carry(r, values) ==
  /\ logins[r] = Absent
  /\ logins' = [logins EXCEPT ![r] = values]
  /\ UNCHANGED <<admins, keys, sessions, enrollments, accepted, replayed, accountChanges>>

Changing == accountChanges < MaxChanges /\ accountChanges' = accountChanges + 1
Fresh == accountChanges + 1

\* revoke_admin_auth_state: what is left of the sessions and enrolments.
SessionsWithout(a) ==
  [t \in LoginTokens |-> IF sessions[t] # Absent /\ sessions[t].admin = a
                      THEN Absent ELSE sessions[t]]
revoke_admin_auth_state(a) ==
  /\ sessions' = SessionsWithout(a)
  /\ enrollments' = [enrollments EXCEPT ![a] = Absent]

\* A fresh step is later than the last one accepted; consuming it records it.
admin_totp_step_is_fresh(a, step) == IsActive(a) /\ admins[a].last_step < step
WithStep(a, step) == [admins EXCEPT ![a].last_step = step]
Accept(a, generation, step) ==
  /\ accepted' = [accepted EXCEPT ![a] = @ \cup {step}]
  /\ replayed' = (replayed \/ generation # admins[a].generation \/ step \in accepted[a])

-----------------------------------------------------------------------------
(* Sign-in                                                                 *)

\* The password is verified against the hash read here, outside the
\* transaction that creates the session.
login_with_password(r, a) ==
  /\ IsActive(a)
  /\ Carry(r, [op |-> "login", token |-> Absent, admin |-> a, password |-> admins[a].password])

\* The insert is conditional on the hash that was verified.
create_session_for_verified_password_internal(r, new) ==
  LET q == logins[r] IN
  /\ q # Absent /\ q.op = "login" /\ FreshToken(new)
  /\ sessions' = IF IsActive(q.admin) /\ admins[q.admin].password = q.password
                   THEN [sessions EXCEPT ![new] =
                           [admin |-> q.admin, password |-> q.password,
                            verified |-> Absent, ceremony |-> Absent]]
                   ELSE sessions
  /\ Finish(r)
  /\ UNCHANGED <<admins, keys, enrollments, accepted, replayed, accountChanges>>

\* session_at drops a row past its lifetime or its idle limit; every other
\* statement ignores such a row, so it is gone once its time has come.
SessionExpires(t) ==
  /\ sessions[t] # Absent
  /\ sessions' = [sessions EXCEPT ![t] = Absent]
  /\ UNCHANGED <<admins, keys, enrollments, logins,
                 accepted, replayed, accountChanges>>

\* mfa and login_with_totp: the code is matched against the secret read here.
login_with_totp(r, t) ==
  /\ AwaitsFactor(t) /\ admins[sessions[t].admin].totp_enabled
  /\ Carry(r, [op |-> "totp", token |-> t, admin |-> sessions[t].admin,
               generation |-> admins[sessions[t].admin].generation])

\* The verified session moves to a new token.
Rotated(t, new, verified) ==
  [sessions EXCEPT ![t] = Absent, ![new] =
     [admin |-> Owner(t), password |-> sessions[t].password, verified |-> verified,
      ceremony |-> Absent]]

verify_mfa_with_totp_step_internal(r, new, step) ==
  LET q == logins[r] IN
  /\ q # Absent /\ q.op = "totp" /\ FreshToken(new)
  /\ IF /\ AwaitsFactor(q.token) /\ sessions[q.token].admin = q.admin
        /\ admins[q.admin].totp_enabled
        /\ admin_totp_step_is_fresh(q.admin, step)
       THEN /\ admins' = WithStep(q.admin, step)
            /\ sessions' = Rotated(q.token, new, [totp |-> q.generation])
            /\ Accept(q.admin, q.generation, step)
       ELSE UNCHANGED <<admins, sessions, accepted, replayed>>
  /\ Finish(r)
  /\ UNCHANGED <<keys, enrollments, accountChanges>>

\* A webauthn ceremony is kept under the session's token.  One whose session
\* is gone can never be finished and is left out with it; CEREMONY_TTL ends
\* the others at any time.
CeremonyExpires(t) ==
  /\ sessions[t] # Absent /\ sessions[t].ceremony # Absent
  /\ sessions' = [sessions EXCEPT ![t].ceremony = Absent]
  /\ UNCHANGED <<admins, keys, enrollments, logins, accepted, replayed, accountChanges>>

\* The challenge names the keys that may answer it.
start_authentication(t) == [allowed |-> KeysOf(Owner(t))]
start_security_key_authentication(t) ==
  /\ AwaitsFactor(t)
  /\ Cardinality(KeysOf(sessions[t].admin)) >= 2
  /\ sessions' = [sessions EXCEPT ![t].ceremony = start_authentication(t)]
  /\ UNCHANGED <<admins, keys, enrollments, logins, accepted, replayed, accountChanges>>

finish_authentication(t, k) == k \in KeysOf(Owner(t)) \cap sessions[t].ceremony.allowed

\* The challenge is spent whatever the response; a response by a key that is
\* registered and was offered goes on to the transaction with the row it read.
finish_security_key_authentication(r, t, k) ==
  /\ AwaitsFactor(t) /\ sessions[t].ceremony # Absent /\ logins[r] = Absent
  /\ sessions' = [sessions EXCEPT ![t].ceremony = Absent]
  /\ logins' = IF finish_authentication(t, k)
                 THEN [logins EXCEPT ![r] = [op |-> "key", token |-> t, admin |-> Owner(t),
                                             key |-> k]]
                 ELSE logins
  /\ UNCHANGED <<admins, keys, enrollments, accepted, replayed, accountChanges>>

\* The credential row must be the one that was read.  Its signature counter
\* is not modelled: another sign-in with the same key may have moved it, and
\* the transaction is then rejected.
complete_webauthn_mfa_internal(r, new) ==
  LET q == logins[r] IN
  /\ q # Absent /\ q.op = "key" /\ FreshToken(new)
  /\ \/ /\ q.key \in KeysOf(q.admin)
        /\ sessions[q.token] # Absent /\ sessions[q.token].admin = q.admin
        /\ sessions[q.token].verified = Absent
        /\ sessions' = Rotated(q.token, new, [key |-> q.key])
     \/ UNCHANGED sessions
  /\ Finish(r)
  /\ UNCHANGED <<admins, keys, enrollments, accepted, replayed, accountChanges>>

logout(t) ==
  /\ SignedIn(t)
  /\ sessions' = [sessions EXCEPT ![t] = Absent]
  /\ UNCHANGED <<admins, keys, enrollments, logins,
                 accepted, replayed, accountChanges>>

-----------------------------------------------------------------------------
(* The account page of the administrator who owns session t                *)

\* The challenge is stored under the live-session fence.
start_security_key_registration(t) ==
  /\ live_mfa_session(t)
  /\ sessions' = [sessions EXCEPT ![t].ceremony = [register |-> TRUE]]
  /\ UNCHANGED <<admins, keys, enrollments, logins, accepted, replayed, accountChanges>>

\* A key that is already registered violates the unique index and rolls the
\* row back.
add_admin_webauthn_credential(a, k) ==
  keys' = IF keys[k] = Absent THEN [keys EXCEPT ![k] = a] ELSE keys

\* The challenge is spent inside the transaction.
finish_security_key_registration(t, k) ==
  /\ live_mfa_session(t) /\ sessions[t].ceremony # Absent
  /\ sessions' = [sessions EXCEPT ![t].ceremony = Absent]
  /\ add_admin_webauthn_credential(Owner(t), k)
  /\ UNCHANGED <<admins, enrollments, logins, accepted, replayed, accountChanges>>

\* The first half of an account form: the administrator row is read, and the
\* password (and the code, for the forms that ask for one) verified against it.
Reauthenticate(r, t) ==
  /\ live_mfa_session(t)
  /\ Carry(r, [op |-> "account", token |-> t, admin |-> Owner(t),
               password |-> admins[Owner(t)].password,
               generation |-> admins[Owner(t)].generation,
               enabled |-> admins[Owner(t)].totp_enabled])

PasswordStands(q) == IsActive(q.admin) /\ admins[q.admin].password = q.password
GenerationStands(q) == admins[q.admin].generation = q.generation

\* The second half: a transaction that does nothing unless the session is
\* still live and, past that, unless its own conditions hold.
required_transaction_for_mfa_session(r, op, allowed, effect) ==
  /\ logins[r] # Absent /\ logins[r].op = op
  /\ IF /\ live_mfa_session(logins[r].token)
        /\ Owner(logins[r].token) = logins[r].admin
        /\ allowed
       THEN effect
       ELSE UNCHANGED <<admins, keys, sessions, enrollments, accepted, replayed, accountChanges>>
  /\ Finish(r)

RemoveKey(a, k) ==
  /\ keys' = [keys EXCEPT ![k] = Absent]
  /\ revoke_admin_auth_state(a)
  /\ UNCHANGED accountChanges

\* Mutant: TOTP was enabled when the handler read it, so any key may go.
DeletableAnyKey(q, k, step) ==
  /\ PasswordStands(q) /\ GenerationStands(q)
  /\ admin_totp_step_is_fresh(q.admin, step)
  /\ k \in KeysOf(q.admin)

\* With exactly two keys, a handler that disabled TOTP after this one's read
\* may be relying on both.
DeletableWithTotp(q, k, step) ==
  /\ PasswordStands(q) /\ GenerationStands(q)
  /\ admin_totp_step_is_fresh(q.admin, step)
  /\ k \in KeysOf(q.admin) /\ Cardinality(KeysOf(q.admin)) # 2

DeletableWithoutTotp(q, k) ==
  /\ PasswordStands(q) /\ ~admins[q.admin].totp_enabled
  /\ k \in KeysOf(q.admin) /\ Cardinality(KeysOf(q.admin)) > 2

\* Which of the two transactions runs was decided by the row read earlier.
delete_security_key(r, k, step) ==
  LET q == logins[r] IN
  required_transaction_for_mfa_session(r, "account",
    IF q.enabled THEN DeletableWithTotp(q, k, step) ELSE DeletableWithoutTotp(q, k),
    /\ RemoveKey(q.admin, k)
    /\ IF q.enabled
         THEN admins' = WithStep(q.admin, step) /\ Accept(q.admin, q.generation, step)
         ELSE UNCHANGED <<admins, accepted, replayed>>)

TotpSwitchable(q, enable, step) ==
  /\ PasswordStands(q) /\ GenerationStands(q)
  /\ admins[q.admin].totp_enabled # enable
  /\ ~enable => /\ Cardinality(KeysOf(q.admin)) >= 2
                /\ admin_totp_step_is_fresh(q.admin, step)

set_account_totp(r, enable, step) ==
  LET q == logins[r] IN
  required_transaction_for_mfa_session(r, "account", TotpSwitchable(q, enable, step),
    /\ admins' = [admins EXCEPT ![q.admin].totp_enabled = enable,
                                ![q.admin].last_step = IF enable THEN @ ELSE step]
    /\ IF enable THEN UNCHANGED <<accepted, replayed>>
                 ELSE Accept(q.admin, q.generation, step)
    /\ UNCHANGED <<keys, sessions, enrollments, accountChanges>>)

\* Compare-and-swap on the hash that was verified.
change_account_password(r) ==
  LET q == logins[r] IN
  required_transaction_for_mfa_session(r, "account", PasswordStands(q),
    /\ Changing
    /\ admins' = [admins EXCEPT ![q.admin].password = Fresh]
    /\ revoke_admin_auth_state(q.admin)
    /\ UNCHANGED <<keys, accepted, replayed>>)

\* The new enrolment replaces an earlier one of the administrator.
start_admin_mfa_enrollment(q, step) ==
  /\ Changing
  /\ admins' = WithStep(q.admin, step)
  /\ Accept(q.admin, q.generation, step)
  /\ enrollments' = [enrollments EXCEPT ![q.admin] = Fresh]
  /\ UNCHANGED <<keys, sessions>>

\* The transaction checks the step, not the secret the code was matched with.
start_account_mfa(r, step) ==
  LET q == logins[r] IN
  required_transaction_for_mfa_session(r, "account", admin_totp_step_is_fresh(q.admin, step),
    start_admin_mfa_enrollment(q, step))

\* ADMIN_MFA_ENROLLMENT_TTL_SECONDS: an expired enrolment is deleted by the
\* next statement that looks for one.
cleanup_admin_mfa_enrollments(a) ==
  /\ enrollments[a] # Absent
  /\ enrollments' = [enrollments EXCEPT ![a] = Absent]
  /\ UNCHANGED <<admins, keys, sessions, logins, accepted, replayed, accountChanges>>

admin_mfa_enrollment(a) == enrollments[a]

\* The code is matched against the secret of the enrolment the form names.
confirm_account_mfa(r, t) ==
  /\ live_mfa_session(t) /\ admin_mfa_enrollment(Owner(t)) # Absent
  /\ Carry(r, [op |-> "confirm", token |-> t, admin |-> Owner(t),
               enrollment |-> admin_mfa_enrollment(Owner(t))])

\* A new TOTP secret, enabled, with the last step accepted for it.
WithSecret(a, step) ==
  [active |-> admins[a].active, password |-> admins[a].password,
   generation |-> admins[a].generation + 1, totp_enabled |-> TRUE, last_step |-> step]

activate_admin_mfa_enrollment_for_session(r, step) ==
  LET q == logins[r] IN
  required_transaction_for_mfa_session(r, "confirm", enrollments[q.admin] = q.enrollment,
    /\ Changing
    /\ admins' = [admins EXCEPT ![q.admin] = WithSecret(q.admin, step)]
    /\ accepted' = [accepted EXCEPT ![q.admin] = {step}]
    /\ revoke_admin_auth_state(q.admin)
    /\ UNCHANGED <<keys, replayed>>)

-----------------------------------------------------------------------------
(* Other administrators, and recovery from the console                     *)

create_admin(t, a) ==
  /\ live_mfa_session(t) /\ admins[a] = Absent /\ Changing
  /\ admins' = [admins EXCEPT ![a] = NewAdmin(Fresh)]
  /\ UNCHANGED <<keys, sessions, enrollments, logins, accepted, replayed>>

reset_admin_password(t, a) ==
  /\ live_mfa_session(t) /\ sessions[t].admin # a /\ admins[a] # Absent /\ Changing
  /\ admins' = [admins EXCEPT ![a].password = Fresh]
  /\ revoke_admin_auth_state(a)
  /\ UNCHANGED <<keys, logins, accepted, replayed>>

\* A new TOTP secret, no security keys, no replay row.
ResetFactors(a) == WithSecret(a, 0)
KeysWithout(a) == [k \in Keys |-> IF k \in KeysOf(a) THEN Absent ELSE keys[k]]

reset_admin_totp(t, a) ==
  /\ live_mfa_session(t) /\ sessions[t].admin # a /\ admins[a] # Absent /\ Changing
  /\ admins' = [admins EXCEPT ![a] = ResetFactors(a)]
  /\ keys' = KeysWithout(a)
  /\ accepted' = [accepted EXCEPT ![a] = {}]
  /\ revoke_admin_auth_state(a)
  /\ UNCHANGED <<logins, replayed>>

\* Refused when no other administrator is active.
deactivate_admin(t, a) ==
  /\ live_mfa_session(t) /\ sessions[t].admin # a /\ admins[a] # Absent
  /\ IsActive(a) => \E b \in Admins \ {a} : IsActive(b)
  /\ admins' = [admins EXCEPT ![a].active = FALSE]
  /\ revoke_admin_auth_state(a)
  /\ UNCHANGED <<keys, logins, accepted, replayed, accountChanges>>

activate_admin(t, a) ==
  /\ live_mfa_session(t) /\ admins[a] # Absent
  /\ admins' = [admins EXCEPT ![a].active = TRUE]
  /\ UNCHANGED <<keys, sessions, enrollments, logins, accepted, replayed, accountChanges>>

recover_admin(a, password, totp) ==
  /\ admins[a] # Absent /\ (password \/ totp) /\ Changing
  /\ LET row == IF totp THEN ResetFactors(a) ELSE admins[a] IN
     admins' = [admins EXCEPT ![a] = IF password THEN [row EXCEPT !.password = Fresh] ELSE row]
  /\ keys' = IF totp THEN KeysWithout(a) ELSE keys
  /\ accepted' = IF totp THEN [accepted EXCEPT ![a] = {}] ELSE accepted
  /\ revoke_admin_auth_state(a)
  /\ UNCHANGED <<logins, replayed>>

\* A client that goes away before the transaction was submitted.
AbandonLogin(r) ==
  /\ logins[r] # Absent
  /\ Finish(r)
  /\ UNCHANGED <<admins, keys, sessions, enrollments,
                 accepted, replayed, accountChanges>>

-----------------------------------------------------------------------------
LoginNext(r) ==
  \/ \E a \in Admins : login_with_password(r, a)
  \/ \E new \in LoginTokens : create_session_for_verified_password_internal(r, new)
  \/ \E t \in LoginTokens : login_with_totp(r, t)
  \/ \E new \in LoginTokens, step \in TotpSteps : verify_mfa_with_totp_step_internal(r, new, step)
  \/ \E t \in LoginTokens, k \in Keys : finish_security_key_authentication(r, t, k)
  \/ \E new \in LoginTokens : complete_webauthn_mfa_internal(r, new)
  \/ AbandonLogin(r)

AccountNext(r) ==
  \/ \E t \in LoginTokens : Reauthenticate(r, t)
  \/ \E k \in Keys, step \in TotpSteps : delete_security_key(r, k, step)
  \/ \E enable \in BOOLEAN, step \in TotpSteps : set_account_totp(r, enable, step)
  \/ change_account_password(r)
  \/ \E step \in TotpSteps : start_account_mfa(r, step)
  \/ \E t \in LoginTokens : confirm_account_mfa(r, t)
  \/ \E step \in TotpSteps : activate_admin_mfa_enrollment_for_session(r, step)

SessionNext(t) ==
  \/ SessionExpires(t)
  \/ CeremonyExpires(t)
  \/ logout(t)
  \/ start_security_key_authentication(t)
  \/ start_security_key_registration(t)
  \/ \E k \in Keys : finish_security_key_registration(t, k)
  \/ \E a \in Admins : create_admin(t, a)
  \/ \E a \in Admins : reset_admin_password(t, a)
  \/ \E a \in Admins : reset_admin_totp(t, a)
  \/ \E a \in Admins : deactivate_admin(t, a)
  \/ \E a \in Admins : activate_admin(t, a)

AccountsNext ==
  \/ \E r \in LoginRequests : LoginNext(r) \/ AccountNext(r)
  \/ \E t \in LoginTokens : SessionNext(t)
  \/ \E a \in Admins : cleanup_admin_mfa_enrollments(a)
  \/ \E a \in Admins, password, totp \in BOOLEAN : recover_admin(a, password, totp)

AccountsSpec == AccountsInit /\ [][AccountsNext]_accountVars

-----------------------------------------------------------------------------
\* A session outlives none of the credentials it was opened with: its
\* administrator is active, the password it was created for is the current
\* one, the TOTP secret whose code verified it is the current one, and the
\* security key that verified it is still registered.  Login reads and the
\* transactions that use them are separate, and the TOTP transaction does
\* not look at the secret's generation again.
SessionFactorsCurrent ==
  \A t \in LoginTokens : sessions[t] # Absent =>
    LET s == sessions[t] IN
    /\ IsActive(s.admin)
    /\ s.password = admins[s.admin].password
    /\ s.verified # Absent =>
         \/ "totp" \in DOMAIN s.verified /\ s.verified.totp = admins[s.admin].generation
         \/ "key" \in DOMAIN s.verified /\ s.verified.key \in KeysOf(s.admin)

\* No administrator is locked out of the second factor by account changes
\* that race each other: TOTP is on, or at least two security keys (the least
\* the sign-in page accepts) are registered.
SecondFactorKept ==
  \A a \in Admins : admins[a] # Absent =>
    admins[a].totp_enabled \/ Cardinality(KeysOf(a)) >= 2

\* A TOTP code is accepted at most once, by whichever handler comes first:
\* sign-in, key deletion, the TOTP switch, or the start or end of enrolment.
TotpCodeAcceptedOnce == ~replayed

\* Sessions, second factors and codes stay consistent with the account while
\* sign-ins, resets and account changes race (db/auth, web/account.rs).
CredentialsConsistent == SessionFactorsCurrent /\ SecondFactorKept /\ TotpCodeAcceptedOnce
=============================================================================
