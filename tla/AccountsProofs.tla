--------------------------- MODULE AccountsProofs ---------------------------
EXTENDS Accounts, FiniteSetTheorems, TLAPS

Verification == [totp : Nat] \cup [key : Keys]
Ceremony == [allowed : SUBSET Keys] \cup [register : BOOLEAN]
SessionRow == [admin : Admins, password : Nat, verified : Verification \cup {Absent},
               ceremony : Ceremony \cup {Absent}]

\* What a handler carries.
Carried(q) ==
  /\ q.admin \in Admins
  /\ q.op = "login" => q.token = Absent /\ q.password \in Nat
  /\ q.op # "login" => q.token \in LoginTokens
  /\ q.op = "key" => q.key \in Keys
  /\ q.op \in {"totp", "account"} => q.generation \in Nat
  /\ q.op = "account" => q.enabled \in BOOLEAN

AccountTypes ==
  /\ admins \in [Admins -> AdminRow \cup {Absent}]
  /\ keys \in [Keys -> Admins \cup {Absent}]
  /\ sessions \in [LoginTokens -> SessionRow \cup {Absent}]
  /\ enrollments \in [Admins -> Nat \cup {Absent}]
  /\ DOMAIN logins = LoginRequests
  /\ \A r \in LoginRequests : logins[r] # Absent => Carried(logins[r])
  /\ accepted \in [Admins -> SUBSET Nat]
  /\ replayed = FALSE
  /\ accountChanges \in Nat

\* A session of an administrator who is there, with what opened it.
Current(s) ==
  /\ IsActive(s.admin)
  /\ s.password = admins[s.admin].password
  /\ s.verified # Absent =>
       \/ "totp" \in DOMAIN s.verified /\ s.verified.totp = admins[s.admin].generation
       \/ "key" \in DOMAIN s.verified /\ s.verified.key \in KeysOf(s.admin)
SessionsCurrent == \A t \in LoginTokens : sessions[t] # Absent => Current(sessions[t])

\* What a handler carries of a session that is still there is of the secret of
\* today: a new secret ends the sessions, and their tokens are not used again.
CarriedCurrent ==
  \A r \in LoginRequests :
    /\ logins[r] # Absent /\ logins[r].op \in {"totp", "account"}
    /\ sessions[logins[r].token] # Absent
    /\ sessions[logins[r].token].admin = logins[r].admin
    => logins[r].generation = admins[logins[r].admin].generation

\* No step later than the last one has been accepted.
AcceptedSteps ==
  \A a \in Admins :
    IF admins[a] = Absent THEN accepted[a] = {}
    ELSE \A step \in accepted[a] : step <= admins[a].last_step

AccountInv ==
  /\ AccountTypes /\ SessionsCurrent /\ CarriedCurrent /\ AcceptedSteps /\ SecondFactorKept

-----------------------------------------------------------------------------
\* STEPS
USE AccountsAssumption DEF AdminRow, SessionRow, Verification, Ceremony

\* A handler takes up what it will carry; the rest stays.
LEMMA TakenUp ==
  ASSUME AccountInv, NEW r \in LoginRequests, DOMAIN logins' = LoginRequests,
         \A s \in LoginRequests : s # r => logins'[s] = logins[s],
         logins'[r] # Absent => Carried(logins'[r]),
         /\ logins'[r] # Absent /\ logins'[r].op \in {"totp", "account"}
         => logins'[r].generation = admins[logins'[r].admin].generation,
         UNCHANGED <<admins, keys, sessions, enrollments, accepted, replayed, accountChanges>>
  PROVE  AccountInv'
<1>1. AccountTypes'
  BY DEF AccountInv, AccountTypes, Carried
<1>2. CarriedCurrent'
  BY DEF AccountInv, CarriedCurrent
<1>3. SessionsCurrent' /\ AcceptedSteps' /\ SecondFactorKept'
  BY DEF AccountInv, SessionsCurrent, Current, IsActive, KeysOf, AcceptedSteps, SecondFactorKept
<1> QED BY <1>1, <1>2, <1>3 DEF AccountInv

\* The handlers that read first.
LEMMA CarryStep ==
  ASSUME AccountInv, NEW r \in LoginRequests,
         \/ \E a \in Admins : login_with_password(r, a)
         \/ \E t \in LoginTokens : \/ login_with_totp(r, t) \/ Reauthenticate(r, t)
                                   \/ confirm_account_mfa(r, t)
         \/ AbandonLogin(r)
  PROVE  AccountInv'
<1> USE DEF Carry, SignedIn, IsActive, Owner
<1>1. ASSUME NEW a \in Admins, login_with_password(r, a)
      PROVE  AccountInv'
  <2>1. admins[a] \in AdminRow
    BY <1>1 DEF login_with_password, AccountInv, AccountTypes
  <2> QED BY <1>1, <2>1, TakenUp, Zenon DEF login_with_password, AccountInv, AccountTypes, Carried
<1>2. ASSUME NEW t \in LoginTokens,
             login_with_totp(r, t) \/ Reauthenticate(r, t) \/ confirm_account_mfa(r, t)
      PROVE  AccountInv'
  <2> DEFINE a == sessions[t].admin
  <2>1. sessions[t] # Absent /\ IsActive(a)
    BY <1>2, Zenon DEF login_with_totp, Reauthenticate, confirm_account_mfa, live_mfa_session, AwaitsFactor
  <2>2. a \in Admins /\ admins[a] \in AdminRow
    BY <2>1 DEF AccountInv, AccountTypes
  <2>3. DOMAIN logins = LoginRequests
    BY DEF AccountInv, AccountTypes
  <2>4. CASE login_with_totp(r, t)
    BY <2>2, <2>3, <2>4, TakenUp, Zenon DEF login_with_totp, Carried
  <2>5. CASE Reauthenticate(r, t)
    BY <2>2, <2>3, <2>5, TakenUp, Zenon DEF Reauthenticate, Carried
  <2>6. CASE confirm_account_mfa(r, t)
    BY <2>2, <2>3, <2>6, TakenUp DEF confirm_account_mfa, Carried
  <2> QED BY <1>2, <2>4, <2>5, <2>6
<1>3. CASE AbandonLogin(r)
  BY <1>3, TakenUp, Zenon DEF AbandonLogin, Finish, AccountInv, AccountTypes
<1> QED BY <1>1, <1>2, <1>3

\* Sessions and their ceremonies end, or a ceremony begins.
LEMMA SessionExpiresStep ==
  ASSUME AccountInv, NEW t \in LoginTokens, SessionExpires(t)
  PROVE  AccountInv'
<1>1. AccountTypes'
  BY DEF AccountInv, AccountTypes, Carried, SessionExpires
<1>2. SessionsCurrent'
  BY DEF AccountInv, AccountTypes, SessionsCurrent, Current, IsActive, KeysOf, SessionExpires
<1>3. CarriedCurrent'
  BY DEF AccountInv, AccountTypes, Carried, CarriedCurrent, SessionExpires
<1>4. AcceptedSteps' /\ SecondFactorKept'
  BY DEF AccountInv, AcceptedSteps, SecondFactorKept, KeysOf, SessionExpires
<1> QED BY <1>1, <1>2, <1>3, <1>4 DEF AccountInv

LEMMA CeremonyExpiresStep ==
  ASSUME AccountInv, NEW t \in LoginTokens, CeremonyExpires(t)
  PROVE  AccountInv'
<1>1. AccountTypes'
  BY DEF AccountInv, AccountTypes, Carried, CeremonyExpires
<1>2. SessionsCurrent'
  BY DEF AccountInv, AccountTypes, SessionsCurrent, Current, IsActive, KeysOf, CeremonyExpires
<1>3. CarriedCurrent'
  BY DEF AccountInv, AccountTypes, Carried, CarriedCurrent, CeremonyExpires
<1>4. AcceptedSteps' /\ SecondFactorKept'
  BY DEF AccountInv, AcceptedSteps, SecondFactorKept, KeysOf, CeremonyExpires
<1> QED BY <1>1, <1>2, <1>3, <1>4 DEF AccountInv

LEMMA LogoutStep ==
  ASSUME AccountInv, NEW t \in LoginTokens, logout(t)
  PROVE  AccountInv'
<1>1. AccountTypes'
  BY DEF AccountInv, AccountTypes, Carried, logout
<1>2. SessionsCurrent'
  BY DEF AccountInv, AccountTypes, SessionsCurrent, Current, IsActive, KeysOf, logout
<1>3. CarriedCurrent'
  BY DEF AccountInv, AccountTypes, Carried, CarriedCurrent, logout
<1>4. AcceptedSteps' /\ SecondFactorKept'
  BY DEF AccountInv, AcceptedSteps, SecondFactorKept, KeysOf, logout
<1> QED BY <1>1, <1>2, <1>3, <1>4 DEF AccountInv

LEMMA CeremonyBegins ==
  ASSUME AccountInv, NEW t \in LoginTokens, NEW c \in Ceremony, sessions[t] # Absent,
         sessions' = [sessions EXCEPT ![t].ceremony = c],
         UNCHANGED <<admins, keys, enrollments, logins, accepted, replayed, accountChanges>>
  PROVE  AccountInv'
<1> DEFINE row == [sessions[t] EXCEPT !.ceremony = c]
<1>1. /\ sessions[t] \in SessionRow /\ sessions[t] # Absent
      /\ sessions \in [LoginTokens -> SessionRow \cup {Absent}]
      /\ sessions' = [sessions EXCEPT ![t] = row]
  BY DEF AccountInv, AccountTypes
<1>2. /\ row \in SessionRow
      /\ row.admin = sessions[t].admin /\ row.password = sessions[t].password
      /\ row.verified = sessions[t].verified
  BY ONLY <1>1, c \in Ceremony, Zenon DEF SessionRow
<1> HIDE DEF row
<1>3. /\ sessions' \in [LoginTokens -> SessionRow \cup {Absent}]
      /\ \A u \in LoginTokens : sessions'[u] # Absent =>
           /\ sessions[u] # Absent
           /\ sessions'[u].admin = sessions[u].admin
           /\ sessions'[u].password = sessions[u].password
           /\ sessions'[u].verified = sessions[u].verified
  BY ONLY <1>1, <1>2
<1>4. AccountTypes'
  BY <1>3 DEF AccountInv, AccountTypes, Carried
<1>5. SessionsCurrent'
  BY <1>3 DEF AccountInv, SessionsCurrent, Current, IsActive, KeysOf
<1>6. CarriedCurrent'
  BY <1>3 DEF AccountInv, AccountTypes, Carried, CarriedCurrent
<1>7. AcceptedSteps' /\ SecondFactorKept'
  BY DEF AccountInv, AcceptedSteps, SecondFactorKept, KeysOf
<1> QED BY <1>4, <1>5, <1>6, <1>7 DEF AccountInv

LEMMA ChallengeStep ==
  ASSUME AccountInv, NEW t \in LoginTokens, start_security_key_authentication(t)
  PROVE  AccountInv'
<1>1. start_authentication(t) \in Ceremony
  BY DEF start_authentication, KeysOf
<1> QED BY <1>1, CeremonyBegins, Zenon
     DEF start_security_key_authentication, AwaitsFactor, SignedIn

LEMMA RegistrationStartsStep ==
  ASSUME AccountInv, NEW t \in LoginTokens, start_security_key_registration(t)
  PROVE  AccountInv'
<1>1. [register |-> TRUE] \in Ceremony
  OBVIOUS
<1> QED BY <1>1, CeremonyBegins, Zenon
     DEF start_security_key_registration, live_mfa_session, SignedIn

LEMMA SessionStep ==
  ASSUME AccountInv, NEW t \in LoginTokens,
         \/ SessionExpires(t) \/ CeremonyExpires(t) \/ logout(t)
         \/ start_security_key_authentication(t) \/ start_security_key_registration(t)
  PROVE  AccountInv'
BY SessionExpiresStep, CeremonyExpiresStep, LogoutStep, ChallengeStep, RegistrationStartsStep, Zenon

LEMMA EnrolmentExpiresStep ==
  ASSUME AccountInv, NEW a \in Admins, cleanup_admin_mfa_enrollments(a)
  PROVE  AccountInv'
<1>1. AccountTypes'
  BY DEF AccountInv, AccountTypes, Carried, cleanup_admin_mfa_enrollments
<1>2. SessionsCurrent'
  BY DEF AccountInv, AccountTypes, SessionsCurrent, Current, IsActive, KeysOf,
    cleanup_admin_mfa_enrollments
<1>3. CarriedCurrent'
  BY DEF AccountInv, AccountTypes, Carried, CarriedCurrent, cleanup_admin_mfa_enrollments
<1>4. AcceptedSteps' /\ SecondFactorKept'
  BY DEF AccountInv, AcceptedSteps, SecondFactorKept, KeysOf, cleanup_admin_mfa_enrollments
<1> QED BY <1>1, <1>2, <1>3, <1>4 DEF AccountInv

\* A response to a challenge is carried to its transaction.
LEMMA ResponseStep ==
  ASSUME AccountInv, NEW r \in LoginRequests, NEW t \in LoginTokens, NEW k \in Keys,
         finish_security_key_authentication(r, t, k)
  PROVE  AccountInv'
<1>1. AccountTypes'
  BY DEF AccountInv, AccountTypes, Carried, finish_security_key_authentication, AwaitsFactor,
    SignedIn, finish_authentication, Owner
<1>2. SessionsCurrent'
  BY DEF AccountInv, AccountTypes, SessionsCurrent, Current, IsActive, KeysOf,
    finish_security_key_authentication, AwaitsFactor, SignedIn, finish_authentication, Owner
<1>3. CarriedCurrent'
  BY DEF AccountInv, AccountTypes, Carried, CarriedCurrent, finish_security_key_authentication,
    AwaitsFactor, SignedIn, finish_authentication, Owner
<1>4. AcceptedSteps' /\ SecondFactorKept'
  BY DEF AccountInv, AcceptedSteps, SecondFactorKept, KeysOf, finish_security_key_authentication,
    AwaitsFactor, SignedIn, finish_authentication, Owner
<1> QED BY <1>1, <1>2, <1>3, <1>4 DEF AccountInv

\* A session is made for the password that is current.
LEMMA CreateSessionStep ==
  ASSUME AccountInv, NEW r \in LoginRequests, NEW new \in LoginTokens,
         create_session_for_verified_password_internal(r, new)
  PROVE  AccountInv'
<1> USE DEF create_session_for_verified_password_internal, FreshToken, Finish
<1>1. AccountTypes'
  BY DEF AccountInv, AccountTypes, Carried
<1>2. SessionsCurrent'
  BY ZenonT(30) DEF AccountInv, AccountTypes, SessionsCurrent, Current, IsActive, KeysOf, Carried
<1>3. CarriedCurrent'
  BY DEF AccountInv, AccountTypes, CarriedCurrent
<1>4. AcceptedSteps' /\ SecondFactorKept'
  BY DEF AccountInv, AcceptedSteps, SecondFactorKept, KeysOf
<1> QED BY <1>1, <1>2, <1>3, <1>4 DEF AccountInv

\* A row is amended under a password and a secret that stay.  The sessions
\* there are then were current before, and those that handlers carry are the
\* ones they were.
LEMMA Amended ==
  ASSUME AccountInv, NEW a \in Admins, admins[a] # Absent,
         admins' \in [Admins -> AdminRow \cup {Absent}], admins'[a] # Absent,
         \A b \in Admins : b # a => admins'[b] = admins[b],
         admins'[a].password = admins[a].password,
         admins'[a].generation = admins[a].generation,
         admins[a].active => admins'[a].active,
         sessions' \in [LoginTokens -> SessionRow \cup {Absent}],
         \A t \in LoginTokens : sessions'[t] # Absent => Current(sessions'[t]),
         DOMAIN logins' = LoginRequests,
         \A r \in LoginRequests : logins'[r] # Absent =>
           /\ logins'[r] = logins[r]
           /\ logins[r].op # "login" => sessions'[logins[r].token] \in {sessions[logins[r].token], Absent},
         accepted' \in [Admins -> SUBSET Nat],
         \A b \in Admins : b # a => accepted'[b] = accepted[b],
         \A step \in accepted'[a] : step <= admins'[a].last_step,
         admins'[a].totp_enabled \/ Cardinality(KeysOf(a)) >= 2,
         UNCHANGED keys, enrollments' \in [Admins -> Nat \cup {Absent}],
         replayed' = FALSE, accountChanges' \in Nat
  PROVE  AccountInv'
<1>1. AccountTypes'
  BY DEF AccountInv, AccountTypes, Carried
<1>2. SessionsCurrent'
  <2> SUFFICES ASSUME NEW t \in LoginTokens, sessions'[t] # Absent
               PROVE  Current(sessions[t])'
    BY DEF SessionsCurrent
  <2>1. Current(sessions'[t]) /\ sessions'[t].admin \in Admins
    OBVIOUS
  <2> QED BY <2>1 DEF Current, IsActive, KeysOf
<1>3. CarriedCurrent'
  BY DEF AccountInv, AccountTypes, CarriedCurrent, Carried
<1>4. AcceptedSteps'
  BY DEF AccountInv, AcceptedSteps
<1>5. \A b \in Admins : KeysOf(b)' = KeysOf(b)
  BY DEF KeysOf
<1>6. SecondFactorKept'
  BY <1>5 DEF AccountInv, SecondFactorKept
<1> QED BY <1>1, <1>2, <1>3, <1>4, <1>6 DEF AccountInv

LEMMA AmendedRow ==
  ASSUME AccountInv, NEW a \in Admins, admins[a] # Absent,
         admins' \in [Admins -> AdminRow \cup {Absent}], admins'[a] # Absent,
         \A b \in Admins : b # a => admins'[b] = admins[b],
         admins'[a].password = admins[a].password,
         admins'[a].generation = admins[a].generation,
         admins[a].active => admins'[a].active,
         DOMAIN logins' = LoginRequests,
         \A r \in LoginRequests : logins'[r] # Absent => logins'[r] = logins[r],
         accepted' \in [Admins -> SUBSET Nat],
         \A b \in Admins : b # a => accepted'[b] = accepted[b],
         \A step \in accepted'[a] : step <= admins'[a].last_step,
         admins'[a].totp_enabled \/ Cardinality(KeysOf(a)) >= 2,
         UNCHANGED <<keys, sessions>>, enrollments' \in [Admins -> Nat \cup {Absent}],
         replayed' = FALSE, accountChanges' \in Nat
  PROVE  AccountInv'
<1>1. /\ sessions' \in [LoginTokens -> SessionRow \cup {Absent}]
      /\ \A t \in LoginTokens : sessions'[t] # Absent => Current(sessions'[t])
  BY DEF AccountInv, AccountTypes, SessionsCurrent
<1>2. \A r \in LoginRequests : logins'[r] # Absent =>
        /\ logins'[r] = logins[r]
        /\ logins[r].op # "login" => sessions'[logins[r].token] \in {sessions[logins[r].token], Absent}
  OBVIOUS
<1> QED BY <1>1, <1>2, Amended, Zenon

\* A row and its keys change, and with them end its sessions and enrolment:
\* no session of a replaced password, secret or key is left.
LEMMA Revoked ==
  ASSUME AccountInv, NEW a \in Admins,
         admins' \in [Admins -> AdminRow \cup {Absent}], admins'[a] # Absent,
         \A b \in Admins : b # a => admins'[b] = admins[b] /\ KeysOf(b)' = KeysOf(b),
         keys' \in [Keys -> Admins \cup {Absent}],
         revoke_admin_auth_state(a),
         DOMAIN logins' = LoginRequests,
         \A r \in LoginRequests : logins'[r] # Absent => logins'[r] = logins[r],
         accepted' \in [Admins -> SUBSET Nat],
         \A b \in Admins : b # a => accepted'[b] = accepted[b],
         \A step \in accepted'[a] : step <= admins'[a].last_step,
         admins'[a].totp_enabled \/ Cardinality(KeysOf(a)') >= 2,
         replayed' = FALSE, accountChanges' \in Nat
  PROVE  AccountInv'
<1> USE DEF revoke_admin_auth_state, SessionsWithout
<1>1. AccountTypes'
  BY ZenonT(30) DEF AccountInv, AccountTypes, Carried
<1>2. SessionsCurrent'
  <2> SUFFICES ASSUME NEW t \in LoginTokens, sessions'[t] # Absent
               PROVE  Current(sessions[t])'
    BY DEF SessionsCurrent
  <2>1. /\ sessions'[t] = sessions[t] /\ Current(sessions[t])
        /\ sessions[t].admin \in Admins /\ sessions[t].admin # a
    BY DEF AccountInv, AccountTypes, SessionsCurrent
  <2> QED BY <2>1 DEF Current, IsActive
<1>3. CarriedCurrent'
  BY SMTT(30) DEF AccountInv, AccountTypes, CarriedCurrent, Carried
<1>4. AcceptedSteps'
  BY DEF AccountInv, AcceptedSteps
<1>5. SecondFactorKept'
  BY DEF AccountInv, SecondFactorKept
<1> QED BY <1>1, <1>2, <1>3, <1>4, <1>5 DEF AccountInv

\* A fresh step is later than every step accepted with the secret.
LEMMA NewStep ==
  ASSUME AccountInv, NEW a \in Admins, admins[a] \in AdminRow, NEW step \in TotpSteps,
         admins[a].last_step < step, Accept(a, admins[a].generation, step)
  PROVE  /\ replayed' = FALSE /\ accepted' \in [Admins -> SUBSET Nat]
         /\ \A b \in Admins : b # a => accepted'[b] = accepted[b]
         /\ \A s \in accepted'[a] : s <= step
<1>1. /\ accepted \in [Admins -> SUBSET Nat] /\ ~replayed /\ step \in Nat
      /\ \A s \in accepted[a] : s <= admins[a].last_step
  BY DEF AccountInv, AccountTypes, AcceptedSteps
<1>2. admins[a].last_step \in Nat
  OBVIOUS
<1>3. step \notin accepted[a] /\ \A s \in accepted[a] : s <= step
  BY <1>1, <1>2
<1>4. replayed' = FALSE
  BY <1>1, <1>3, Zenon DEF Accept
<1> QED BY <1>1, <1>3, <1>4 DEF Accept

\* A verified session moves to a token that nobody mentions.
LEMMA RotatedSessions ==
  ASSUME AccountInv, NEW t \in LoginTokens, NEW new \in LoginTokens, NEW v \in Verification,
         sessions[t] # Absent, FreshToken(new), sessions' = Rotated(t, new, v),
         \/ "totp" \in DOMAIN v /\ v.totp = admins[sessions[t].admin].generation
         \/ "key" \in DOMAIN v /\ v.key \in KeysOf(sessions[t].admin)
  PROVE  /\ sessions' \in [LoginTokens -> SessionRow \cup {Absent}]
         /\ \A u \in LoginTokens : sessions'[u] # Absent => Current(sessions'[u])
         /\ \A r \in LoginRequests : logins[r] # Absent /\ logins[r].op # "login" =>
              sessions'[logins[r].token] \in {sessions[logins[r].token], Absent}
<1> DEFINE row == [admin |-> sessions[t].admin, password |-> sessions[t].password, verified |-> v,
                   ceremony |-> Absent]
<1>1. row \in SessionRow
  BY DEF AccountInv, AccountTypes
<1>2. sessions' = [sessions EXCEPT ![t] = Absent, ![new] = row] /\ t # new
  BY DEF Rotated, Owner, FreshToken
<1>3. Current(row)
  BY DEF AccountInv, SessionsCurrent, Current
<1> HIDE DEF row
<1>4. \A u \in LoginTokens : sessions[u] # Absent => Current(sessions[u])
  BY DEF AccountInv, SessionsCurrent
<1>5. sessions' \in [LoginTokens -> SessionRow \cup {Absent}]
  BY <1>1, <1>2 DEF AccountInv, AccountTypes
<1>6. \A u \in LoginTokens : u # new => sessions'[u] \in {sessions[u], Absent}
  BY <1>2 DEF AccountInv, AccountTypes
<1>7. sessions'[new] = row
  BY <1>2 DEF AccountInv, AccountTypes
<1>8. ASSUME NEW r \in LoginRequests, logins[r] # Absent, logins[r].op # "login"
      PROVE  sessions'[logins[r].token] \in {sessions[logins[r].token], Absent}
  BY <1>6, <1>8 DEF AccountInv, AccountTypes, FreshToken, Carried
<1> QED BY <1>3, <1>4, <1>5, <1>6, <1>7, <1>8

\* A sign-in ends: the session is still there, so the secret the code was
\* matched with is the present one, and the key must still be registered.
LEMMA SignInStep ==
  ASSUME AccountInv, NEW r \in LoginRequests, NEW new \in LoginTokens,
         \/ complete_webauthn_mfa_internal(r, new)
         \/ \E step \in TotpSteps : verify_mfa_with_totp_step_internal(r, new, step)
  PROVE  AccountInv'
<1>1. PICK q : q = logins[r]
  OBVIOUS
<1>2. /\ q # Absent /\ FreshToken(new) /\ Carried(q) /\ q.op # "login"
      /\ DOMAIN logins = LoginRequests /\ Finish(r)
      /\ q.admin \in Admins /\ q.token \in LoginTokens
  BY <1>1, Zenon DEF complete_webauthn_mfa_internal, verify_mfa_with_totp_step_internal, AccountInv,
    AccountTypes, Carried
<1>3. CASE UNCHANGED <<admins, keys, sessions, enrollments, accepted, replayed, accountChanges>>
  BY <1>2, <1>3, TakenUp DEF Finish
<1>4. ASSUME NEW step \in TotpSteps, q.op = "totp", AwaitsFactor(q.token),
             sessions[q.token].admin = q.admin, admins[q.admin].totp_enabled,
             admin_totp_step_is_fresh(q.admin, step),
             admins' = WithStep(q.admin, step), Accept(q.admin, q.generation, step),
             sessions' = Rotated(q.token, new, [totp |-> q.generation]),
             UNCHANGED <<keys, enrollments, accountChanges>>
      PROVE  AccountInv'
  <2>1. /\ q.generation \in Nat /\ sessions[q.token] # Absent
        /\ q.generation = admins[q.admin].generation
        /\ admins[q.admin] \in AdminRow /\ admins[q.admin].last_step < step
    BY <1>1, <1>2, <1>4, ZenonT(30) DEF Carried, AwaitsFactor, SignedIn, admin_totp_step_is_fresh, IsActive,
      AccountInv, AccountTypes, CarriedCurrent
  <2>2. PICK v \in Verification : v = [totp |-> q.generation]
    BY <2>1, Zenon
  <2>3. "totp" \in DOMAIN v /\ v.totp = admins[sessions[q.token].admin].generation
    BY <1>4, <2>1, <2>2
  <2>4. /\ sessions' \in [LoginTokens -> SessionRow \cup {Absent}]
        /\ \A u \in LoginTokens : sessions'[u] # Absent => Current(sessions'[u])
        /\ \A p \in LoginRequests : logins[p] # Absent /\ logins[p].op # "login" =>
              sessions'[logins[p].token] \in {sessions[logins[p].token], Absent}
    BY <1>2, <1>4, <2>1, <2>2, <2>3, RotatedSessions, Zenon
  <2>5. /\ admins' \in [Admins -> AdminRow \cup {Absent}] /\ admins'[q.admin] # Absent
        /\ \A b \in Admins : b # q.admin => admins'[b] = admins[b]
        /\ admins'[q.admin].password = admins[q.admin].password
        /\ admins'[q.admin].generation = admins[q.admin].generation
        /\ admins'[q.admin].active = admins[q.admin].active
        /\ admins'[q.admin].totp_enabled /\ admins'[q.admin].last_step = step
    BY <1>2, <1>4, <2>1 DEF WithStep, AccountInv, AccountTypes
  <2>6. /\ replayed' = FALSE /\ accepted' \in [Admins -> SUBSET Nat]
        /\ \A b \in Admins : b # q.admin => accepted'[b] = accepted[b]
        /\ \A s \in accepted'[q.admin] : s <= step
    BY <1>2, <1>4, <2>1, NewStep, Zenon
  <2>7. /\ DOMAIN logins' = LoginRequests
        /\ \A p \in LoginRequests : logins'[p] # Absent => logins'[p] = logins[p]
    BY <1>2 DEF Finish
  <2>8. /\ enrollments' \in [Admins -> Nat \cup {Absent}] /\ accountChanges' \in Nat
        /\ admins[q.admin] # Absent
    BY <1>4, <2>1, Zenon DEF AccountInv, AccountTypes
  <2>9. /\ \A p \in LoginRequests : logins'[p] # Absent =>
             /\ logins'[p] = logins[p]
             /\ logins[p].op # "login" =>
                  sessions'[logins[p].token] \in {sessions[logins[p].token], Absent}
        /\ \A s \in accepted'[q.admin] : s <= admins'[q.admin].last_step
    BY <2>4, <2>5, <2>6, <2>7
  <2> QED BY <1>2, <1>4, <2>4, <2>5, <2>6, <2>7, <2>8, <2>9, Amended, ZenonT(30)
<1>5. ASSUME q.op = "key", q.key \in KeysOf(q.admin),
             sessions[q.token] # Absent, sessions[q.token].admin = q.admin,
             sessions' = Rotated(q.token, new, [key |-> q.key]),
             UNCHANGED <<admins, keys, enrollments, accepted, replayed, accountChanges>>
      PROVE  AccountInv'
  <2>1. PICK v \in Verification : v = [key |-> q.key]
    BY <1>5 DEF KeysOf
  <2>2. "key" \in DOMAIN v /\ v.key \in KeysOf(sessions[q.token].admin)
    BY <1>5, <2>1
  <2>3. /\ sessions' \in [LoginTokens -> SessionRow \cup {Absent}]
        /\ \A u \in LoginTokens : sessions'[u] # Absent => Current(sessions'[u])
        /\ \A p \in LoginRequests : logins[p] # Absent /\ logins[p].op # "login" =>
              sessions'[logins[p].token] \in {sessions[logins[p].token], Absent}
    BY <1>2, <1>5, <2>1, <2>2, RotatedSessions, ZenonT(30)
  <2>4. /\ admins[q.admin] # Absent
        /\ \A s \in accepted[q.admin] : s <= admins[q.admin].last_step
        /\ admins[q.admin].totp_enabled \/ Cardinality(KeysOf(q.admin)) >= 2
    BY <1>2, <1>5 DEF AccountInv, AccountTypes, SessionsCurrent, Current, IsActive, AcceptedSteps,
      SecondFactorKept
  <2> QED BY <1>2, <1>5, <2>3, <2>4, Amended, Zenon DEF Finish, AccountInv, AccountTypes
<1>6. CASE complete_webauthn_mfa_internal(r, new)
  BY <1>1, <1>3, <1>5, <1>6, Zenon DEF complete_webauthn_mfa_internal
<1>7. ASSUME NEW step \in TotpSteps, verify_mfa_with_totp_step_internal(r, new, step)
      PROVE  AccountInv'
  BY <1>1, <1>3, <1>4, <1>7, Zenon DEF verify_mfa_with_totp_step_internal
<1> QED BY <1>6, <1>7

\* The transaction of an account form that does nothing.
LEMMA FormRefused ==
  ASSUME AccountInv, NEW r \in LoginRequests, Finish(r),
         UNCHANGED <<admins, keys, sessions, enrollments, accepted, replayed, accountChanges>>
  PROVE  AccountInv'
  BY TakenUp, Zenon DEF Finish, AccountInv, AccountTypes

\* What an account form that runs knows of the administrator: the session is
\* still live, so the secret is the one that was read.
LEMMA FormRuns ==
  ASSUME AccountInv, NEW r \in LoginRequests, logins[r] # Absent, logins[r].op # "login", Finish(r),
         live_mfa_session(logins[r].token), Owner(logins[r].token) = logins[r].admin
  PROVE  \E a \in Admins :
           /\ a = logins[r].admin /\ Carried(logins[r])
           /\ admins[a] \in AdminRow /\ admins[a] # Absent /\ admins[a].active
           /\ logins[r].op = "account" => logins[r].generation = admins[a].generation
           /\ DOMAIN logins' = LoginRequests
           /\ \A s \in LoginRequests : logins'[s] # Absent => logins'[s] = logins[s]
<1>1. /\ Carried(logins[r]) /\ logins[r].admin \in Admins
      /\ sessions[logins[r].token] # Absent /\ IsActive(logins[r].admin)
      /\ sessions[logins[r].token].admin = logins[r].admin
  BY DEF AccountInv, AccountTypes, Carried, live_mfa_session, SignedIn, Owner
<1>2. /\ admins[logins[r].admin] \in AdminRow /\ admins[logins[r].admin] # Absent
      /\ admins[logins[r].admin].active
  BY <1>1 DEF IsActive, AccountInv, AccountTypes
<1>3. logins[r].op = "account" => logins[r].generation = admins[logins[r].admin].generation
  BY <1>1 DEF AccountInv, CarriedCurrent
<1>4. /\ DOMAIN logins' = LoginRequests
      /\ \A s \in LoginRequests : logins'[s] # Absent => logins'[s] = logins[s]
  BY DEF Finish, AccountInv, AccountTypes
<1> QED BY <1>1, <1>2, <1>3, <1>4, Zenon

\* Removing a key leaves the keys of the others, and one fewer of its owner's.
LEMMA KeyRemoved ==
  ASSUME AccountTypes, NEW a \in Admins, NEW k \in KeysOf(a), keys' = [keys EXCEPT ![k] = Absent]
  PROVE  /\ keys' \in [Keys -> Admins \cup {Absent}]
         /\ \A b \in Admins : b # a => KeysOf(b)' = KeysOf(b)
         /\ Cardinality(KeysOf(a)) \in Nat
         /\ Cardinality(KeysOf(a)') = Cardinality(KeysOf(a)) - 1
<1>1. k \in Keys /\ keys[k] = a
  BY DEF KeysOf
<1>2. /\ keys' \in [Keys -> Admins \cup {Absent}]
      /\ \A b \in Admins : b # a => KeysOf(b)' = KeysOf(b)
      /\ KeysOf(a)' = KeysOf(a) \ {k}
  BY <1>1 DEF AccountTypes, KeysOf
<1>3. IsFiniteSet(KeysOf(a))
  BY FS_Subset DEF KeysOf
<1> QED BY <1>2, <1>3, FS_RemoveElement, FS_CardinalityType

\* A key goes, with the sessions of its owner.  If TOTP is off by now, the
\* handler that switched it off counted two keys, and there must be three.
LEMMA DeleteKeyStep ==
  ASSUME AccountInv, NEW r \in LoginRequests, NEW k \in Keys, NEW step \in TotpSteps,
         delete_security_key(r, k, step)
  PROVE  AccountInv'
<1> USE DEF delete_security_key, required_transaction_for_mfa_session
<1>1. CASE UNCHANGED <<admins, keys, sessions, enrollments, accepted, replayed, accountChanges>>
  BY <1>1, FormRefused
<1>2. CASE /\ live_mfa_session(logins[r].token) /\ Owner(logins[r].token) = logins[r].admin
           /\ IF logins[r].enabled THEN DeletableWithTotp(logins[r], k, step)
                                   ELSE DeletableWithoutTotp(logins[r], k)
           /\ RemoveKey(logins[r].admin, k)
           /\ IF logins[r].enabled
                THEN /\ admins' = WithStep(logins[r].admin, step)
                     /\ Accept(logins[r].admin, logins[r].generation, step)
                ELSE UNCHANGED <<admins, accepted, replayed>>
  <2> HIDE DEF delete_security_key, required_transaction_for_mfa_session
  <2>1. PICK a \in Admins :
          /\ a = logins[r].admin
          /\ admins[a] \in AdminRow /\ admins[a] # Absent
          /\ logins[r].generation = admins[a].generation
          /\ DOMAIN logins' = LoginRequests
          /\ \A s \in LoginRequests : logins'[s] # Absent => logins'[s] = logins[s]
    BY <1>2, FormRuns, Zenon DEF delete_security_key, required_transaction_for_mfa_session
  <2>2. k \in KeysOf(a) /\ keys' = [keys EXCEPT ![k] = Absent] /\ revoke_admin_auth_state(a)
    BY <1>2, <2>1, Zenon DEF DeletableWithTotp, DeletableWithoutTotp, RemoveKey
  <2>3. /\ keys' \in [Keys -> Admins \cup {Absent}]
        /\ \A b \in Admins : b # a => KeysOf(b)' = KeysOf(b)
        /\ Cardinality(KeysOf(a)) \in Nat
        /\ Cardinality(KeysOf(a)') = Cardinality(KeysOf(a)) - 1
    BY <2>2, KeyRemoved, Zenon DEF AccountInv
  <2>4. admins[a].totp_enabled \/ Cardinality(KeysOf(a)) > 2
    <3>1. admins[a].totp_enabled \/ Cardinality(KeysOf(a)) >= 2
      BY <2>1 DEF AccountInv, SecondFactorKept
    <3>2. Cardinality(KeysOf(a)) # 2 \/ Cardinality(KeysOf(a)) > 2
      BY <1>2, <2>1, Zenon DEF DeletableWithTotp, DeletableWithoutTotp
    <3> QED BY <2>3, <3>1, <3>2
  <2>5. /\ admins' \in [Admins -> AdminRow \cup {Absent}] /\ admins'[a] # Absent
        /\ \A b \in Admins : b # a => admins'[b] = admins[b]
        /\ admins'[a].totp_enabled = admins[a].totp_enabled
        /\ replayed' = FALSE /\ accepted' \in [Admins -> SUBSET Nat]
        /\ \A b \in Admins : b # a => accepted'[b] = accepted[b]
        /\ \A s \in accepted'[a] : s <= admins'[a].last_step
    <3>1. CASE logins[r].enabled
      <4>1. /\ admins' = WithStep(a, step) /\ Accept(a, admins[a].generation, step)
            /\ admins[a].last_step < step
        BY <1>2, <2>1, <3>1, Zenon DEF DeletableWithTotp, admin_totp_step_is_fresh
      <4>2. /\ admins' \in [Admins -> AdminRow \cup {Absent}] /\ admins'[a] # Absent
            /\ \A b \in Admins : b # a => admins'[b] = admins[b]
            /\ admins'[a].totp_enabled = admins[a].totp_enabled
            /\ admins'[a].last_step = step
        BY <2>1, <4>1 DEF WithStep, AccountInv, AccountTypes
      <4>3. /\ replayed' = FALSE /\ accepted' \in [Admins -> SUBSET Nat]
            /\ \A b \in Admins : b # a => accepted'[b] = accepted[b]
            /\ \A s \in accepted'[a] : s <= step
        BY <2>1, <4>1, NewStep, Zenon
      <4> QED BY <4>2, <4>3
    <3>2. CASE ~logins[r].enabled
      BY <1>2, <2>1, <3>2, Zenon DEF AccountInv, AccountTypes, AcceptedSteps
    <3> QED BY <3>1, <3>2, Zenon
  <2>6. accountChanges' \in Nat
    BY <1>2 DEF RemoveKey, AccountInv, AccountTypes
  <2>7. admins'[a].totp_enabled \/ Cardinality(KeysOf(a)') >= 2
    BY <2>3, <2>4, <2>5
  <2> QED BY <2>1, <2>2, <2>3, <2>5, <2>6, <2>7, Revoked, Zenon
<1> QED BY <1>1, <1>2, Zenon

\* What the invariant says of one administrator.
LEMMA Presently ==
  ASSUME AccountInv, NEW a \in Admins, admins[a] # Absent
  PROVE  /\ \A s \in accepted[a] : s <= admins[a].last_step
         /\ admins[a].totp_enabled \/ Cardinality(KeysOf(a)) >= 2
         /\ admins[a] \in AdminRow
         /\ \A t \in LoginTokens : sessions[t] # Absent => Current(sessions[t])
  BY DEF AccountInv, AccountTypes, AcceptedSteps, SecondFactorKept, SessionsCurrent

\* The password form: a new hash ends the sessions.
LEMMA ChangePasswordStep ==
  ASSUME AccountInv, NEW r \in LoginRequests, change_account_password(r)
  PROVE  AccountInv'
<1> USE DEF change_account_password, required_transaction_for_mfa_session
<1>1. CASE UNCHANGED <<admins, keys, sessions, enrollments, accepted, replayed, accountChanges>>
  BY <1>1, FormRefused
<1>2. CASE /\ live_mfa_session(logins[r].token) /\ Owner(logins[r].token) = logins[r].admin
           /\ Changing
           /\ admins' = [admins EXCEPT ![logins[r].admin].password = Fresh]
           /\ revoke_admin_auth_state(logins[r].admin)
           /\ UNCHANGED <<keys, accepted, replayed>>
  <2>1. PICK a \in Admins :
          /\ a = logins[r].admin /\ admins[a] \in AdminRow /\ admins[a] # Absent
          /\ DOMAIN logins' = LoginRequests
          /\ \A s \in LoginRequests : logins'[s] # Absent => logins'[s] = logins[s]
    BY <1>2, FormRuns
  <2> HIDE DEF change_account_password, required_transaction_for_mfa_session
  <2>2. Fresh \in Nat /\ accountChanges' \in Nat /\ keys' \in [Keys -> Admins \cup {Absent}]
    BY <1>2 DEF Fresh, Changing, AccountInv, AccountTypes
  <2>3. /\ admins' \in [Admins -> AdminRow \cup {Absent}] /\ admins'[a] # Absent
        /\ \A b \in Admins : b # a => admins'[b] = admins[b]
        /\ admins'[a].totp_enabled = admins[a].totp_enabled
        /\ admins'[a].last_step = admins[a].last_step
    BY <1>2, <2>1, <2>2 DEF AccountInv, AccountTypes
  <2>4. \A b \in Admins : KeysOf(b)' = KeysOf(b)
    BY <1>2 DEF KeysOf
  <2>5. accepted' \in [Admins -> SUBSET Nat] /\ accepted' = accepted /\ replayed' = FALSE
    BY <1>2 DEF AccountInv, AccountTypes
  <2>6. revoke_admin_auth_state(a)
    BY <1>2, <2>1
  <2> QED BY <2>1, <2>2, <2>3, <2>4, <2>5, <2>6, Presently, Revoked, Zenon
<1> QED BY <1>1, <1>2

\* The TOTP switch, off only with two keys, and the start of an enrolment:
\* the code is accepted once, the sessions stay.
LEMMA SwitchStep ==
  ASSUME AccountInv, NEW r \in LoginRequests, NEW enable \in BOOLEAN, NEW step \in TotpSteps,
         set_account_totp(r, enable, step)
  PROVE  AccountInv'
<1> USE DEF set_account_totp, required_transaction_for_mfa_session
<1>1. CASE UNCHANGED <<admins, keys, sessions, enrollments, accepted, replayed, accountChanges>>
  BY <1>1, FormRefused
<1>2. CASE /\ live_mfa_session(logins[r].token) /\ Owner(logins[r].token) = logins[r].admin
           /\ TotpSwitchable(logins[r], enable, step)
           /\ admins' = [admins EXCEPT ![logins[r].admin].totp_enabled = enable,
                           ![logins[r].admin].last_step = IF enable THEN @ ELSE step]
           /\ IF enable THEN UNCHANGED <<accepted, replayed>>
                        ELSE Accept(logins[r].admin, logins[r].generation, step)
           /\ UNCHANGED <<keys, sessions, enrollments, accountChanges>>
  <2>1. PICK a \in Admins :
          /\ a = logins[r].admin /\ admins[a] \in AdminRow /\ admins[a] # Absent
          /\ logins[r].generation = admins[a].generation
          /\ DOMAIN logins' = LoginRequests
          /\ \A s \in LoginRequests : logins'[s] # Absent => logins'[s] = logins[s]
    BY <1>2, FormRuns
  <2> HIDE DEF set_account_totp, required_transaction_for_mfa_session
  <2>2. /\ admins' \in [Admins -> AdminRow \cup {Absent}] /\ admins'[a] # Absent
        /\ \A b \in Admins : b # a => admins'[b] = admins[b]
        /\ admins'[a].password = admins[a].password
        /\ admins'[a].generation = admins[a].generation
        /\ admins'[a].active = admins[a].active
        /\ admins'[a].totp_enabled = enable
        /\ admins'[a].last_step = IF enable THEN admins[a].last_step ELSE step
    BY <1>2, <2>1, ZenonT(30) DEF AccountInv, AccountTypes
  <2>3. /\ replayed' = FALSE /\ accepted' \in [Admins -> SUBSET Nat]
        /\ \A b \in Admins : b # a => accepted'[b] = accepted[b]
        /\ \A s \in accepted'[a] : s <= admins'[a].last_step
    <3>1. CASE enable
      BY <1>2, <2>1, <2>2, <3>1, Presently, Zenon DEF AccountInv, AccountTypes
    <3>2. CASE ~enable
      <4>1. Accept(a, admins[a].generation, step) /\ admins[a].last_step < step
        BY <1>2, <2>1, <3>2 DEF TotpSwitchable, admin_totp_step_is_fresh
      <4> QED BY <2>1, <2>2, <3>2, <4>1, NewStep, ZenonT(30)
    <3> QED BY <3>1, <3>2, Zenon
  <2>4. admins'[a].totp_enabled \/ Cardinality(KeysOf(a)) >= 2
    BY <1>2, <2>1, <2>2, Zenon DEF TotpSwitchable
  <2>5. /\ enrollments' \in [Admins -> Nat \cup {Absent}] /\ accountChanges' \in Nat
        /\ UNCHANGED <<keys, sessions>>
    BY <1>2 DEF AccountInv, AccountTypes
  <2> QED BY <2>1, <2>2, <2>3, <2>4, <2>5, Presently, AmendedRow, Zenon
<1> QED BY <1>1, <1>2

\* An enrolment begins with a code of the present secret.
LEMMA StartEnrolmentStep ==
  ASSUME AccountInv, NEW r \in LoginRequests, NEW step \in TotpSteps, start_account_mfa(r, step)
  PROVE  AccountInv'
<1> USE DEF start_account_mfa, required_transaction_for_mfa_session
<1>1. CASE UNCHANGED <<admins, keys, sessions, enrollments, accepted, replayed, accountChanges>>
  BY <1>1, FormRefused
<1>2. CASE /\ live_mfa_session(logins[r].token) /\ Owner(logins[r].token) = logins[r].admin
           /\ admin_totp_step_is_fresh(logins[r].admin, step)
           /\ start_admin_mfa_enrollment(logins[r], step)
  <2>1. PICK a \in Admins :
          /\ a = logins[r].admin /\ admins[a] \in AdminRow /\ admins[a] # Absent
          /\ logins[r].generation = admins[a].generation
          /\ DOMAIN logins' = LoginRequests
          /\ \A s \in LoginRequests : logins'[s] # Absent => logins'[s] = logins[s]
    BY <1>2, FormRuns, Zenon
  <2> HIDE DEF start_account_mfa, required_transaction_for_mfa_session
  <2>2. /\ admins' = WithStep(a, step) /\ Accept(a, admins[a].generation, step)
        /\ admins[a].last_step < step
        /\ enrollments' = [enrollments EXCEPT ![a] = Fresh] /\ UNCHANGED <<keys, sessions>>
        /\ Changing
    BY <1>2, <2>1, Zenon DEF start_admin_mfa_enrollment, admin_totp_step_is_fresh
  <2>3. /\ admins' \in [Admins -> AdminRow \cup {Absent}] /\ admins'[a] # Absent
        /\ \A b \in Admins : b # a => admins'[b] = admins[b]
        /\ admins'[a].password = admins[a].password
        /\ admins'[a].generation = admins[a].generation
        /\ admins'[a].active = admins[a].active
        /\ admins'[a].totp_enabled = admins[a].totp_enabled
        /\ admins'[a].last_step = step
    BY <2>1, <2>2 DEF WithStep, AccountInv, AccountTypes
  <2>4. /\ replayed' = FALSE /\ accepted' \in [Admins -> SUBSET Nat]
        /\ \A b \in Admins : b # a => accepted'[b] = accepted[b]
        /\ \A s \in accepted'[a] : s <= admins'[a].last_step
    BY <2>1, <2>2, <2>3, NewStep, ZenonT(30)
  <2>5. /\ enrollments' \in [Admins -> Nat \cup {Absent}] /\ accountChanges' \in Nat
        /\ UNCHANGED <<keys, sessions>>
    BY <2>2 DEF AccountInv, AccountTypes, Fresh, Changing
  <2> QED BY <2>1, <2>3, <2>4, <2>5, Presently, AmendedRow, ZenonT(30)
<1> QED BY <1>1, <1>2, Zenon

\* A row with a new secret.
LEMMA SecretRow ==
  ASSUME AccountInv, NEW a \in Admins, admins[a] # Absent, NEW step \in Nat,
         admins' = [admins EXCEPT ![a] = WithSecret(a, step)]
  PROVE  /\ admins' \in [Admins -> AdminRow \cup {Absent}] /\ admins'[a] # Absent
         /\ \A b \in Admins : b # a => admins'[b] = admins[b]
         /\ admins'[a].totp_enabled /\ admins'[a].last_step = step
<1>1. admins \in [Admins -> AdminRow \cup {Absent}] /\ admins[a] \in AdminRow
  BY DEF AccountInv, AccountTypes
<1>2. /\ WithSecret(a, step) \in AdminRow
      /\ WithSecret(a, step).totp_enabled /\ WithSecret(a, step).last_step = step
  BY <1>1 DEF WithSecret
<1> QED BY <1>1, <1>2

\* An enrolment ends: a new secret ends the sessions of the old one.
LEMMA EndEnrolmentStep ==
  ASSUME AccountInv, NEW r \in LoginRequests, NEW step \in TotpSteps,
         activate_admin_mfa_enrollment_for_session(r, step)
  PROVE  AccountInv'
<1> USE DEF activate_admin_mfa_enrollment_for_session, required_transaction_for_mfa_session
<1>1. CASE UNCHANGED <<admins, keys, sessions, enrollments, accepted, replayed, accountChanges>>
  BY <1>1, FormRefused
<1>2. CASE /\ live_mfa_session(logins[r].token) /\ Owner(logins[r].token) = logins[r].admin
           /\ Changing
           /\ admins' = [admins EXCEPT ![logins[r].admin] = WithSecret(logins[r].admin, step)]
           /\ accepted' = [accepted EXCEPT ![logins[r].admin] = {step}]
           /\ revoke_admin_auth_state(logins[r].admin)
           /\ UNCHANGED <<keys, replayed>>
  <2>1. PICK a \in Admins :
          /\ a = logins[r].admin /\ admins[a] \in AdminRow /\ admins[a] # Absent
          /\ DOMAIN logins' = LoginRequests
          /\ \A s \in LoginRequests : logins'[s] # Absent => logins'[s] = logins[s]
    BY <1>2, FormRuns, Zenon
  <2> HIDE DEF activate_admin_mfa_enrollment_for_session, required_transaction_for_mfa_session
  <2>2. /\ admins' \in [Admins -> AdminRow \cup {Absent}] /\ admins'[a] # Absent
        /\ \A b \in Admins : b # a => admins'[b] = admins[b]
        /\ admins'[a].totp_enabled /\ admins'[a].last_step = step
    BY <1>2, <2>1, SecretRow, ZenonT(30)
  <2>3. \A b \in Admins : KeysOf(b)' = KeysOf(b)
    BY <1>2 DEF KeysOf
  <2>4. /\ accepted' \in [Admins -> SUBSET Nat] /\ accepted'[a] = {step}
        /\ \A b \in Admins : b # a => accepted'[b] = accepted[b]
    <3>1. accepted \in [Admins -> SUBSET Nat] /\ step \in Nat
      BY Zenon DEF AccountInv, AccountTypes
    <3>2. accepted' = [accepted EXCEPT ![a] = {step}]
      BY <1>2, <2>1
    <3> QED BY <3>1, <3>2
  <2>5. revoke_admin_auth_state(a)
    BY <1>2, <2>1
  <2>6. \A s \in accepted'[a] : s <= admins'[a].last_step
    BY <2>2, <2>4
  <2>7. keys' \in [Keys -> Admins \cup {Absent}] /\ accountChanges' \in Nat /\ replayed' = FALSE
    BY <1>2 DEF AccountInv, AccountTypes, Changing
  <2>8. /\ \A b \in Admins : b # a => accepted'[b] = accepted[b]
        /\ \A b \in Admins : b # a => admins'[b] = admins[b] /\ KeysOf(b)' = KeysOf(b)
        /\ admins'[a].totp_enabled \/ Cardinality(KeysOf(a)') >= 2
        /\ accepted' \in [Admins -> SUBSET Nat]
    BY <2>2, <2>3, <2>4
  <2> QED BY <2>1, <2>2, <2>5, <2>6, <2>7, <2>8, Revoked, Zenon
<1> QED BY <1>1, <1>2

\* A key is registered for the owner of a session that is live; nobody loses
\* one.
LEMMA RegisterStep ==
  ASSUME AccountInv, NEW t \in LoginTokens, NEW k \in Keys, finish_security_key_registration(t, k)
  PROVE  AccountInv'
<1> USE DEF finish_security_key_registration, add_admin_webauthn_credential
<1>1. AccountTypes'
  BY DEF AccountInv, AccountTypes, Carried, live_mfa_session, SignedIn, Owner
<1>2. /\ \A a \in Admins : KeysOf(a) \subseteq KeysOf(a)' /\ IsFiniteSet(KeysOf(a)')
      /\ \A a \in Admins : IsFiniteSet(KeysOf(a))
  <2>1. \A a \in Admins : KeysOf(a) \subseteq KeysOf(a)'
    BY DEF AccountInv, AccountTypes, KeysOf
  <2>2. \A a \in Admins : KeysOf(a) \subseteq Keys /\ KeysOf(a)' \subseteq Keys
    BY DEF KeysOf
  <2> QED BY <2>1, <2>2, FS_Subset
<1>3. SecondFactorKept'
  <2> SUFFICES ASSUME NEW a \in Admins, admins'[a] # Absent
               PROVE  admins'[a].totp_enabled \/ Cardinality(KeysOf(a)') >= 2
    BY DEF SecondFactorKept
  <2>1. admins[a].totp_enabled \/ Cardinality(KeysOf(a)) >= 2
    BY DEF AccountInv, SecondFactorKept
  <2>2. /\ Cardinality(KeysOf(a)) <= Cardinality(KeysOf(a)')
        /\ Cardinality(KeysOf(a)) \in Nat /\ Cardinality(KeysOf(a)') \in Nat
    BY <1>2, FS_Subset, FS_CardinalityType
  <2> QED BY <2>1, <2>2
<1>4. SessionsCurrent'
  <2> SUFFICES ASSUME NEW u \in LoginTokens, sessions'[u] # Absent
               PROVE  Current(sessions[u])'
    BY DEF SessionsCurrent
  <2>1. /\ sessions[u] # Absent /\ Current(sessions[u]) /\ sessions[u].admin \in Admins
        /\ sessions'[u].admin = sessions[u].admin /\ sessions'[u].password = sessions[u].password
        /\ sessions'[u].verified = sessions[u].verified
    BY DEF AccountInv, AccountTypes, SessionsCurrent, live_mfa_session, SignedIn
  <2> QED BY <1>2, <2>1 DEF Current, IsActive
<1>5. CarriedCurrent'
  <2>1. \A u \in LoginTokens : sessions'[u] # Absent =>
          sessions[u] # Absent /\ sessions'[u].admin = sessions[u].admin
    BY DEF AccountInv, AccountTypes, live_mfa_session, SignedIn
  <2> QED BY <2>1 DEF AccountInv, AccountTypes, CarriedCurrent, Carried
<1>6. AcceptedSteps'
  BY DEF AccountInv, AcceptedSteps
<1> QED BY <1>1, <1>3, <1>4, <1>5, <1>6 DEF AccountInv

\* A row that is switched on or off keeps its credentials.
LEMMA ActivityRow ==
  ASSUME AccountInv, NEW a \in Admins, admins[a] # Absent, NEW on \in BOOLEAN,
         admins' = [admins EXCEPT ![a].active = on]
  PROVE  /\ admins' \in [Admins -> AdminRow \cup {Absent}] /\ admins'[a] # Absent
         /\ \A b \in Admins : b # a => admins'[b] = admins[b]
         /\ admins'[a].password = admins[a].password
         /\ admins'[a].generation = admins[a].generation
         /\ admins'[a].active = on
         /\ admins'[a].totp_enabled = admins[a].totp_enabled
         /\ admins'[a].last_step = admins[a].last_step
  BY DEF AccountInv, AccountTypes

\* What other administrators do from a live session.
LEMMA ManageStep ==
  ASSUME AccountInv, NEW t \in LoginTokens, NEW a \in Admins,
         \/ create_admin(t, a) \/ reset_admin_password(t, a)
         \/ deactivate_admin(t, a) \/ activate_admin(t, a)
  PROVE  AccountInv'
<1>1. /\ admins \in [Admins -> AdminRow \cup {Absent}] /\ keys \in [Keys -> Admins \cup {Absent}]
      /\ accepted \in [Admins -> SUBSET Nat] /\ accountChanges \in Nat /\ replayed = FALSE
      /\ DOMAIN logins = LoginRequests /\ enrollments \in [Admins -> Nat \cup {Absent}]
  BY DEF AccountInv, AccountTypes
<1>2. CASE create_admin(t, a)
  <2>1. NewAdmin(Fresh) \in AdminRow
    BY <1>1 DEF NewAdmin, Fresh
  <2>2. /\ admins[a] = Absent /\ admins' = [admins EXCEPT ![a] = NewAdmin(Fresh)]
        /\ UNCHANGED <<keys, sessions, enrollments, logins, accepted, replayed>>
        /\ accountChanges' \in Nat /\ NewAdmin(Fresh).totp_enabled
    BY <1>1, <1>2 DEF create_admin, Changing, NewAdmin
  <2>3. AccountTypes'
    BY <2>1, <2>2, ZenonT(30) DEF AccountInv, AccountTypes, Carried
  <2>4. SessionsCurrent'
    <3> SUFFICES ASSUME NEW u \in LoginTokens, sessions'[u] # Absent
                 PROVE  Current(sessions[u])'
      BY DEF SessionsCurrent
    <3>1. Current(sessions[u]) /\ sessions[u].admin \in Admins
      BY <2>2, ZenonT(30) DEF AccountInv, AccountTypes, SessionsCurrent
    <3>2. sessions[u].admin # a
      BY <2>2, <3>1 DEF Current, IsActive
    <3> QED BY <1>1, <2>2, <3>1, <3>2 DEF Current, IsActive, KeysOf
  <2>5. CarriedCurrent'
    <3>1. \A u \in LoginTokens : sessions[u] # Absent => sessions[u].admin # a
      BY <2>2 DEF AccountInv, SessionsCurrent, Current, IsActive
    <3> QED BY <1>1, <2>2, <3>1, ZenonT(30) DEF AccountInv, AccountTypes, CarriedCurrent, Carried
  <2>6. AcceptedSteps'
    BY <1>1, <2>2, Zenon DEF AccountInv, AcceptedSteps
  <2>7. SecondFactorKept'
    BY <1>1, <2>2 DEF AccountInv, SecondFactorKept, KeysOf
  <2> QED BY <2>3, <2>4, <2>5, <2>6, <2>7 DEF AccountInv
<1>3. CASE reset_admin_password(t, a) \/ deactivate_admin(t, a)
  <2>1. Fresh \in Nat /\ admins[a] \in AdminRow
    BY <1>1, <1>3 DEF Fresh, reset_admin_password, deactivate_admin
  <2>2. /\ admins[a] # Absent /\ UNCHANGED <<keys, logins, accepted, replayed>>
        /\ revoke_admin_auth_state(a) /\ accountChanges' \in Nat
    BY <1>1, <1>3 DEF reset_admin_password, deactivate_admin, Changing
  <2>3. /\ admins' \in [Admins -> AdminRow \cup {Absent}] /\ admins'[a] # Absent
        /\ \A b \in Admins : b # a => admins'[b] = admins[b]
        /\ admins'[a].totp_enabled = admins[a].totp_enabled
        /\ admins'[a].last_step = admins[a].last_step
    <3>1. CASE reset_admin_password(t, a)
      BY <1>1, <2>1, <3>1 DEF reset_admin_password
    <3>2. CASE deactivate_admin(t, a)
      BY <1>1, <2>1, <2>2, <3>2, ActivityRow, Zenon DEF deactivate_admin
    <3> QED BY <1>3, <3>1, <3>2
  <2>4. \A b \in Admins : KeysOf(b)' = KeysOf(b)
    BY <2>2 DEF KeysOf
  <2> QED BY <1>1, <2>2, <2>3, <2>4, Presently, Revoked, Zenon
<1>4. CASE activate_admin(t, a)
  <2>1. /\ admins[a] # Absent
        /\ UNCHANGED <<keys, sessions, enrollments, logins, accepted, replayed, accountChanges>>
    BY <1>4 DEF activate_admin
  <2>2. /\ admins' \in [Admins -> AdminRow \cup {Absent}] /\ admins'[a] # Absent
        /\ \A b \in Admins : b # a => admins'[b] = admins[b]
        /\ admins'[a].password = admins[a].password
        /\ admins'[a].generation = admins[a].generation
        /\ admins'[a].active
        /\ admins'[a].totp_enabled = admins[a].totp_enabled
        /\ admins'[a].last_step = admins[a].last_step
    BY <2>1, <1>4, ActivityRow, Zenon DEF activate_admin
  <2> QED BY <1>1, <2>1, <2>2, Presently, AmendedRow, Zenon
<1> QED BY <1>2, <1>3, <1>4

\* Taking an administrator's keys leaves those of the others.
LEMMA KeysTaken ==
  ASSUME AccountTypes, NEW a \in Admins, keys' = KeysWithout(a)
  PROVE  /\ keys' \in [Keys -> Admins \cup {Absent}]
         /\ \A b \in Admins : b # a => KeysOf(b)' = KeysOf(b)
  BY DEF AccountTypes, KeysWithout, KeysOf

\* The second factor of an administrator is reset, by another one or from the
\* console: a new secret, no keys, no sessions.
LEMMA ResetStep ==
  ASSUME AccountInv, NEW a \in Admins, admins[a] # Absent,
         admins' = [admins EXCEPT ![a] = ResetFactors(a)],
         keys' = KeysWithout(a), accepted' = [accepted EXCEPT ![a] = {}],
         revoke_admin_auth_state(a), Changing, UNCHANGED <<logins, replayed>>
  PROVE  AccountInv'
<1>1. /\ keys' \in [Keys -> Admins \cup {Absent}]
      /\ \A b \in Admins : b # a => KeysOf(b)' = KeysOf(b)
  BY KeysTaken DEF AccountInv
<1>2. /\ admins' \in [Admins -> AdminRow \cup {Absent}] /\ admins'[a] # Absent
      /\ \A b \in Admins : b # a => admins'[b] = admins[b]
      /\ admins'[a].totp_enabled
  BY SecretRow, Zenon DEF ResetFactors
<1>3. /\ accepted' \in [Admins -> SUBSET Nat] /\ accepted'[a] = {}
      /\ \A b \in Admins : b # a => accepted'[b] = accepted[b]
      /\ replayed' = FALSE /\ accountChanges' \in Nat /\ DOMAIN logins' = LoginRequests
  BY DEF AccountInv, AccountTypes, Changing
<1> QED BY <1>1, <1>2, <1>3, Revoked, Zenon

LEMMA ResetTotpStep ==
  ASSUME AccountInv, NEW t \in LoginTokens, NEW a \in Admins, reset_admin_totp(t, a)
  PROVE  AccountInv'
  BY ResetStep, Zenon DEF reset_admin_totp

LEMMA RecoverStep ==
  ASSUME AccountInv, NEW a \in Admins, NEW password \in BOOLEAN, NEW totp \in BOOLEAN,
         recover_admin(a, password, totp)
  PROVE  AccountInv'
<1> USE DEF recover_admin
<1>1. CASE totp /\ ~password
  BY <1>1, ResetStep, Zenon
<1>2. CASE password
  <2> DEFINE row == IF totp THEN ResetFactors(a) ELSE admins[a]
             renewed == [row EXCEPT !.password = Fresh]
  <2>1. /\ admins \in [Admins -> AdminRow \cup {Absent}] /\ admins[a] \in AdminRow
        /\ accepted \in [Admins -> SUBSET Nat] /\ accountChanges \in Nat /\ replayed = FALSE
        /\ DOMAIN logins = LoginRequests /\ keys \in [Keys -> Admins \cup {Absent}]
        /\ \A s \in accepted[a] : s <= admins[a].last_step
        /\ admins[a].totp_enabled \/ Cardinality(KeysOf(a)) >= 2
    BY Presently, Zenon DEF AccountInv, AccountTypes
  <2>2. row \in AdminRow /\ Fresh \in Nat
    BY <2>1 DEF ResetFactors, WithSecret, Fresh
  <2>3. /\ totp => row.totp_enabled
        /\ ~totp => row = admins[a]
    BY DEF ResetFactors, WithSecret
  <2>4. admins' = [admins EXCEPT ![a] = renewed]
    BY <1>2
  <2> HIDE DEF row
  <2>5. /\ renewed \in AdminRow /\ renewed.totp_enabled = row.totp_enabled
        /\ renewed.last_step = row.last_step
    BY <2>2
  <2> HIDE DEF renewed
  <2>6. /\ admins' \in [Admins -> AdminRow \cup {Absent}] /\ admins'[a] # Absent
        /\ \A b \in Admins : b # a => admins'[b] = admins[b]
        /\ admins'[a] = renewed
    BY <2>1, <2>4, <2>5
  <2>7. /\ revoke_admin_auth_state(a) /\ DOMAIN logins' = LoginRequests /\ replayed' = FALSE
        /\ accountChanges' \in Nat /\ logins' = logins
    BY <2>1 DEF Changing
  <2>8. CASE totp
    <3>1. /\ keys' \in [Keys -> Admins \cup {Absent}]
          /\ \A b \in Admins : b # a => KeysOf(b)' = KeysOf(b)
      BY <2>8, KeysTaken DEF AccountInv
    <3>2. /\ accepted' \in [Admins -> SUBSET Nat] /\ accepted'[a] = {}
          /\ \A b \in Admins : b # a => accepted'[b] = accepted[b]
      BY <2>1, <2>8
    <3> QED BY <2>3, <2>5, <2>6, <2>7, <2>8, <3>1, <3>2, Revoked, Zenon
  <2>9. CASE ~totp
    <3>1. \A b \in Admins : KeysOf(b)' = KeysOf(b)
      BY <2>9 DEF KeysOf
    <3>2. keys' = keys /\ accepted' = accepted
      BY <2>9
    <3> QED BY <2>1, <2>3, <2>5, <2>6, <2>7, <2>9, <3>1, <3>2, Revoked, ZenonT(30)
  <2> QED BY <2>8, <2>9
<1> QED BY <1>1, <1>2

LEMMA AccountInitInv == AccountsInit => AccountInv
<1> SUFFICES ASSUME AccountsInit PROVE AccountInv
  OBVIOUS
<1>1. \A a \in Admins : admins[a] # Absent => admins[a] = NewAdmin(0)
  BY DEF AccountsInit
<1>2. NewAdmin(0) \in AdminRow /\ NewAdmin(0).totp_enabled
  BY DEF NewAdmin
<1>3. AccountTypes
  BY <1>2 DEF AccountTypes, AccountsInit
<1> QED BY <1>1, <1>2, <1>3 DEF AccountInv, SessionsCurrent, CarriedCurrent, AcceptedSteps,
      SecondFactorKept, AccountsInit

LEMMA AccountStepInv == AccountInv /\ [AccountsNext]_accountVars => AccountInv'
<1> SUFFICES ASSUME AccountInv, [AccountsNext]_accountVars
             PROVE  AccountInv'
  OBVIOUS
<1>1. CASE UNCHANGED accountVars
  <2>1. AccountTypes' /\ CarriedCurrent'
    BY <1>1, Zenon DEF accountVars, AccountInv, AccountTypes, Carried, CarriedCurrent
  <2>2. SessionsCurrent' /\ AcceptedSteps' /\ SecondFactorKept'
    BY <1>1, Zenon DEF accountVars, AccountInv, SessionsCurrent, Current, AcceptedSteps, SecondFactorKept,
      IsActive, KeysOf
  <2> QED BY <2>1, <2>2 DEF AccountInv
<1>2. ASSUME NEW r \in LoginRequests, LoginNext(r) \/ AccountNext(r)
      PROVE  AccountInv'
  BY <1>2, CarryStep, CreateSessionStep, SignInStep, ResponseStep, DeleteKeyStep, SwitchStep,
    ChangePasswordStep, StartEnrolmentStep, EndEnrolmentStep DEF LoginNext, AccountNext
<1>3. ASSUME NEW t \in LoginTokens, SessionNext(t)
      PROVE  AccountInv'
  BY <1>3, SessionStep, RegisterStep, ManageStep, ResetTotpStep DEF SessionNext
<1> QED BY <1>1, <1>2, <1>3, EnrolmentExpiresStep, RecoverStep DEF AccountsNext

HIDE AccountsAssumption DEF AdminRow, SessionRow, Verification, Ceremony

\* Sessions, second factors and codes stay consistent with the account, however
\* many administrators, tokens, keys and handlers there are and in whatever
\* order the reads and transactions of db/auth and web/account.rs run.
THEOREM CredentialsStayConsistent == AccountsSpec => []CredentialsConsistent
<1>1. AccountInv => CredentialsConsistent
  BY DEF AccountInv, AccountTypes, SessionsCurrent, Current, CredentialsConsistent,
    SessionFactorsCurrent, TotpCodeAcceptedOnce
<1> QED BY <1>1, AccountInitInv, AccountStepInv, PTL DEF AccountsSpec
=============================================================================
