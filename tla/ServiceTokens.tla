--------------------------- MODULE ServiceTokens ---------------------------
(***************************************************************************)
(* Service tokens for monitoring (src/db/service_tokens/*.rs,              *)
(* src/web/service_tokens.rs, src/api/service_tokens.rs,                   *)
(* authorize_monitoring in src/http_auth/cookies.rs).  An administrator    *)
(* creates a token after a check of their password; a monitoring request   *)
(* looks its token up and marks the row it found as used in a second       *)
(* statement, outside any transaction.                                     *)
(***************************************************************************)
EXTENDS Naturals, FiniteSets, FiniteSetsExt

CONSTANTS
  Creations,         \* requests that create a token
  Probes,            \* monitoring requests
  TokenNames,
  MaxTokens,         \* MAX_SERVICE_TOKENS
  LastTokenId,       \* bound on the ids handed out
  MaxPasswords,      \* bound on the changes of the password
  NoToken

TokenIds == 1..LastTokenId
TokenRow == [name : TokenNames, expires : BOOLEAN, expired : BOOLEAN, used : BOOLEAN]
FoundToken == [id : TokenIds, stale : BOOLEAN]

ASSUME TokenAssumption ==
  /\ MaxTokens \in Nat \ {0} /\ LastTokenId \in Nat \ {0}
  /\ NoToken \notin TokenRow /\ NoToken \notin FoundToken

VARIABLES
  rows,      \* id -> the row of service_tokens, or NoToken
  sequence,  \* sqlite_sequence of the table
  password,  \* the administrator's password_hash, as a version
  creation,  \* creation -> the verified hash it carries, or NoToken
  authorizing,    \* monitoring request -> what its SELECT returned, or NoToken
  presented  \* ids whose own token a request was authorized with

tokenVars == <<rows, sequence, password, creation, authorizing, presented>>

ServiceTokensInit ==
  /\ rows = [i \in TokenIds |-> NoToken]
  /\ sequence = 0
  /\ password = 1
  /\ creation = [c \in Creations |-> NoToken]
  /\ authorizing = [p \in Probes |-> NoToken]
  /\ presented = {}

Issued == {i \in TokenIds : rows[i] # NoToken}

\* The handler up to verify_password_admitted: the hash is read and checked
\* before the transaction.
create_service_token(c) ==
  /\ creation[c] = NoToken
  /\ creation' = [creation EXCEPT ![c] = password]
  /\ UNCHANGED <<rows, sequence, password, authorizing, presented>>

\* Mutant: INTEGER PRIMARY KEY alone takes the id after the largest present one.
AfterLargest(last) == Max(Issued \cup {0}) + 1

\* AUTOINCREMENT: an id is never handed out twice.
NextTokenId(last) == last + 1

MayCreate(c, name) ==
  /\ creation[c] = password
  /\ \A i \in Issued : rows[i].name # name
  /\ Cardinality(Issued) < MaxTokens

\* The transaction; every other answer leaves the table alone.
create_service_token_for_mfa_session(c, name, expires) ==
  /\ creation[c] # NoToken
  /\ creation' = [creation EXCEPT ![c] = NoToken]
  /\ \/ /\ MayCreate(c, name) /\ NextTokenId(sequence) \in TokenIds
        /\ LET id == NextTokenId(sequence) IN
             /\ rows' = [rows EXCEPT ![id] =
                  [name |-> name, expires |-> expires, expired |-> FALSE,
                   used |-> FALSE]]
             /\ sequence' = IF id > sequence THEN id ELSE sequence
             /\ presented' = presented \ {id}
     \/ ~MayCreate(c, name) /\ UNCHANGED <<rows, sequence, presented>>
  /\ UNCHANGED <<password, authorizing>>

\* change_admin_password_cas or reset_admin_password.
ChangePassword ==
  /\ password < MaxPasswords
  /\ password' = password + 1
  /\ UNCHANGED <<rows, sequence, creation, authorizing, presented>>

-----------------------------------------------------------------------------
\* The SELECT of authorize_service_token: the row of the presented token, not
\* expired, with its scope.  `stale` says whether last_used_at asks for a touch.
authorize_service_token(p, id) ==
  /\ authorizing[p] = NoToken
  /\ rows[id] # NoToken /\ ~rows[id].expired
  /\ authorizing' = [authorizing EXCEPT ![p] = [id |-> id, stale |-> ~rows[id].used]]
  /\ presented' = presented \cup {id}
  /\ UNCHANGED <<rows, sequence, password, creation>>

\* The guarded UPDATE by id, and the answer.
TouchToken(p) ==
  /\ authorizing[p] # NoToken
  /\ LET id == authorizing[p].id IN
       rows' = IF /\ authorizing[p].stale /\ rows[id] # NoToken
                  /\ ~rows[id].expired /\ ~rows[id].used
               THEN [rows EXCEPT ![id].used = TRUE]
               ELSE rows
  /\ authorizing' = [authorizing EXCEPT ![p] = NoToken]
  /\ UNCHANGED <<sequence, password, creation, presented>>

\* The touch interval passes: the mark no longer counts as recent.
TouchIntervalOver(id) ==
  /\ rows[id] # NoToken /\ rows[id].used
  /\ rows' = [rows EXCEPT ![id].used = FALSE]
  /\ UNCHANGED <<sequence, password, creation, authorizing, presented>>

TokenExpires(id) ==
  /\ rows[id] # NoToken /\ rows[id].expires /\ ~rows[id].expired
  /\ rows' = [rows EXCEPT ![id].expired = TRUE]
  /\ UNCHANGED <<sequence, password, creation, authorizing, presented>>

revoke_service_token_for_mfa_session(id) ==
  /\ rows[id] # NoToken
  /\ rows' = [rows EXCEPT ![id] = NoToken]
  /\ UNCHANGED <<sequence, password, creation, authorizing, presented>>

\* The recovery command line.
revoke_all_service_tokens_and_audit ==
  /\ Issued # {}
  /\ rows' = [i \in TokenIds |-> NoToken]
  /\ UNCHANGED <<sequence, password, creation, authorizing, presented>>

ServiceTokensNext ==
  \/ \E c \in Creations :
       \/ create_service_token(c)
       \/ \E name \in TokenNames, expires \in BOOLEAN :
            create_service_token_for_mfa_session(c, name, expires)
  \/ ChangePassword
  \/ \E p \in Probes :
       TouchToken(p) \/ \E id \in TokenIds : authorize_service_token(p, id)
  \/ \E id \in TokenIds :
       \/ TouchIntervalOver(id) \/ TokenExpires(id)
       \/ revoke_service_token_for_mfa_session(id)
  \/ revoke_all_service_tokens_and_audit

ServiceTokensSpec == ServiceTokensInit /\ [][ServiceTokensNext]_tokenVars

-----------------------------------------------------------------------------
\* A row shows a use only after a request presented the token of that very row:
\* the touch, which names its row by id alone, never marks a token that was
\* created after the one it looked up was revoked.
UseIsOwn ==
  \A i \in Issued : rows[i].used => i \in presented
=============================================================================
