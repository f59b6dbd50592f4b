----------------------------- MODULE MCPlatform -----------------------------
(* What lies behind the public side, side by side: the database queue, login *)
(* limits, accounts, settings, the audit trail, listings and their pages,    *)
(* the first setup, keys and updates.  The components share no variable:     *)
(* `part` picks the one that moves, so TLC explores each of them completely  *)
(* and not their product.  Accounts come twice: two administrators with two  *)
(* keys, one handler at a time between its read and its transaction and one  *)
(* TOTP step ("accounts"), and one administrator with three keys and two     *)
(* handlers that race ("races").                                             *)
EXTENDS DatabaseAdmission, LoginLimiter, Accounts, RuntimeSettings, AuditTrail,
        ShareListing, DirectoryPages, InitialSetup, Keyring, UpdateControl

CONSTANTS a1, a2, b1, b2, c1, c2,       \* interchangeable in each pair
          c3, r1, r2

A == {a1, a2}
B == {b1, b2}
C == {c1, c2}
Symmetry == Permutations(A) \cup Permutations(B) \cup Permutations(C)

MCJobs == A \cup B
MCKeys == C \cup {c3}
MCForm == [config |-> "c1", user |-> "u1", password |-> "p1"]
MCForms == {MCForm, [MCForm EXCEPT !.config = "c2"], [MCForm EXCEPT !.user = "u2"],
            [MCForm EXCEPT !.password = "p2"]}

VARIABLE part

Parts == {"admission", "limiter", "accounts", "races", "settings", "audit", "listing", "walk",
          "pages", "setup", "keyring", "updates"}

\* What a component that does not move starts from makes no difference.
Still(name, condition) == part # name => condition

MCInit ==
  /\ part \in Parts
  /\ AdmissionInit
  /\ LimiterInit /\ Still("limiter", \A k \in LimiterKeys : hash[k] = 1)
  /\ AccountsInit
  /\ CASE part = "accounts" -> keys[c3] = Absent
       [] part = "races" -> \E a \in Admins : admins[a] = Absent
       [] OTHER -> (\A a \in Admins : admins[a] # Absent) /\ (\A k \in Keys : keys[k] = Absent)
  /\ RuntimeSettingsInit
  /\ AuditInit /\ Still("audit", logging.snapshot)
  /\ ShareListingInit /\ Still("listing", /\ \A i \in ShareRows : table[i] = "gone"
                                          /\ viewer.route = "shares" /\ viewer.order = "newest"
                                          /\ viewer.status = "active")
  /\ DirectoryPagesInit /\ Still("walk", folder = {})
  /\ AuditPagesInit /\ Still("pages", last_id = 0)
  /\ InitialSetupInit
  /\ KeyringInit /\ Still("keyring", schema)
  /\ UpdateInit

MCNext ==
  \/ /\ part = "admission" /\ AdmissionNext
     /\ UNCHANGED <<limiterVars, accountVars, settingsVars, auditVars, listingVars, pageWalkVars,
                    auditPageVars, setupVars, keyringVars, updateVars>>
  \/ /\ part = "limiter" /\ LimiterNext
     /\ UNCHANGED <<admissionVars, accountVars, settingsVars, auditVars, listingVars,
                    pageWalkVars, auditPageVars, setupVars, keyringVars, updateVars>>
  \/ /\ part \in {"accounts", "races"} /\ AccountsNext
     /\ part = "accounts" => /\ logins'[r2] = Absent /\ keys'[c3] = Absent
                             /\ \A a \in Admins : 2 \notin accepted'[a]
     /\ part = "races" => UNCHANGED accountChanges
     /\ UNCHANGED <<admissionVars, limiterVars, settingsVars, auditVars, listingVars,
                    pageWalkVars, auditPageVars, setupVars, keyringVars, updateVars>>
  \/ /\ part = "settings" /\ RuntimeSettingsNext
     /\ UNCHANGED <<admissionVars, limiterVars, accountVars, auditVars, listingVars, pageWalkVars,
                    auditPageVars, setupVars, keyringVars, updateVars>>
  \/ /\ part = "audit" /\ AuditNext
     /\ UNCHANGED <<admissionVars, limiterVars, accountVars, settingsVars, listingVars,
                    pageWalkVars, auditPageVars, setupVars, keyringVars, updateVars>>
  \/ /\ part = "listing" /\ ShareListingNext
     /\ UNCHANGED <<admissionVars, limiterVars, accountVars, settingsVars, auditVars,
                    pageWalkVars, auditPageVars, setupVars, keyringVars, updateVars>>
  \/ /\ part = "walk" /\ DirectoryPagesNext
     /\ UNCHANGED <<admissionVars, limiterVars, accountVars, settingsVars, auditVars, listingVars,
                    auditPageVars, setupVars, keyringVars, updateVars>>
  \/ /\ part = "pages" /\ AuditPagesNext
     /\ UNCHANGED <<admissionVars, limiterVars, accountVars, settingsVars, auditVars, listingVars,
                    pageWalkVars, setupVars, keyringVars, updateVars>>
  \/ /\ part = "setup" /\ InitialSetupNext
     /\ UNCHANGED <<admissionVars, limiterVars, accountVars, settingsVars, auditVars, listingVars,
                    pageWalkVars, auditPageVars, keyringVars, updateVars>>
  \/ /\ part = "keyring" /\ KeyringNext
     /\ UNCHANGED <<admissionVars, limiterVars, accountVars, settingsVars, auditVars, listingVars,
                    pageWalkVars, auditPageVars, setupVars, updateVars>>
  \/ /\ part = "updates" /\ UpdateNext
     /\ UNCHANGED <<admissionVars, limiterVars, accountVars, settingsVars, auditVars, listingVars,
                    pageWalkVars, auditPageVars, setupVars, keyringVars>>

mcVars ==
  <<part, admissionVars, limiterVars, accountVars, settingsVars, auditVars, listingVars,
    pageWalkVars, auditPageVars, setupVars, keyringVars, updateVars>>
MCSpec == MCInit /\ [][MCNext /\ UNCHANGED part]_mcVars

-----------------------------------------------------------------------------
\* A reader who turns the pages of a listing is shown every entry that stays
\* in it (list_directory_cursor_page, list_share_page, list_monitoring_share_page,
\* audit_page), and a page of the audit trail asked for by its number is that page.
ListingsComplete == WalkMissesNothing /\ WalkShowsAvailable /\ AuditWalkHasNoGap /\ OffsetPageExact
=============================================================================
