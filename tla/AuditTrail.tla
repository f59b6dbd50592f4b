----------------------------- MODULE AuditTrail -----------------------------
(***************************************************************************)
(* The audit trail (src/db/audit.rs, src/db/required_audit.rs,             *)
(* src/server/audit_worker.rs): events that are written inside a           *)
(* transaction, the retention that bounds their number in batches, and the *)
(* addresses of clients, which are recorded only while the settings say    *)
(* so.  A request decides from the snapshot in memory whether it carries   *)
(* its address along; the transaction that writes the event asks the table *)
(* again.                                                                  *)
(***************************************************************************)
EXTENDS Naturals, Sequences, FiniteSets, FiniteSetsExt

CONSTANTS
  Observers,      \* requests that write an event
  Passes,         \* calls of cleanup_audit_retention
  MaxAuditRows,   \* MAX_AUDIT_ROWS
  BatchSize,      \* BATCH_SIZE
  TableLimit,     \* bound on the rows
  Unset           \* no row of the setting

ASSUME AuditAssumption ==
  /\ {MaxAuditRows, BatchSize, TableLimit} \subseteq Nat
  /\ BatchSize > 0 /\ Unset \notin BOOLEAN

VARIABLES
  audit,    \* the rows in the order of their ids
  logging,  \* audit_client_ip_enabled: in the table (or Unset) and in the snapshot
  event,    \* observer -> whether it carries an address, or Unset
  pass,     \* pass -> rows it still means to delete, or Unset
  purged    \* the addresses were deleted and recording has not been enabled since

auditVars == <<audit, logging, event, pass, purged>>

\* Without a row the configuration file decides.
AuditInit ==
  /\ audit = <<>>
  /\ logging \in [table : {Unset}, snapshot : BOOLEAN]
  /\ event = [o \in Observers |-> Unset]
  /\ pass = [p \in Passes |-> Unset]
  /\ purged = FALSE

-----------------------------------------------------------------------------
\* enabled_audit_client_ip, before the database is asked for.
enabled_audit_client_ip(o) ==
  /\ event[o] = Unset
  /\ event' = [event EXCEPT ![o] = logging.snapshot]
  /\ UNCHANGED <<audit, logging, pass, purged>>

\* Mutant: the address the request came with is written.
CarriedAlong(fallback) == fallback

persisted_audit_client_ip_enabled(fallback) ==
  IF logging.table = Unset THEN fallback ELSE logging.table

Row(security, carried) ==
  [security |-> security, ip |-> carried /\ persisted_audit_client_ip_enabled(carried)]

\* insert_audit_event of an observation or of a required event.
insert_audit_event(o, security) ==
  /\ event[o] # Unset /\ Len(audit) < TableLimit
  /\ audit' = Append(audit, Row(security, event[o]))
  /\ event' = [event EXCEPT ![o] = Unset]
  /\ UNCHANGED <<logging, pass, purged>>

\* The event of a change of the settings belongs to its transaction, which has the
\* new value already; the snapshot changes with it (see RuntimeSettings).
replace_runtime_settings(enabled) ==
  /\ Len(audit) < TableLimit
  /\ logging' = [table |-> enabled, snapshot |-> enabled]
  /\ audit' = Append(audit, [security |-> TRUE, ip |-> enabled])
  /\ purged' = (purged /\ ~enabled)
  /\ UNCHANGED <<event, pass>>

\* delete_audit_client_ips: refused while addresses are recorded.
delete_audit_client_ips(o) ==
  /\ event[o] # Unset /\ Len(audit) < TableLimit
  /\ ~persisted_audit_client_ip_enabled(logging.snapshot)
  /\ audit' = Append([i \in DOMAIN audit |-> [audit[i] EXCEPT !.ip = FALSE]], Row(TRUE, event[o]))
  /\ event' = [event EXCEPT ![o] = Unset]
  /\ purged' = TRUE
  /\ UNCHANGED <<logging, pass>>

-----------------------------------------------------------------------------
(* cleanup_audit_retention                                                 *)

\* Mutant: two passes may run at the same time.
Unserialized == TRUE

\* The guard that serializes the passes.
audit_retention_guard == \A p \in Passes : pass[p] = Unset

CountRows(p) ==
  /\ pass[p] = Unset /\ audit_retention_guard
  /\ Len(audit) > MaxAuditRows
  /\ pass' = [pass EXCEPT ![p] = Len(audit) - MaxAuditRows]
  /\ UNCHANGED <<audit, logging, event, purged>>

\* The rows of a batch: routine events first, then the oldest.
Batch(size) ==
  LET goesBefore(i, j) ==
        (~audit[i].security /\ audit[j].security)
          \/ (audit[i].security = audit[j].security /\ i < j)
  IN {i \in DOMAIN audit : Cardinality({j \in DOMAIN audit : goesBefore(j, i)}) < size}

RowsWithout(gone) ==
  LET kept == DOMAIN audit \ gone
      Place(i) == CHOOSE j \in kept : Cardinality({k \in kept : k < j}) = i - 1
  IN [i \in 1 .. Cardinality(kept) |-> audit[Place(i)]]
Lower(m, n) == IF m < n THEN m ELSE n

\* Other writers come between the batches.
DeleteBatch(p) ==
  /\ pass[p] # Unset
  /\ LET gone == Batch(Lower(pass[p], BatchSize))
         left == pass[p] - Cardinality(gone)
     IN /\ audit' = RowsWithout(gone)
        /\ pass' = [pass EXCEPT ![p] = IF left = 0 \/ gone = {} THEN Unset ELSE left]
  /\ UNCHANGED <<logging, event, purged>>

RetentionFails(p) ==
  /\ pass[p] # Unset
  /\ pass' = [pass EXCEPT ![p] = Unset]
  /\ UNCHANGED <<audit, logging, event, purged>>

AuditNext ==
  \/ \E o \in Observers :
       \/ enabled_audit_client_ip(o) \/ delete_audit_client_ips(o)
       \/ \E security \in BOOLEAN : insert_audit_event(o, security)
  \/ \E enabled \in BOOLEAN : replace_runtime_settings(enabled)
  \/ \E p \in Passes : CountRows(p) \/ DeleteBatch(p) \/ RetentionFails(p)

AuditSpec == AuditInit /\ [][AuditNext]_auditVars

-----------------------------------------------------------------------------
\* Once the addresses have been deleted the trail holds none until recording is
\* enabled again, whatever requests carried theirs along from before
\* (persisted_audit_client_ip_enabled, delete_audit_client_ips_for_mfa_session).
DeletedAddressesStayAway ==
  purged => \A i \in DOMAIN audit : ~audit[i].ip

\* Retention never deletes more than what is beyond MAX_AUDIT_ROWS, whatever is
\* written between its batches and whoever else asks for a pass, and no event of a
\* security action while there is a routine one to delete
\* (audit_retention_guard, cleanup_audit_retention).
RetentionSparing ==
  [][Len(audit') < Len(audit) =>
       /\ Len(audit') >= MaxAuditRows
       /\ \/ \A i \in DOMAIN audit' : audit'[i].security
          \/ Cardinality({i \in DOMAIN audit' : audit'[i].security})
                = Cardinality({i \in DOMAIN audit : audit[i].security})]_auditVars

-----------------------------------------------------------------------------
(***************************************************************************)
(* The pages of the audit trail (src/web/settings_audit.rs on the keyset   *)
(* queries of src/db/audit.rs).  A page continues from a cursor that names *)
(* an event by its id, while events are recorded and retention deletes     *)
(* them; its number, and whether it has a successor, come from a count.    *)
(* A page takes three queries, each of its own: the count, the place, the  *)
(* rows.                                                                   *)
(* An event is its id and its value in the sorted column.  An event's      *)
(* columns never change, except client_ip, which is not the column here.   *)
(* The action filter restricts all queries alike and is left out.          *)
(***************************************************************************)
CONSTANTS
  LastEvent,     \* the ids are 1 .. LastEvent
  ColumnValues,  \* what the sorted column may hold, a set of numbers
  AuditPageSize, \* 100 in audit_page
  NoLink

ASSUME AuditPagesAssumption ==
  /\ {LastEvent, AuditPageSize} \subseteq Nat \ {0}
  /\ ColumnValues \subseteq Nat /\ ColumnValues # {}
  /\ NoLink \notin 1 .. LastEvent

VARIABLES
  events,   \* the rows of the table: id -> value
  last_id,  \* the last id given out
  screen,   \* the page on the screen, or NoLink
  asked,    \* the page being read: the query it waits for, what the earlier ones
            \* found, and whether the table is as it was at its count; or NoLink
  turning   \* what the walk has shown, what was there all along, whether an event
            \* behind it was deleted or a page of it was not of one moment,
            \* whether it last went forward, and the number of the page it opened
            \* with while nothing has happened since

auditPageVars == <<events, last_id, screen, asked, turning>>

Directions == {"asc", "desc"}

AuditPagesInit ==
  /\ last_id \in 0 .. LastEvent
  /\ events \in [1 .. last_id -> ColumnValues]
  /\ screen = NoLink /\ asked = NoLink
  /\ turning = [seen |-> {}, steady |-> {}, shifted |-> FALSE, forward |-> TRUE,
                opened |-> NoLink]

-----------------------------------------------------------------------------
\* What a page shows of an event: its id and its value.
Rows == {<<events[i], i>> : i \in DOMAIN events}

\* ORDER BY column direction, id direction.
Less(r, s) == r[1] < s[1] \/ (r[1] = s[1] /\ r[2] < s[2])
Precedes(r, s, direction) == IF direction = "asc" THEN Less(r, s) ELSE Less(s, r)
Reversed(direction) == IF direction = "asc" THEN "desc" ELSE "asc"
InOrder(rows, direction) == [i \in 1 .. Cardinality(rows) |->
  CHOOSE r \in rows : Cardinality({s \in rows : Precedes(s, r, direction)}) = i - 1]
Limit(s, n) == SubSeq(s, 1, Min({n, Len(s)}))

count_audit == Cardinality(DOMAIN events)
audit_cursor_exists(id) == id \in DOMAIN events

\* The event before a page that is asked for by its number.
audit_cursor_at_offset(offset, direction) ==
  IF offset < Cardinality(Rows)
    THEN [id |-> InOrder(Rows, direction)[offset + 1][2], value |-> NoLink,
          position |-> "after", direction |-> direction]
    ELSE NoLink

\* COALESCE(?, (SELECT column FROM audit WHERE id = ?)) and the id: a comparison
\* with NULL, of an event that is gone, finds nothing.
Anchors(cursor) ==
  {<<v, cursor.id>> : v \in IF cursor.value # NoLink THEN {cursor.value}
                               ELSE {events[i] : i \in {cursor.id} \cap DOMAIN events}}

\* A page before its cursor is read backwards and turned around, so it holds the
\* nearest rows in either case.
list_audit_keyset(cursor, position, direction) ==
  LET toward == IF position = "before" THEN Reversed(direction) ELSE direction
      beyond == IF cursor = NoLink THEN Rows
                  ELSE {r \in Rows : \E a \in Anchors(cursor) : Precedes(a, r, toward)}
      found == Limit(InOrder(beyond, toward), AuditPageSize)
  IN IF position = "before" THEN [i \in DOMAIN found |-> found[Len(found) + 1 - i]] ELSE found

-----------------------------------------------------------------------------
\* A link names the order it was made for; version 1 carried the value as well.
encode_audit_cursor(row, position, direction) ==
  [id |-> row[2], value |-> row[1], position |-> position, direction |-> direction]

\* A token of another order is no cursor; of a version 2 token only the id counts.
decode_audit_cursor(token, version, direction) ==
  IF token = NoLink \/ token.direction # direction THEN NoLink
    ELSE [token EXCEPT !.value = IF version = 1 THEN @ ELSE NoLink]

\* The links of a page: by count and number, and only from an event of the page.
audit_pagination(page, number, pages, direction) ==
  [rows |-> page, number |-> number, direction |-> direction,
   previous |-> IF number > 0 /\ page # <<>>
                  THEN encode_audit_cursor(page[1], "before", direction) ELSE NoLink,
   next |-> IF number + 1 < pages /\ page # <<>>
              THEN encode_audit_cursor(page[Len(page)], "after", direction) ELSE NoLink]

DivCeil(m, n) == (m + n - 1) \div n

TotalPages == Max({1, DivCeil(count_audit, AuditPageSize)})

\* audit_page: the count bounds the number of the page.
ask(requested, cursor, direction) ==
  /\ asked = NoLink
  /\ asked' = [at |-> "counted", number |-> Min({requested, TotalPages - 1}),
               pages |-> TotalPages, cursor |-> cursor, direction |-> direction, quiet |-> TRUE]
  /\ UNCHANGED <<events, last_id>>

NewWalk == [seen |-> {}, steady |-> Rows, shifted |-> FALSE, forward |-> TRUE, opened |-> NoLink]

\* A page by its number, or with a cursor of another order: a walk begins.
open_audit_page(requested, token, direction) ==
  /\ \A version \in 1 .. 2 : decode_audit_cursor(token, version, direction) = NoLink
  /\ ask(requested, NoLink, direction)
  /\ screen' = NoLink /\ turning' = NewWalk

\* A link of the page on the screen, of either version.
follow_link(token, requested, version) ==
  /\ token # NoLink
  /\ ask(requested, decode_audit_cursor(token, version, screen.direction), screen.direction)
  /\ turning' = [turning EXCEPT !.forward = token.position = "after"]
  /\ UNCHANGED screen

\* It starts over when its anchor is gone, and says so; otherwise it continues
\* from the cursor, or from its number if there is none.
StartsOver(cursor) ==
  cursor # NoLink /\ cursor.value = NoLink /\ ~audit_cursor_exists(cursor.id)
locate_page ==
  /\ asked # NoLink /\ asked.at = "counted"
  /\ IF StartsOver(asked.cursor)
       THEN /\ asked' = [asked EXCEPT !.at = "located", !.cursor = NoLink, !.number = 0]
            /\ screen' = NoLink /\ turning' = NewWalk
       ELSE /\ asked' = [asked EXCEPT !.at = "located", !.cursor =
                          IF @ # NoLink \/ asked.number = 0 THEN @
                            ELSE audit_cursor_at_offset(asked.number * AuditPageSize - 1,
                                                        asked.direction)]
            /\ UNCHANGED <<screen, turning>>
  /\ UNCHANGED <<events, last_id>>

show_page ==
  /\ asked # NoLink /\ asked.at = "located"
  /\ LET page == list_audit_keyset(asked.cursor,
                  IF asked.cursor = NoLink THEN "after" ELSE asked.cursor.position,
                  asked.direction)
     IN /\ screen' = audit_pagination(page, asked.number, asked.pages, asked.direction)
        /\ turning' = [turning EXCEPT !.seen = @ \cup {page[i] : i \in DOMAIN page},
                                      !.shifted = @ \/ ~asked.quiet,
                                      !.opened = IF turning.seen = {} /\ asked.quiet
                                                   THEN asked.number ELSE NoLink]
  /\ asked' = NoLink
  /\ UNCHANGED <<events, last_id>>

Disturbed == IF asked = NoLink THEN NoLink ELSE [asked EXCEPT !.quiet = FALSE]

record_event(value) ==
  /\ last_id < LastEvent
  /\ last_id' = last_id + 1
  /\ events' = [i \in DOMAIN events \cup {last_id + 1} |->
                  IF i \in DOMAIN events THEN events[i] ELSE value]
  /\ asked' = Disturbed /\ turning' = [turning EXCEPT !.opened = NoLink]
  /\ UNCHANGED screen

\* Retention deletes by weight and age, in no order a page knows.
delete_event(i) ==
  /\ i \in DOMAIN events
  /\ events' = [j \in DOMAIN events \ {i} |-> events[j]]
  /\ LET gone == <<events[i], i>>
     IN turning' = [turning EXCEPT !.steady = @ \ {gone}, !.opened = NoLink,
                     !.shifted = @ \/ \E s \in turning.seen : ~Precedes(s, gone, screen.direction)]
  /\ asked' = Disturbed
  /\ UNCHANGED <<last_id, screen>>

AuditPagesNext ==
  \/ \E number \in 0 .. LastEvent \div AuditPageSize, direction \in Directions :
       screen = NoLink /\ open_audit_page(number, NoLink, direction)
  \/ /\ screen # NoLink /\ screen.next # NoLink
     /\ open_audit_page(screen.number + 1, screen.next, Reversed(screen.direction))
  \/ \E version \in 1 .. 2 :
       /\ screen # NoLink
       /\ \/ follow_link(screen.previous, screen.number - 1, version)
          \/ follow_link(screen.next, screen.number + 1, version)
  \/ locate_page \/ show_page
  \/ \E value \in ColumnValues : record_event(value)
  \/ \E i \in 1 .. LastEvent : delete_event(i)

-----------------------------------------------------------------------------
\* A page asked for by its number is that slice of the ordered trail, if nothing
\* happened between its queries (audit_cursor_at_offset, list_audit_keyset).
OffsetPageExact ==
  turning.opened # NoLink =>
    LET all == InOrder(Rows, screen.direction)
        first == turning.opened * AuditPageSize
    IN screen.rows = SubSeq(all, first + 1, Min({first + AuditPageSize, Len(all)}))

\* A walk has no gap: an event that stayed and lies between two it has shown was
\* shown; and where it is given no next page, nothing that stayed lies ahead.
\* Excepted from the latter: events behind it were deleted, which the number of the
\* page still counts and the number of pages does not, or something happened
\* between the queries of a page (audit_page, audit_pagination).
AuditWalkHasNoGap ==
  screen # NoLink =>
    LET Before(r, s) == Precedes(r, s, screen.direction)
    IN \A e \in turning.steady \ turning.seen :
         /\ ~\E r, s \in turning.seen : Before(r, e) /\ Before(e, s)
         /\ turning.forward /\ screen.next = NoLink /\ ~turning.shifted =>
              \E s \in turning.seen : Before(e, s)
=============================================================================
