---------------------------- MODULE ShareListing ----------------------------
(***************************************************************************)
(* The pages of shares (src/db/shares/listing.rs,                          *)
(* src/db/service_tokens/monitoring.rs, share_index_page in                *)
(* src/web/shares.rs, list_shares in src/api/shares.rs and                 *)
(* monitoring_share_page in src/api/monitoring.rs): a viewer walks through *)
(* the shares of one status by the id of the last share they saw, while    *)
(* shares are created, deleted and change their status.  The list of the   *)
(* active shares first probes a window of the newest (or oldest) rows and  *)
(* falls back to two indexed queries whose results it merges.              *)
(***************************************************************************)
EXTENDS Naturals, Sequences, FiniteSets, SequencesExt

CONSTANTS
  LastShare,     \* bound on the ids
  PageLimit,     \* options.limit
  WindowFactor,  \* the 4 of `4 * fetch`
  MaxUpdates     \* bound on the changes during one walk

ASSUME ListingAssumption ==
  /\ {LastShare, PageLimit, WindowFactor} \subseteq Nat \ {0}
  /\ MaxUpdates \in Nat

ShareRows == 1..LastShare

\* "permanent" and "future": available, without expiry and with one to come;
\* "other": present and not available; "gone": no row.
VARIABLES
  table,   \* id -> one of these
  viewer   \* the walk: its route, order, cursor, what it listed, what stood all the time

listingVars == <<table, viewer>>

\* status_predicate: the active shares, those of another status, or all.
Kinds(status) ==
  CASE status = "active" -> {"permanent", "future"}
    [] status = "expired" -> {"other"}
    [] status = "all" -> {"permanent", "future", "other"}
Matching(status) == {i \in ShareRows : table[i] \in Kinds(status)}
Present == {i \in ShareRows : table[i] # "gone"}

\* Ids are consecutive while nothing was deleted.
ShareListingInit ==
  /\ table \in [ShareRows -> {"permanent", "future", "other", "gone"}]
  /\ \A i \in ShareRows : table[i] = "gone" => \A j \in i..LastShare : table[j] = "gone"
  /\ \E route \in {"shares", "monitoring"}, order \in {"newest", "oldest"},
        status \in {"active", "expired", "all"} :
       /\ route = "monitoring" => order = "newest"
       /\ viewer = [route |-> route, order |-> order, status |-> status, at |-> "start",
                    cursor |-> 0, listed |-> {}, steady |-> Matching(status), updates |-> 0]

-----------------------------------------------------------------------------
After(i) ==
  \/ viewer.at = "start"
  \/ IF viewer.order = "newest" THEN i < viewer.cursor ELSE i > viewer.cursor

\* ORDER BY id, LIMIT.
Ordered(S) ==
  SetToSortSeq(S, LAMBDA i, j : IF viewer.order = "newest" THEN i > j ELSE i < j)

Limited(S, limit) ==
  LET all == Ordered(S) IN SubSeq(all, 1, IF limit < Len(all) THEN limit ELSE Len(all))

Fetch == PageLimit + 1

\* probe_candidate_sql: the window is cut before the status is asked for.
probe_candidate_sql == Limited({i \in Present : After(i)}, WindowFactor * Fetch)

direct_candidate_sql == Limited({i \in Matching(viewer.status) : After(i)}, Fetch)

\* available_candidate_sql: one branch for each kind of expiry, merged.
available_candidate_sql ==
  LET branch(kind) == ToSet(Limited({i \in ShareRows : table[i] = kind /\ After(i)}, Fetch))
  IN Limited(branch("permanent") \cup branch("future"), Fetch)

\* Mutant: what the window holds is taken for all there is.
WindowSuffices(ids, examined) == Len(ids) > 0

ProbeSuffices(ids, examined) ==
  Len(ids) = Fetch \/ examined < WindowFactor * Fetch

\* The list of all shares is not probed.
candidate_ids ==
  LET batch == probe_candidate_sql
      found == SelectSeq(batch, LAMBDA i : i \in Matching(viewer.status))
      ids == SubSeq(found, 1, IF Fetch < Len(found) THEN Fetch ELSE Len(found))
  IN IF viewer.status # "all" /\ ProbeSuffices(ids, Len(batch)) THEN ids
     ELSE IF viewer.status = "active" THEN available_candidate_sql ELSE direct_candidate_sql

monitoring_share_query_for == Limited({i \in Matching(viewer.status) : After(i)}, Fetch)

\* The page and its next_cursor: one row more than the page was asked for.
ShowPage(ids) ==
  LET shown == SubSeq(ids, 1, IF PageLimit < Len(ids) THEN PageLimit ELSE Len(ids)) IN
  viewer' = [viewer EXCEPT
    !.listed = @ \cup ToSet(shown),
    !.at = IF Len(ids) > PageLimit THEN "page" ELSE "end",
    !.cursor = IF Len(ids) > PageLimit THEN shown[PageLimit] ELSE 0]

list_share_page ==
  /\ viewer.route = "shares" /\ viewer.at # "end"
  /\ ShowPage(candidate_ids)
  /\ UNCHANGED table

list_monitoring_share_page ==
  /\ viewer.route = "monitoring" /\ viewer.at # "end"
  /\ ShowPage(monitoring_share_query_for)
  /\ UNCHANGED table

\* A new walk: the page without a cursor.
StartAgain ==
  /\ viewer.at = "end"
  /\ viewer' = [viewer EXCEPT !.at = "start", !.listed = {}, !.steady = Matching(viewer.status),
                              !.updates = 0]
  /\ UNCHANGED table

-----------------------------------------------------------------------------
Rewrite(i, kind) ==
  /\ viewer.at = "page" /\ viewer.updates < MaxUpdates
  /\ table' = [table EXCEPT ![i] = kind]
  /\ viewer' = [viewer EXCEPT !.updates = @ + 1,
                  !.steady = IF kind \in Kinds(viewer.status) THEN @ ELSE @ \ {i}]

\* SQLite gives a new row the id after the largest one present.
CreateListed(kind) ==
  \E i \in ShareRows :
    /\ \A j \in Present : j < i
    /\ i > 1 => table[i - 1] # "gone"
    /\ Rewrite(i, kind)

DeleteListed(i) == table[i] # "gone" /\ Rewrite(i, "gone")

\* A share expires, is deactivated, reaches its limit, or is edited.
ChangeStatus(i, kind) == table[i] \notin {"gone", kind} /\ Rewrite(i, kind)

ShareListingNext ==
  \/ list_share_page \/ list_monitoring_share_page \/ StartAgain
  \/ \E kind \in {"permanent", "future", "other"} :
       CreateListed(kind) \/ \E i \in ShareRows : ChangeStatus(i, kind)
  \/ \E i \in ShareRows : DeleteListed(i)

ShareListingSpec == ShareListingInit /\ [][ShareListingNext]_listingVars

-----------------------------------------------------------------------------
\* Neither list_share_page nor list_monitoring_share_page skips a share: what had
\* the status asked for from the first page of the walk on has been shown as soon as the
\* cursor is past it, whatever is created, deleted or changed in between, and
\* whichever of the two queries answered.
WalkShowsAvailable ==
  \A i \in viewer.steady :
    \/ i \in viewer.listed
    \/ viewer.at = "start"
    \/ viewer.at = "page" /\ After(i)
=============================================================================
