--------------------------- MODULE DirectoryPages ---------------------------
(***************************************************************************)
(* Walking through a directory page by page (src/web/common.rs).  A page   *)
(* is cut out of a sorted snapshot or collected by a bounded heap during a *)
(* scan; both continue from a cursor that carries the sort key of an entry *)
(* that may be gone by then.  A cached snapshot of the present generation  *)
(* is used again until its TTL ends, although another process may have     *)
(* changed the directory.  An entry is the rank of its sort key in the     *)
(* directed order, which entry_sort_key makes unique with the name.        *)
(***************************************************************************)
EXTENDS Naturals, Sequences, FiniteSets, FiniteSetsExt

CONSTANTS
  LastEntry,  \* the entries are 1 .. LastEntry
  PageSize,   \* DIRECTORY_PAGE_SIZE
  ScanLimit,  \* max_directory_scan
  NoCursor

ASSUME PagesAssumption ==
  /\ {LastEntry, PageSize, ScanLimit} \subseteq Nat \ {0}
  /\ NoCursor \notin 1 .. LastEntry

VARIABLES
  folder,  \* what the directory holds
  cached,  \* what the cached snapshot holds and whether it is cut, or NoCursor
  view,    \* the page last shown, or NoCursor
  walk     \* what the walk has shown, what was there all along (also when a snapshot
           \* it is served was taken), whether it was told that a page is
           \* incomplete, and whether its last page went forward

pageWalkVars == <<folder, cached, view, walk>>

DirectoryPagesInit ==
  /\ folder \in SUBSET (1 .. LastEntry)
  /\ cached = NoCursor
  /\ view = NoCursor
  /\ walk = [shown |-> {}, steady |-> folder, truncated |-> FALSE, forward |-> TRUE]

-----------------------------------------------------------------------------
\* The entries beyond the cursor, in the direction of the walk.
include(scanned, cursor, backwards) ==
  {e \in scanned : cursor = NoCursor \/ (IF backwards THEN e < cursor ELSE e > cursor)}

\* The heap gives up its worst entry when it holds more than a page and one.
retain_ranked_entry(heap, entry, backwards) ==
  LET pushed == heap \cup {entry}
      worst == IF backwards THEN Min(pushed) ELSE Max(pushed)
  IN IF Cardinality(pushed) > PageSize + 1 THEN pushed \ {worst} ELSE pushed

\* list_directory_cursor_page: the heap after the scan.
Ranked(scanned, cursor, backwards) ==
  FoldSet(LAMBDA e, heap : retain_ranked_entry(heap, e, backwards), {},
          include(scanned, cursor, backwards))

\* build_directory_snapshot, and partition_point in it.
Sorted(scanned) == [i \in 1 .. Cardinality(scanned) |->
  CHOOSE e \in scanned : Cardinality({f \in scanned : f < e}) = i - 1]
partition_point(snapshot, cursor, inclusive) ==
  Cardinality({i \in DOMAIN snapshot : snapshot[i] < cursor \/ (inclusive /\ snapshot[i] = cursor)})

\* list_directory_snapshot_cursor_page: the slice [start, end).
Sliced(snapshot, cursor, backwards) ==
  LET stop == IF cursor = NoCursor THEN Len(snapshot)
                ELSE partition_point(snapshot, cursor, FALSE)
      start == IF cursor = NoCursor THEN 0
                 ELSE partition_point(snapshot, cursor, TRUE)
      cut == IF backwards
               THEN (IF stop > PageSize + 1 THEN stop - (PageSize + 1) ELSE 0) + 1 .. stop
               ELSE start + 1 .. Min({start + PageSize + 1, Len(snapshot)})
  IN {snapshot[i] : i \in cut}

\* The end of both: the entry too many only says that there are more.
DirectoryCursorPage(entries, after, before, truncated) ==
  LET backwards == before # NoCursor
      more == Cardinality(entries) > PageSize
      page == IF ~more THEN entries
                ELSE entries \ {IF backwards THEN Min(entries) ELSE Max(entries)}
  IN [entries |-> page, truncated |-> truncated,
      previous |-> IF page # {} /\ ((more /\ backwards) \/ after # NoCursor)
                     THEN Min(page) ELSE NoCursor,
      next |-> IF page # {} /\ (more \/ backwards)
                 THEN Max(page) ELSE NoCursor]

\* A scan sees at most ScanLimit of the entries, in the order of the file system.
Scans == {[entries |-> s, truncated |-> s # folder] :
            s \in {t \in SUBSET folder : Cardinality(t) = Min({ScanLimit, Cardinality(folder)})}}

\* A page of what a scan saw.
Page(after, before, seen, snapshot) ==
  LET cursor == IF before # NoCursor THEN before ELSE after
      backwards == before # NoCursor
  IN DirectoryCursorPage(
       IF snapshot THEN Sliced(Sorted(seen.entries), cursor, backwards)
                   ELSE Ranked(seen.entries, cursor, backwards),
       after, before, seen.truncated)

Show(page, forward) ==
  /\ view' = page
  /\ walk' = [walk EXCEPT !.shown = @ \cup page.entries, !.forward = forward,
                          !.truncated = @ \/ page.truncated]
  /\ UNCHANGED folder

first_page(seen, snapshot) ==
  view = NoCursor /\ Show(Page(NoCursor, NoCursor, seen, snapshot), TRUE)
next_page(seen, snapshot) ==
  /\ view # NoCursor /\ view.next # NoCursor
  /\ Show(Page(view.next, NoCursor, seen, snapshot), TRUE)
previous_page(seen, snapshot) ==
  /\ view # NoCursor /\ view.previous # NoCursor
  /\ Show(Page(NoCursor, view.previous, seen, snapshot), FALSE)
turn_page(seen, snapshot) ==
  first_page(seen, snapshot) \/ next_page(seen, snapshot) \/ previous_page(seen, snapshot)

\* A page of the cached snapshot, of a new one that is cached then, or, where it
\* is too large to be kept, of a scan of its own.
browse_rows ==
  \/ cached # NoCursor /\ turn_page(cached, TRUE) /\ UNCHANGED cached
  \/ /\ cached = NoCursor
     /\ \E seen \in Scans :
          \/ turn_page(seen, TRUE) /\ cached' = seen
          \/ turn_page(seen, FALSE) /\ UNCHANGED cached

\* The snapshot is evicted, or its TTL ends.
SnapshotGone ==
  /\ cached # NoCursor
  /\ cached' = NoCursor
  /\ UNCHANGED <<folder, view, walk>>

\* The service creates or removes an entry, with which a new generation begins, or
\* another process does (foreign), of which the cache learns nothing.
ChangeFolder(e, foreign) ==
  /\ folder' = IF e \in folder THEN folder \ {e} ELSE folder \cup {e}
  /\ cached' = IF foreign THEN cached ELSE NoCursor
  /\ walk' = [walk EXCEPT !.steady = @ \ {e}]
  /\ UNCHANGED view

DirectoryPagesNext ==
  \/ browse_rows
  \/ SnapshotGone
  \/ \E e \in 1 .. LastEntry, foreign \in BOOLEAN : ChangeFolder(e, foreign)

DirectoryPagesSpec == DirectoryPagesInit /\ [][DirectoryPagesNext]_pageWalkVars

-----------------------------------------------------------------------------
\* A walk passes no entry that was there all along, however the directory changes
\* under it and whether its pages come from scans, new snapshots or old ones: what lies before an entry it has
\* shown was shown too, and a last page going forward leaves nothing; unless a page
\* said that the directory was not scanned to its end (list_directory_cursor_page,
\* list_directory_snapshot_cursor_page).
WalkMissesNothing ==
  view # NoCursor /\ ~walk.truncated =>
    \A e \in walk.steady \ walk.shown :
      /\ \A s \in walk.shown : s < e
      /\ walk.forward => view.next # NoCursor
=============================================================================
