--------------------------- MODULE DirectoryCache ---------------------------
(***************************************************************************)
(* Listings of directories (src/directory_cache.rs, load_admin_directory_  *)
(* page in src/web/files/browser.rs, browse_rows in                        *)
(* src/web/public/page.rs).  A request takes the storage read guard, whose *)
(* generation becomes part of the key, looks for a snapshot, joins the     *)
(* flight of its key and scans the directory under the guard.  Flights are *)
(* registered by weak references that their last owner takes away.  A      *)
(* request may be cancelled at its awaits.                                 *)
(***************************************************************************)
EXTENDS Naturals, Sequences, FiniteSets, SequencesExt

CONSTANTS
  Listings,         \* requests
  Directories,
  FlightIds,        \* identities of flights
  SnapshotSizes,    \* what a scan can find
  MaxSnapshotBytes, \* DIRECTORY_SNAPSHOT_MAX_BYTES
  MaxCacheBytes,    \* DIRECTORY_CACHE_MAX_BYTES
  MaxMutations,     \* bound on the mutations of a behaviour
  None

ASSUME CacheAssumption ==
  /\ SnapshotSizes \subseteq Nat /\ None \notin FlightIds \cup SnapshotSizes
  /\ {MaxSnapshotBytes, MaxCacheBytes, MaxMutations} \subseteq Nat

VARIABLES
  storage,     \* generation, content, whether a mutation runs or recovery is due
  records,     \* the records, the one used longest ago first
  total_bytes,
  flights,     \* key -> the registered flight
  listing      \* request -> its state

cacheVars == <<storage, records, total_bytes, flights, listing>>

CacheKeys == [dir : Directories, gen : 0 .. MaxMutations]

CacheInit ==
  /\ storage = [generation |-> 0, content |-> 0, writer |-> FALSE, recovery |-> FALSE]
  /\ records = <<>> /\ total_bytes = 0
  /\ flights = [k \in CacheKeys |-> None]
  /\ listing = [r \in Listings |-> None]

ListingAt(r, at) == listing[r] # None /\ listing[r].at = at
Listed(r, next) == listing' = [listing EXCEPT ![r] = next]
HoldsGuard(r) == listing[r] # None /\ listing[r].guard

-----------------------------------------------------------------------------
(* The storage authority                                                   *)

\* A read after a mutation that did not end cleanly recovers first.
acquire_read(r, d) ==
  /\ listing[r] = None /\ ~storage.writer
  /\ storage.recovery => \A s \in Listings : ~HoldsGuard(s)
  /\ LET clean == IF storage.recovery
                    THEN [storage EXCEPT !.recovery = FALSE, !.generation = @ + 1] ELSE storage
     IN /\ storage' = clean
        /\ Listed(r, [at |-> "lookup", key |-> [dir |-> d, gen |-> clean.generation],
                      flight |-> None, guard |-> TRUE, content |-> clean.content,
                      found |-> None])
  /\ UNCHANGED <<records, total_bytes, flights>>

acquire_mutation ==
  /\ ~storage.writer /\ ~storage.recovery /\ storage.content < MaxMutations
  /\ \A r \in Listings : ~HoldsGuard(r)
  /\ storage' = [storage EXCEPT !.writer = TRUE, !.content = @ + 1]
  /\ UNCHANGED <<records, total_bytes, flights, listing>>

\* Mutant: the generation stays what it was.
FinishInPlace(clean) ==
  /\ storage.writer
  /\ storage' = [storage EXCEPT !.writer = FALSE, !.recovery = ~clean]
  /\ UNCHANGED <<records, total_bytes, flights, listing>>

\* finish_clean, or a guard that is dropped without it.
finish_clean(clean) ==
  /\ storage.writer
  /\ storage' = [storage EXCEPT !.writer = FALSE, !.recovery = ~clean,
                                !.generation = IF clean THEN @ + 1 ELSE @]
  /\ UNCHANGED <<records, total_bytes, flights, listing>>

-----------------------------------------------------------------------------
(* The records                                                             *)

OfKey(k) == SelectSeq(records, LAMBDA e : e.key = k)
Without(s, k) == SelectSeq(s, LAMBDA e : e.key # k)

\* cached: a record that is found becomes the one used last.
cached(k) == IF OfKey(k) = <<>> THEN records ELSE Without(records, k) \o OfKey(k)

prune_expired(k) ==
  /\ OfKey(k) # <<>>
  /\ records' = Without(records, k)
  /\ total_bytes' = total_bytes - OfKey(k)[1].bytes
  /\ UNCHANGED <<storage, flights, listing>>

RecordBytes(s) == FoldSeq(LAMBDA e, n : e.bytes + n, 0, s)

\* The records used longest ago go until the new one fits.
Evicted(s, bytes) ==
  LET gone == CHOOSE n \in 0 .. Len(s) :
        /\ n = Len(s) \/ RecordBytes(SubSeq(s, n + 1, Len(s))) + bytes <= MaxCacheBytes
        /\ \A m \in 0 .. n - 1 : RecordBytes(SubSeq(s, m + 1, Len(s))) + bytes > MaxCacheBytes
  IN SubSeq(s, gone + 1, Len(s))

insert(k, record) ==
  LET rest == Evicted(Without(records, k), record.bytes)
  IN IF record.bytes > MaxCacheBytes
       THEN UNCHANGED <<records, total_bytes>>
       ELSE /\ records' = Append(rest, record)
            /\ total_bytes' = total_bytes - RecordBytes(OfKey(k))
                              - (RecordBytes(Without(records, k)) - RecordBytes(rest)) + record.bytes

-----------------------------------------------------------------------------
(* The flights                                                             *)

FlightOwners(f) == {r \in Listings : listing[r] # None /\ listing[r].flight = f}
LockedBy(f) == {r \in FlightOwners(f) : listing[r].at = "loading"}
FreshFlight(f) == FlightOwners(f) = {} /\ \A k \in CacheKeys : flights[k] # f

\* The request leaves get_or_try_load; found is what it takes along.
Leaving(r, result) == [listing[r] EXCEPT !.at = "leaving", !.guard = FALSE, !.found = result]

lookup(r) ==
  /\ ListingAt(r, "lookup")
  /\ records' = cached(listing[r].key)
  /\ IF OfKey(listing[r].key) # <<>>
       THEN Listed(r, [listing[r] EXCEPT !.at = "served", !.guard = FALSE,
                                         !.found = OfKey(listing[r].key)[1].content])
       ELSE Listed(r, [listing[r] EXCEPT !.at = "joining"])
  /\ UNCHANGED <<storage, total_bytes, flights>>

\* A registered flight that is still owned is joined; otherwise a new one.
flight(r, f) ==
  /\ ListingAt(r, "joining")
  /\ LET k == listing[r].key
         alive == flights[k] # None /\ FlightOwners(flights[k]) # {}
     IN /\ IF alive THEN f = flights[k] ELSE FreshFlight(f)
        /\ flights' = [flights EXCEPT ![k] = f]
        /\ Listed(r, [listing[r] EXCEPT !.at = "waiting", !.flight = f])
  /\ UNCHANGED <<storage, records, total_bytes>>

\* The lock of the flight; then the records again.
LockFlight(r) ==
  /\ ListingAt(r, "waiting") /\ LockedBy(listing[r].flight) = {}
  /\ records' = cached(listing[r].key)
  /\ Listed(r, IF OfKey(listing[r].key) # <<>>
                 THEN Leaving(r, OfKey(listing[r].key)[1].content)
                 ELSE [listing[r] EXCEPT !.at = "loading"])
  /\ UNCHANGED <<storage, total_bytes, flights>>

remove_flight(r) ==
  flights' = IF flights[listing[r].key] = listing[r].flight
               THEN [flights EXCEPT ![listing[r].key] = None] ELSE flights

\* DirectorySnapshotBuilder: a directory that is too large leaves a record without
\* a snapshot, and its requests scan for themselves.
Built(k, size) ==
  IF size <= MaxSnapshotBytes
    THEN [key |-> k, content |-> storage.content, bytes |-> 1 + size]
    ELSE [key |-> k, content |-> None, bytes |-> 1]

\* The scan, the insertion and the end of the flight.
load(r, size) ==
  /\ ListingAt(r, "loading")
  /\ LET record == Built(listing[r].key, size)
     IN insert(record.key, record) /\ Listed(r, Leaving(r, record.content))
  /\ remove_flight(r)
  /\ UNCHANGED storage
LoadFails(r) ==
  /\ ListingAt(r, "loading")
  /\ Listed(r, Leaving(r, None))
  /\ remove_flight(r)
  /\ UNCHANGED <<storage, records, total_bytes>>

\* The client goes at an await.  A scan that runs on keeps its guard for a while,
\* which only delays a mutation.
CancelListing(r) ==
  /\ ListingAt(r, "waiting") \/ ListingAt(r, "loading")
  /\ Listed(r, Leaving(r, None))
  /\ UNCHANGED <<storage, records, total_bytes, flights>>

\* FlightRegistration::drop: without the lock of the map it sees whether somebody
\* else has the flight; with the lock it unregisters it.  The flight goes after it.
FlightRegistration_drop(r) ==
  /\ ListingAt(r, "leaving")
  /\ Listed(r, [listing[r] EXCEPT
       !.at = IF Cardinality(FlightOwners(listing[r].flight)) > 1 THEN "released" ELSE "last"])
  /\ UNCHANGED <<storage, records, total_bytes, flights>>
Unregister(r) ==
  /\ ListingAt(r, "last")
  /\ remove_flight(r)
  /\ Listed(r, [listing[r] EXCEPT !.at = "released"])
  /\ UNCHANGED <<storage, records, total_bytes>>
DropFlight(r) ==
  /\ ListingAt(r, "released")
  /\ Listed(r, [listing[r] EXCEPT !.at = "served", !.flight = None])
  /\ UNCHANGED <<storage, records, total_bytes, flights>>

Reply(r) ==
  /\ ListingAt(r, "served")
  /\ Listed(r, None)
  /\ UNCHANGED <<storage, records, total_bytes, flights>>

CacheNext ==
  \/ acquire_mutation \/ \E clean \in BOOLEAN : finish_clean(clean)
  \/ \E k \in CacheKeys : prune_expired(k)
  \/ \E r \in Listings :
       \/ \E d \in Directories : acquire_read(r, d)
       \/ lookup(r) \/ LockFlight(r) \/ LoadFails(r) \/ CancelListing(r)
       \/ \E f \in FlightIds : flight(r, f)
       \/ \E size \in SnapshotSizes : load(r, size)
       \/ FlightRegistration_drop(r) \/ Unregister(r) \/ DropFlight(r) \/ Reply(r)

CacheSpec == CacheInit /\ [][CacheNext]_cacheVars

-----------------------------------------------------------------------------
\* A listing shows the directory as it was when its request took the read guard,
\* whoever scanned it and however many mutations of the service came in between
\* (DirectorySnapshotKey::storage_generation, StorageMutationGuard::finish_clean).
ListingCurrent ==
  \A r \in Listings : listing[r] # None => listing[r].found \in {None, listing[r].content}

\* The sum the evictions go by is the sum of the records, and within the limit
\* (DirectorySnapshotCache::insert, prune_expired).
CacheBytesExact == total_bytes = RecordBytes(records) /\ total_bytes <= MaxCacheBytes

\* What the cache hands out is current, and what it holds is counted
\* (get_or_try_load, insert).
CacheSound == ListingCurrent /\ CacheBytesExact
=============================================================================
