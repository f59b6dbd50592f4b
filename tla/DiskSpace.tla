----------------------------- MODULE DiskSpace -----------------------------
(***************************************************************************)
(* Free space as the server sees it: one cached reading per file system,   *)
(* refreshed by one probe at a time (src/disk_stats.rs), and the two lock- *)
(* free counters that hold bytes back for writes under way: the chunks of  *)
(* uploads (src/services/upload.rs) and the temporary archives             *)
(* (ZipTempReservation in src/services/public_transfer/zip.rs).            *)
(***************************************************************************)
EXTENDS Naturals, FiniteSets, FiniteSetsExt

CONSTANTS
  Writers,          \* tasks that want to write
  MaxFree,          \* bound on the free bytes
  WriteSizes,
  StorageReserve,   \* STORAGE_RESERVE_BYTES
  TempReserve,      \* ZIP_TEMP_MIN_RESERVE
  SuccessTtl, ErrorTtl,
  NoValue, ProbeFailed, Running   \* not readings

ASSUME DiskAssumption ==
  /\ {MaxFree, StorageReserve, TempReserve, SuccessTtl, ErrorTtl} \subseteq Nat
  /\ WriteSizes \subseteq Nat /\ ErrorTtl < SuccessTtl

VARIABLES
  medium,   \* the file system: "storage" for chunks, "temp" for archives
  free,     \* what statvfs would find
  entry,    \* the cache entry: its reading, and whether a flight is set
  probe,    \* the blocking task of the flight
  task,     \* writer -> where it stands
  reserved  \* UPLOAD_BYTES_RESERVED or ZIP_TEMP_RESERVED

diskVars == <<medium, free, entry, probe, task, reserved>>

DiskInit ==
  /\ medium \in {"storage", "temp"}
  /\ free = MaxFree
  /\ entry = [cached |-> NoValue, age |-> 0, flight |-> FALSE]
  /\ probe = NoValue
  /\ task = [w \in Writers |-> [at |-> "idle"]]
  /\ reserved = 0

TaskIs(w, at) == task[w].at = at
Moves(w, next) == task' = [task EXCEPT ![w] = next]
Gives(w) == Moves(w, [at |-> "idle"])

-----------------------------------------------------------------------------
(* The cache                                                               *)

is_fresh == /\ entry.cached # NoValue
            /\ entry.age < IF entry.cached = ProbeFailed THEN ErrorTtl ELSE SuccessTtl

\* Start, unless a flight is under way.
StartFlight ==
  IF entry.flight
    THEN UNCHANGED <<entry, probe>>
    ELSE entry' = [entry EXCEPT !.flight = TRUE] /\ probe' = Running

\* get: a fresh reading at once, an error included; otherwise wait for a flight.
get(w, n) ==
  /\ TaskIs(w, "idle")
  /\ IF is_fresh
       THEN /\ Moves(w, IF entry.cached = ProbeFailed THEN task[w]
                        ELSE [at |-> "read", bytes |-> n, reading |-> entry.cached])
            /\ UNCHANGED <<entry, probe>>
       ELSE Moves(w, [at |-> "waiting", bytes |-> n]) /\ StartFlight
  /\ UNCHANGED <<medium, free, reserved>>

\* The status page takes what is there, and refreshes it for the next one.
peek_and_refresh ==
  /\ ~is_fresh /\ StartFlight
  /\ UNCHANGED <<medium, free, task, reserved>>

\* canonicalize and statvfs; an error or a panic is a reading of its own kind.
ProbeMeasures ==
  /\ probe = Running
  /\ probe' \in {free, ProbeFailed}
  /\ UNCHANGED <<medium, free, entry, task, reserved>>

\* What the waiting callers are told.
Answered(value) ==
  [w \in Writers |->
     CASE ~TaskIs(w, "waiting") -> task[w]
       [] TaskIs(w, "waiting") /\ value = ProbeFailed -> [at |-> "idle"]
       [] OTHER -> [at |-> "read", bytes |-> task[w].bytes, reading |-> value]]

finish_refresh ==
  /\ probe \notin {NoValue, Running}
  /\ entry' = [cached |-> probe, age |-> 0, flight |-> FALSE]
  /\ task' = Answered(probe)
  /\ probe' = NoValue
  /\ UNCHANGED <<medium, free, reserved>>

\* The caller's deadline passes before the flight ends.
CallerTimeout(w) ==
  /\ TaskIs(w, "waiting") /\ Gives(w)
  /\ UNCHANGED <<medium, free, entry, probe, reserved>>

ReadingAges ==
  /\ entry.cached # NoValue /\ entry.age < SuccessTtl
  /\ entry' = [entry EXCEPT !.age = @ + 1]
  /\ UNCHANGED <<medium, free, probe, task, reserved>>

-----------------------------------------------------------------------------
(* The counters                                                            *)

saturating_sub(a, b) == IF a > b THEN a - b ELSE 0

Fits(reading, held, n) ==
  CASE medium = "storage" -> saturating_sub(saturating_sub(reading, StorageReserve), held) > n
    [] medium = "temp" -> saturating_sub(reading, held) >= n + Max({TempReserve, n \div 10})

\* The counter is loaded and the request compared with what it leaves.
LoadReserved(w) ==
  /\ TaskIs(w, "read")
  /\ IF Fits(task[w].reading, reserved, task[w].bytes)
       THEN Moves(w, [at |-> "loaded", bytes |-> task[w].bytes, reading |-> task[w].reading,
                      seen |-> reserved])
       ELSE Gives(w)
  /\ UNCHANGED <<medium, free, entry, probe, reserved>>

Holds(w) == [at |-> "writing", bytes |-> task[w].bytes, reading |-> task[w].reading]

\* Mutant: the sum is stored without comparing.
StoreReserved(w) ==
  /\ TaskIs(w, "loaded")
  /\ reserved' = task[w].seen + task[w].bytes
  /\ Moves(w, Holds(w))
  /\ UNCHANGED <<medium, free, entry, probe>>

\* compare_exchange_weak: a counter that moved on sends the task back.
compare_exchange(w) ==
  /\ TaskIs(w, "loaded")
  /\ IF reserved = task[w].seen
       THEN reserved' = reserved + task[w].bytes /\ Moves(w, Holds(w))
       ELSE /\ Moves(w, [at |-> "read", bytes |-> task[w].bytes, reading |-> task[w].reading])
            /\ UNCHANGED reserved
  /\ UNCHANGED <<medium, free, entry, probe>>

\* The bytes are written, all of them or, on a full disk, none.
WriteBytes(w) ==
  /\ TaskIs(w, "writing")
  /\ free' = IF free < task[w].bytes THEN free ELSE free - task[w].bytes
  /\ Moves(w, [at |-> "written", bytes |-> task[w].bytes])
  /\ UNCHANGED <<medium, entry, probe, reserved>>

\* The reservation is dropped, with its task if need be.
DropReservation(w) ==
  /\ task[w].at \in {"writing", "written"}
  /\ reserved' = reserved - task[w].bytes
  /\ Gives(w)
  /\ UNCHANGED <<medium, free, entry, probe>>

\* Files of others come and go.
OtherFiles(n) ==
  /\ n # free /\ free' = n
  /\ UNCHANGED <<medium, entry, probe, task, reserved>>

DiskNext ==
  \/ peek_and_refresh \/ ProbeMeasures \/ finish_refresh \/ ReadingAges
  \/ \E n \in 0 .. MaxFree : OtherFiles(n)
  \/ \E w \in Writers :
       \/ \E n \in WriteSizes : get(w, n)
       \/ CallerTimeout(w) \/ LoadReserved(w) \/ compare_exchange(w)
       \/ WriteBytes(w) \/ DropReservation(w)

DiskSpec == DiskInit /\ [][DiskNext]_diskVars

-----------------------------------------------------------------------------
\* Writes under way never hold more than a reading one of them was granted on
\* leaves after the reserve, however the loads and exchanges of the counter
\* interleave (UploadChunkReservation::acquire, ZipTempReservation::acquire).
GrantedWritesFit ==
  LET Under == {w \in Writers : TaskIs(w, "writing")}
      total == MapThenSumSet(LAMBDA w : task[w].bytes, Under)
      margin == IF medium = "storage" THEN StorageReserve + 1 ELSE TempReserve
  IN Under # {} => \E w \in Under : total + margin <= task[w].reading

\* A flight that callers wait for has its probe: whatever became of it, the next
\* caller does not wait for a flight that nobody ends (CacheEntry::lookup).
FlightHasProbe == entry.flight <=> probe # NoValue

\* The free space that writers rely on is measured and not promised twice
\* (DiskStatsCache, the two reservations).
SpaceAccounted == GrantedWritesFit /\ FlightHasProbe
=============================================================================
