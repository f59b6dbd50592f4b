----------------------------- MODULE ZipArchive -----------------------------
(***************************************************************************)
(* One ZIP download: plan_zip walks the shared directory and records what  *)
(* the archive will hold, write_zip_archive writes it, to a temporary file *)
(* or through a bounded channel to the response, and the files may change  *)
(* in between and underneath both.                                         *)
(***************************************************************************)
EXTENDS Integers, Sequences, FiniteSets, SequencesExt

CONSTANTS
  ZipEntries,        \* what the directory holds, besides the root
  ZipRoot,           \* the shared directory
  ParentOf,          \* [ZipEntries -> directory]
  KindOf,            \* [ZipEntries -> {"file", "dir", "other"}]
  NameLength,        \* bytes of an entry's own name
  MaxLength,         \* largest file
  ZipSettings,       \* records [entries, files, data, plan]: max_search_entries,
                     \*   max_zip_files, max_zip_size, ZIP_PLAN_MAX_BYTES
  DirectThreshold,   \* [size, entries]: ZIP_DIRECT_ARCHIVE_THRESHOLD,
                     \*   ZIP_DIRECT_ENTRY_THRESHOLD
  ChunkBytes,        \* BUFFERED_RESPONSE_CHUNK_BYTES
  ChannelChunks      \* ZIP_CHANNEL_CHUNKS

VARIABLES
  length,    \* the files' lengths; -1 once removed
  zip,       \* planner and writer
  channel,   \* lengths of the chunks on their way to the response, or Broken
  client     \* what the response has received

\* The item a failed worker sends.
Broken == -1

zipVars == <<length, zip, channel, client>>

\* join_display along the way from the root.
PathLength[e \in ZipEntries] ==
  IF ParentOf[e] = ZipRoot THEN NameLength ELSE PathLength[ParentOf[e]] + 1 + NameLength
\* The root's own path is ".", and every source path starts below it.
RootLength == 1
ArchiveLength(e) == PathLength[e] + IF KindOf[e] = "dir" THEN 1 ELSE 0

ZipInit ==
  /\ length \in [ZipEntries -> {1}]
  /\ \E settings \in ZipSettings :
       zip = [at |-> "plan", limits |-> settings, queue |-> <<ZipRoot>>,
              scanning |-> {}, directory |-> ZipRoot, scanned |-> 0, regular |-> 0, data |-> 0,
              room |-> 1, used |-> RootLength, files |-> <<>>, estimate |-> 0,
              next |-> 1, left |-> 0, held |-> 0, written |-> 0, buffer |-> 0]
  /\ channel = <<>>
  /\ client = [at |-> "waiting", bytes |-> 0]

Fail(reason) == zip' = [zip EXCEPT !.at = reason]

-----------------------------------------------------------------------------
(* Planning                                                                *)

PendingBytes(d) == IF d = ZipRoot THEN RootLength ELSE 2 * PathLength[d]
ListedIn(d) == {e \in ZipEntries : ParentOf[e] = d /\ length[e] >= 0}

NextDirectory ==
  /\ zip.at = "plan" /\ zip.queue # <<>>
  /\ zip' = [zip EXCEPT !.at = "scan", !.directory = Head(zip.queue),
                        !.queue = Tail(@), !.scanning = ListedIn(Head(zip.queue))]
  /\ UNCHANGED <<length, channel, client>>

release_bytes(used) == used - PendingBytes(zip.directory)

DirectoryDone ==
  /\ zip.at = "scan" /\ zip.scanning = {}
  /\ zip' = [zip EXCEPT !.at = "plan", !.used = release_bytes(@)]
  /\ UNCHANGED <<length, channel, client>>

\* The entry and, for a directory, its place in the queue are paid for before
\* either is stored.
Retained(e) ==
  LET strings == IF KindOf[e] = "dir" THEN 4 * PathLength[e] + 1 ELSE 2 * PathLength[e]
      places == 1 + IF KindOf[e] = "dir" /\ Len(zip.queue) = zip.room THEN 1 ELSE 0
  IN strings + places

add_zip_entry(e, seen) ==
  LET dir == KindOf[e] = "dir"
      used == zip.used + Retained(e)
      files == zip.regular + IF dir THEN 0 ELSE 1
      data == zip.data + IF dir THEN 0 ELSE length[e]
  IN CASE used > zip.limits.plan -> Fail("limit")
       [] ~dir /\ zip.limits.files # 0 /\ files > zip.limits.files -> Fail("limit")
       [] ~dir /\ zip.limits.data # 0 /\ data > zip.limits.data -> Fail("limit")
       [] OTHER ->
            zip' = [zip EXCEPT
              !.scanned = seen, !.scanning = @ \ {e}, !.used = used,
              !.regular = files, !.data = data,
              !.files = Append(@, [entry |-> e, len |-> IF dir THEN 0 ELSE length[e]]),
              !.queue = IF dir THEN Append(@, e) ELSE @,
              !.room = IF dir /\ Len(zip.queue) = @ THEN @ + 1 ELSE @]

\* The next entry of the open directory, in whatever order it lists them.
scan_zip_directory(e) ==
  /\ zip.at = "scan" /\ e \in zip.scanning
  /\ CASE zip.scanned >= zip.limits.entries -> Fail("limit")
       [] zip.scanned < zip.limits.entries /\ (length[e] < 0 \/ KindOf[e] = "other") ->
            zip' = [zip EXCEPT !.scanned = @ + 1, !.scanning = @ \ {e}]
       [] OTHER -> add_zip_entry(e, zip.scanned + 1)
  /\ UNCHANGED <<length, channel, client>>

\* Fixed part of an entry, 30 + 20 + 24 + 46 + 28 bytes, and of the archive.
ZIP64_ENTRY_FIXED_SIZE == 148
ZIP64_ARCHIVE_END_SIZE == 98
estimate_zip_archive_size(files) ==
  FoldLeft(LAMBDA size, f : size + f.len + ZIP64_ENTRY_FIXED_SIZE + 2 * ArchiveLength(f.entry),
           ZIP64_ARCHIVE_END_SIZE, files)

requires_direct_stream ==
  \/ zip.estimate >= DirectThreshold.size
  \/ Len(zip.files) >= DirectThreshold.entries

plan_zip ==
  /\ zip.at = "plan" /\ zip.queue = <<>>
  /\ zip' = [zip EXCEPT !.at = "write", !.estimate = estimate_zip_archive_size(zip.files),
                        !.data = 0]
  /\ UNCHANGED <<length, channel, client>>

-----------------------------------------------------------------------------
(* Writing                                                                 *)

\* The fields of each record, by their widths.
LocalHeader(n) == (4 + 5 * 2 + 3 * 4 + 2 * 2) + n + (2 * 2 + 2 * 8)
Descriptor == 2 * 4 + 2 * 8
CentralEntry(n) == (4 + 6 * 2 + 3 * 4 + 5 * 2 + 2 * 4) + n + (2 * 2 + 3 * 8)
EndRecords == (4 + 8 + 2 * 2 + 2 * 4 + 4 * 8) + (4 + 4 + 8 + 4) + (4 + 4 * 2 + 2 * 4 + 2)

\* The channel writer sends full chunks, and waits while the channel is full.
MayWrite == requires_direct_stream => zip.buffer < ChunkBytes
Wrote(z, n) == [z EXCEPT !.written = @ + n,
                         !.buffer = IF requires_direct_stream THEN @ + n ELSE @]
Planned == zip.files[zip.next]

\* A file is opened, and its length compared with the plan's.
write_zip_file ==
  /\ zip.at = "write" /\ zip.next <= Len(zip.files) /\ MayWrite
  /\ LET e == Planned.entry
         header == LocalHeader(ArchiveLength(e))
     IN CASE KindOf[e] = "dir" ->
               zip' = [Wrote(zip, header + Descriptor) EXCEPT !.next = @ + 1]
          [] KindOf[e] = "file" /\ length[e] # Planned.len ->
               zip' = [Wrote(zip, header) EXCEPT !.at = "changed"]
          [] OTHER ->
               zip' = [Wrote(zip, header) EXCEPT !.at = "copy", !.left = Planned.len,
                                                !.held = length[e]]
  /\ UNCHANGED <<length, channel, client>>

\* One read of at least a byte; a file cut short in between reads nothing.
CopyBytes(n) ==
  /\ zip.at = "copy" /\ n <= zip.left /\ MayWrite
  /\ LET position == Planned.len - zip.left
     IN IF zip.held <= position
          THEN zip' = [zip EXCEPT !.at = "changed"]
          ELSE /\ position + n <= zip.held
               /\ zip' = [Wrote(zip, n) EXCEPT
                    !.left = @ - n, !.data = @ + n,
                    !.at = IF zip.limits.data # 0 /\ zip.data + n > zip.limits.data
                             THEN "limit" ELSE @]
  /\ UNCHANGED <<length, channel, client>>

\* The file must end where the plan said, read or measured.
FinishFile ==
  /\ zip.at = "copy" /\ zip.left = 0 /\ MayWrite
  /\ zip' = IF zip.held # Planned.len
              THEN [zip EXCEPT !.at = "changed"]
              ELSE [Wrote(zip, Descriptor) EXCEPT !.at = "write", !.next = @ + 1]
  /\ UNCHANGED <<length, channel, client>>

finish_zip ==
  /\ zip.at = "write" /\ zip.next > Len(zip.files) /\ MayWrite
  /\ LET central == FoldLeft(LAMBDA n, f : n + CentralEntry(ArchiveLength(f.entry)), 0, zip.files)
     IN zip' = [Wrote(zip, central + EndRecords) EXCEPT !.at = "flush"]
  /\ UNCHANGED <<length, channel, client>>

-----------------------------------------------------------------------------
(* The channel and the response                                            *)

Receiving == client.at = "waiting"

\* A full chunk, or what is left of the archive once it is finished; the writer
\* fails when the response is gone.
send_buffer ==
  /\ requires_direct_stream
  /\ zip.buffer >= ChunkBytes \/ (zip.at = "flush" /\ zip.buffer > 0)
  /\ LET n == IF zip.buffer >= ChunkBytes THEN ChunkBytes ELSE zip.buffer
     IN IF Receiving
          THEN /\ Len(channel) < ChannelChunks
               /\ channel' = Append(channel, n)
               /\ zip' = [zip EXCEPT !.buffer = @ - n]
          ELSE Fail("gone") /\ UNCHANGED channel
  /\ UNCHANGED <<length, client>>

\* The worker's end: nothing more to say, or the error that stopped it.
WorkerDone ==
  /\ requires_direct_stream
  /\ zip.at = "flush" /\ zip.buffer = 0
  /\ zip' = [zip EXCEPT !.at = "done"]
  /\ UNCHANGED <<length, channel, client>>
\* Mutant: a failed worker just drops its sender.
FailSilently ==
  /\ zip.at \in {"changed", "limit", "gone"} /\ zip.estimate # 0
  /\ zip' = [zip EXCEPT !.at = "failed"]
  /\ UNCHANGED <<length, channel, client>>
direct_zip_stream_with_resources ==
  /\ zip.at \in {"changed", "limit", "gone"} /\ zip.estimate # 0
  /\ zip' = [zip EXCEPT !.at = "failed"]
  /\ IF requires_direct_stream /\ Receiving
       THEN Len(channel) < ChannelChunks /\ channel' = Append(channel, Broken)
       ELSE UNCHANGED channel
  /\ UNCHANGED <<length, client>>

\* A finished temporary file is served as a file of that length.
build_zip_temp ==
  /\ ~requires_direct_stream /\ zip.at = "flush"
  /\ zip' = [zip EXCEPT !.at = "done"]
  /\ client' = [at |-> "complete", bytes |-> zip.written]
  /\ UNCHANGED <<length, channel>>

Receive ==
  /\ Receiving /\ channel # <<>>
  /\ channel' = Tail(channel)
  /\ client' = IF Head(channel) = Broken
                 THEN [client EXCEPT !.at = "error"]
                 ELSE [client EXCEPT !.bytes = @ + Head(channel)]
  /\ UNCHANGED <<length, zip>>
EndOfChannel ==
  /\ Receiving /\ channel = <<>> /\ requires_direct_stream
  /\ zip.at \in {"done", "failed"}
  /\ client' = [client EXCEPT !.at = "complete"]
  /\ UNCHANGED <<length, zip, channel>>
ClientGone ==
  /\ Receiving /\ zip.estimate # 0 /\ requires_direct_stream
  /\ client' = [client EXCEPT !.at = "gone"]
  /\ channel' = <<>>
  /\ UNCHANGED <<length, zip>>

\* Other programs and other requests write into the shared directory, in
\* place or by replacing or removing a file, which an open one survives.
ChangeSource(e, n, inPlace) ==
  /\ KindOf[e] = "file" /\ length[e] >= 0 /\ n # length[e]
  /\ length' = [length EXCEPT ![e] = n]
  /\ zip' = IF zip.at = "copy" /\ Planned.entry = e /\ inPlace /\ n >= 0
              THEN [zip EXCEPT !.held = n] ELSE zip
  /\ UNCHANGED <<channel, client>>

-----------------------------------------------------------------------------
ZipNext ==
  \/ NextDirectory
  \/ DirectoryDone
  \/ \E e \in ZipEntries : scan_zip_directory(e)
  \/ plan_zip
  \/ write_zip_file
  \/ \E n \in 1 .. MaxLength : CopyBytes(n)
  \/ FinishFile
  \/ finish_zip
  \/ send_buffer
  \/ WorkerDone
  \/ direct_zip_stream_with_resources
  \/ build_zip_temp
  \/ Receive
  \/ EndOfChannel
  \/ ClientGone
  \/ \E e \in ZipEntries, n \in -1 .. MaxLength, inPlace \in BOOLEAN :
       ChangeSource(e, n, inPlace)

ZipSpec == ZipInit /\ [][ZipNext]_zipVars

-----------------------------------------------------------------------------
\* An archive the client received to the end, without an error, has exactly
\* the size the plan promised and reserved, and stays within the size limit:
\* no file that grew, shrank or vanished after the scan is in it.
CompleteArchiveIsPlanned ==
  client.at = "complete" =>
    /\ client.bytes = zip.estimate
    /\ zip.limits.data # 0 => zip.data <= zip.limits.data
    /\ zip.data = FoldLeft(LAMBDA n, f : n + f.len, 0, zip.files)

\* The planner's memory account is what it holds: the strings of the planned
\* entries and of the directories still to scan, and the slots of both.  The
\* release after each directory never takes more than was counted for it.
PlanMemoryCounted ==
  LET listed == FoldLeft(LAMBDA n, f : n + 1 + PathLength[f.entry] + ArchiveLength(f.entry), 0, zip.files)
      waiting == FoldLeft(LAMBDA n, d : n + PendingBytes(d), 0, zip.queue)
      active == IF zip.at = "scan" THEN PendingBytes(zip.directory) ELSE 0
  IN zip.at \in {"plan", "scan"} => zip.used = listed + waiting + active + zip.room - 1

\* The archive is what the plan says, and the plan costs what it counted
\* (plan_zip, write_zip_archive).
ArchiveAsPlanned == CompleteArchiveIsPlanned /\ PlanMemoryCounted
=============================================================================
