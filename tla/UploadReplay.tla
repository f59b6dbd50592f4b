---------------------------- MODULE UploadReplay ----------------------------
(***************************************************************************)
(* The form of an upload, read twice.  The first time it is staged, and    *)
(* the digest of its metadata is bound to the upload ID; once that ID is   *)
(* completed, the same form sent again is only hashed, by a second parser, *)
(* and is answered from the receipt if the digests agree.  Both parsers    *)
(* read one stream of fields here.  The rules of administrators and of     *)
(* visitors differ; a digest is the record it is computed from.            *)
(***************************************************************************)
EXTENDS Naturals, Sequences

CONSTANTS
  Directories,  \* names a path or folder field may have, besides the empty one
  Absent

FieldKinds == {"upload_id", "path", "folder", "overwrite", "csrf", "file"}
MaxMultipartFields == 6

VARIABLES
  request,  \* who uploads, and what surrounds the form
  stage,    \* "id": read ahead up to the upload ID; "fields"; "ended"
  staging,  \* the first parser, and
  replay    \* the second one, or what each of them ended with

replayVars == <<request, stage, staging, replay>>

\* A parser that has read nothing.
Blank(csrf_validated) ==
  [fields |-> 0, id_seen |-> FALSE, base |-> Absent, folder |-> Absent,
   overwrite |-> Absent, csrf |-> csrf_validated, csrf_seen |-> FALSE, file |-> FALSE]
Refused == [refused |-> TRUE]
Reading(p) == "fields" \in DOMAIN p
Digested(p) == "directory" \in DOMAIN p

UploadReplayInit ==
  /\ request \in [by: {"admin", "visitor"}, key: BOOLEAN,  \* Idempotency-Key header
                  replacements: BOOLEAN,                   \* replacements_allowed
                  proof: {"required", "header", "none"},   \* the visitor's CSRF proof
                  upload_only: BOOLEAN]
  /\ request.by = "admin" => request.proof = "required" /\ ~request.upload_only
  /\ stage = IF request.key THEN "fields" ELSE "id"
  /\ staging = Blank(request.proof # "required")
  /\ replay = Blank(request.proof # "required")

-----------------------------------------------------------------------------
(* Fields.  A field has a kind and a value; for an ID or a proof the value  *)
(* is whether it is the expected one, for an option whether it is "1".      *)

Values(kind) == IF kind \in {"path", "folder"} THEN {<<>>} \cup {<<d>> : d \in Directories} ELSE BOOLEAN

\* A visitor who may only upload has no say in the directory.
normalize_public_upload_subdir(value) == IF request.upload_only THEN <<>> ELSE value

\* The field in the parser's state.
Read(p, kind, value) ==
  LET q == [p EXCEPT !.fields = @ + 1]
  IN CASE kind = "upload_id" -> [q EXCEPT !.id_seen = TRUE]
       [] kind = "path" -> [q EXCEPT !.base = normalize_public_upload_subdir(value)]
       [] kind = "folder" -> [q EXCEPT !.folder = value]
       [] kind = "overwrite" -> [q EXCEPT !.overwrite = value]
       [] kind = "csrf" -> [q EXCEPT !.csrf_seen = TRUE, !.csrf = TRUE]
       [] kind = "file" -> [q EXCEPT !.file = TRUE]

Unread(p, kind) ==
  CASE kind = "upload_id" -> ~p.id_seen
    [] kind = "path" -> p.base = Absent
    [] kind = "folder" -> p.folder = Absent
    [] kind = "overwrite" -> p.overwrite = Absent
    [] kind = "csrf" -> ~p.csrf_seen
    [] kind = "file" -> ~p.file

\* A value both parsers refuse: a foreign ID, and a proof that is wrong where one
\* is asked for.
Acceptable(kind, value) ==
  /\ kind = "upload_id" => value
  /\ kind = "csrf" => value \/ request.proof = "none"

-----------------------------------------------------------------------------
(* The first parser                                                        *)

\* No replacement where others write to the storage.
MayOverwrite(kind, value) == kind = "overwrite" /\ value => request.replacements

\* AdminUploadParser: each field once and before the file, the path and the proof
\* before it as well.
AdminUploadParser(p, kind, value) ==
  /\ Unread(p, kind) /\ ~p.file
  /\ kind = "file" => p.base # Absent /\ p.csrf_seen

\* PublicUploadParser: only the overwrite option may follow the file.
PublicUploadParser(p, kind, value) ==
  /\ Unread(p, kind) /\ (p.file => kind = "overwrite")
  /\ kind = "file" => p.csrf

FirstPass(p, kind, value) ==
  IF /\ p.fields < MaxMultipartFields /\ Acceptable(kind, value) /\ MayOverwrite(kind, value)
     /\ IF request.by = "admin" THEN AdminUploadParser(p, kind, value)
                                ELSE PublicUploadParser(p, kind, value)
    THEN Read(p, kind, value)
    ELSE Refused

OrEmpty(path) == IF path = Absent THEN <<>> ELSE path

\* What is published, and the metadata of PreparedAdminUpload::fingerprint and
\* PreparedUpload::fingerprint; name, size and content are the file's.
fingerprint(p) ==
  IF ~p.file THEN Refused
  ELSE IF request.by = "admin"
    THEN [directory |-> p.base \o OrEmpty(p.folder), overwrite |-> p.overwrite = TRUE]
    ELSE [directory |-> <<OrEmpty(p.base), OrEmpty(p.folder)>>, overwrite |-> p.overwrite = TRUE]

-----------------------------------------------------------------------------
(* The second parser                                                       *)

\* replay_fingerprint and parse_replay_prefix.
ReplayPass(p, kind, value) ==
  IF /\ p.fields < MaxMultipartFields /\ Acceptable(kind, value) /\ Unread(p, kind)
     /\ p.file => kind = "overwrite" /\ request.by # "admin"
    THEN Read(p, kind, value)
    ELSE Refused

Slash == "/"

\* Mutant: an absent option is not the same as one that was not set.
FinishUndefaulted(p) ==
  IF ~p.file \/ ~p.csrf \/ (request.by = "admin" /\ p.base = Absent) THEN Refused
  ELSE IF request.by = "admin"
    THEN [directory |-> p.base \o OrEmpty(p.folder), overwrite |-> p.overwrite]
    ELSE [directory |-> <<OrEmpty(p.base), OrEmpty(p.folder)>>, overwrite |-> p.overwrite]

\* The metadata of the second pass.  Below a directory an administrator's folder
\* is appended with a slash even if it is empty.
finish_replay_fingerprint(p) ==
  IF ~p.file \/ ~p.csrf \/ (request.by = "admin" /\ p.base = Absent) THEN Refused
  ELSE IF request.by = "admin"
    THEN [directory |-> IF p.folder = <<>> /\ p.base # <<>> THEN Append(p.base, Slash)
                        ELSE p.base \o OrEmpty(p.folder),
          overwrite |-> p.overwrite = TRUE]
    ELSE [directory |-> <<OrEmpty(p.base), OrEmpty(p.folder)>>, overwrite |-> p.overwrite = TRUE]

-----------------------------------------------------------------------------
(* The stream                                                              *)

Pass(parser(_, _, _), p, kind, value) == IF Reading(p) THEN parser(p, kind, value) ELSE p
BothRead(kind, value) ==
  /\ staging' = Pass(FirstPass, staging, kind, value)
  /\ replay' = Pass(ReplayPass, replay, kind, value)

\* Without the header, fields are read ahead until the ID, and a file before it
\* ends the request.  Both parsers count the fields read ahead.
take_upload_id(kind, value) ==
  /\ stage = "id"
  /\ IF kind = "file"
       THEN stage' = "ended" /\ staging' = Refused /\ replay' = Refused
       ELSE /\ stage' = IF kind = "upload_id" THEN "fields" ELSE "id"
            /\ kind = "upload_id" => value
            /\ BothRead(kind, value)
  /\ UNCHANGED request

NextField(kind, value) ==
  /\ stage = "fields" /\ (Reading(staging) \/ Reading(replay))
  /\ BothRead(kind, value)
  /\ UNCHANGED <<request, stage>>

EndOfForm ==
  /\ stage \in {"id", "fields"}
  /\ staging' = IF stage = "fields" /\ Reading(staging) THEN fingerprint(staging) ELSE Refused
  /\ replay' = IF stage = "fields" /\ Reading(replay) THEN finish_replay_fingerprint(replay) ELSE Refused
  /\ stage' = "ended"
  /\ UNCHANGED request

UploadReplayNext ==
  \/ \E kind \in FieldKinds : \E value \in Values(kind) : take_upload_id(kind, value) \/ NextField(kind, value)
  \/ EndOfForm

UploadReplaySpec == UploadReplayInit /\ [][UploadReplayNext]_replayVars

-----------------------------------------------------------------------------
\* "The returned digest uses exactly the metadata of the first pass": the form
\* that was accepted and completed has the same digest when it is sent again.
ReplayUsesSameMetadata == stage = "ended" /\ Digested(staging) => replay = staging

\* The only difference: an administrator's form that names one directory may get
\* a slash after it, which is what an empty folder field below it does.  Where it
\* names none, or a folder below a directory, the two passes agree.
ReplayAgrees ==
  stage = "ended" /\ Digested(staging) =>
    replay \in {staging} \cup
      (IF request.by = "admin" /\ Len(staging.directory) = 1
       THEN {[staging EXCEPT !.directory = Append(@, Slash)]} ELSE {})
=============================================================================
