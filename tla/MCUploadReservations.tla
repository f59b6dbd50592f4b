------------------------ MODULE MCUploadReservations ------------------------
(* Model-checking instance of UploadReservations and, side by side with it,   *)
(* of the upload requests of visitors and of administrators, their forms sent *)
(* twice, the disk space they ask for and the scanner their bodies pass.      *)
(* `part` picks the one that moves; they share no variable.                   *)
EXTENDS UploadReservations, PublicUpload, AdminUpload, UploadReplay, DiskSpace,
        MultipartScanner, TLC

CONSTANTS s1, t1, t2, t3

MCShares == {s1}
MCTokens == {t1, t2, t3}
MCTotalLimits == {1, 2}
MCFileLimits == {1, 2}
MCShareExpires == [s \in MCShares |-> 2]

MCReservationSteps == [initial |-> 4, maximum |-> 4]
MCBoundary == <<"b">>

Symmetry == Permutations(MCTokens)

VARIABLE part

Parts == {"reservations", "upload", "admin", "replay", "disk", "scanner"}

VisitorForm == [by |-> "visitor", key |-> TRUE, replacements |-> TRUE, proof |-> "none", upload_only |-> FALSE]

\* What a component that does not move starts from makes no difference.
Still(name, condition) == part # name => condition

MCInit ==
  /\ part \in Parts
  /\ Init /\ Still("reservations", \A s \in Shares : shares[s] = NewShare(1, 1))
  /\ PublicUploadInit /\ Still("upload", replacing)
  /\ AdminUploadInit /\ Still("admin", replacements)
  /\ UploadReplayInit /\ Still("replay", request = VisitorForm)
  /\ DiskInit /\ Still("disk", medium = "storage")
  /\ ScannerInit

MCNext ==
  \/ part = "reservations" /\ Next
     /\ UNCHANGED <<uploadVars, adminUploadVars, replayVars, diskVars, scannerVars>>
  \/ part = "upload" /\ PublicUploadNext
     /\ UNCHANGED <<vars, adminUploadVars, replayVars, diskVars, scannerVars>>
  \/ part = "admin" /\ AdminUploadNext
     /\ UNCHANGED <<vars, uploadVars, replayVars, diskVars, scannerVars>>
  \/ part = "replay" /\ UploadReplayNext
     /\ UNCHANGED <<vars, uploadVars, adminUploadVars, diskVars, scannerVars>>
  \/ part = "disk" /\ DiskNext
     /\ UNCHANGED <<vars, uploadVars, adminUploadVars, replayVars, scannerVars>>
  \/ part = "scanner" /\ ScannerNext
     /\ UNCHANGED <<vars, uploadVars, adminUploadVars, replayVars, diskVars>>

mcVars == <<part, vars, uploadVars, adminUploadVars, replayVars, diskVars, scannerVars>>
MCSpec == MCInit /\ [][MCNext /\ UNCHANGED part]_mcVars
=============================================================================
