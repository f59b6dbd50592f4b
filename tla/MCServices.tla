----------------------------- MODULE MCServices -----------------------------
(* The public side, side by side: connections, responses, sharing,           *)
(* directories, downloads, archives, service tokens and the status           *)
(* endpoints.  The components share no variable here: `part` picks the one   *)
(* that moves, so TLC explores each of them completely and not their         *)
(* product.                                                                  *)
EXTENDS PublicTransfer, Shares, ResponseWork, Server, DirectoryCache, ZipArchive,
        StatusProbes, ServiceTokens

CONSTANTS a1, a2, b1, b2,               \* interchangeable in each pair
          c1, c2,
          subdir, top, inner, special      \* entries of a shared folder

A == {a1, a2}
B == {b1, b2}
C == {c1, c2}
Symmetry == Permutations(A) \cup Permutations(B)

MCStreamLimits == [all |-> 2, public |-> 1, client |-> 1]
MCBufferedLimits == [all |-> 2, client |-> 1]

MCParentOf == subdir :> ZipRoot @@ top :> ZipRoot @@ inner :> subdir @@ special :> subdir
MCKindOf == subdir :> "dir" @@ top :> "file" @@ inner :> "file" @@ special :> "other"
MCZipSettings ==
    {[entries |-> 4, files |-> 0, data |-> 2, plan |-> 16],
     [entries |-> 3, files |-> 1, data |-> 0, plan |-> 15],
     [entries |-> 4, files |-> 1, data |-> 0, plan |-> 16]}
\* One entry may be a small archive or a large one.
MCDirectThreshold == [size |-> 250, entries |-> 2]

VARIABLE part

Parts == {"transfer", "shares", "response", "server", "cache", "zip", "probes", "tokens"}

\* What a component that does not move starts from makes no difference.
Still(name, condition) == part # name => condition

MCInit ==
  /\ part \in Parts
  /\ TransferInit
  /\ SharesInit /\ Still("shares", target = [t \in Targets |-> "file"])
  /\ ResponseInit
  /\ ServerInit /\ Still("server", transport = "direct")
  /\ CacheInit
  /\ ZipInit /\ Still("zip", zip.limits.entries = 3)
  /\ StatusProbesInit
  /\ ServiceTokensInit

MCNext ==
  \/ /\ part = "transfer" /\ TransferNext
     /\ UNCHANGED <<shareVars, responseVars, serverVars, cacheVars, zipVars, probeVars,
                    tokenVars>>
  \/ /\ part = "shares" /\ SharesNext
     /\ UNCHANGED <<transferVars, responseVars, serverVars, cacheVars, zipVars, probeVars,
                    tokenVars>>
  \/ /\ part = "response" /\ ResponseNext
     /\ UNCHANGED <<transferVars, shareVars, serverVars, cacheVars, zipVars, probeVars,
                    tokenVars>>
  \/ /\ part = "server" /\ ServerNext
     /\ UNCHANGED <<transferVars, shareVars, responseVars, cacheVars, zipVars, probeVars,
                    tokenVars>>
  \/ /\ part = "cache" /\ CacheNext
     /\ UNCHANGED <<transferVars, shareVars, responseVars, serverVars, zipVars, probeVars,
                    tokenVars>>
  \/ /\ part = "zip" /\ ZipNext
     /\ UNCHANGED <<transferVars, shareVars, responseVars, serverVars, cacheVars, probeVars,
                    tokenVars>>
  \/ /\ part = "probes" /\ StatusProbesNext
     /\ UNCHANGED <<transferVars, shareVars, responseVars, serverVars, cacheVars, zipVars,
                    tokenVars>>
  \/ /\ part = "tokens" /\ ServiceTokensNext
     /\ UNCHANGED <<transferVars, shareVars, responseVars, serverVars, cacheVars, zipVars,
                    probeVars>>

mcVars ==
  <<part, transferVars, shareVars, responseVars, serverVars, cacheVars, zipVars, probeVars,
    tokenVars>>
MCSpec == MCInit /\ [][MCNext /\ UNCHANGED part]_mcVars

-----------------------------------------------------------------------------
\* What connections, responses and probes hold of the server is counted and
\* bounded, however they end (ConnectionPermit, the admission bodies,
\* spawn_blocking, readiness and monitoring).
AdmissionBounded == ConnectionsCounted /\ WorkWithinBudget /\ ProbesSerialized
=============================================================================
