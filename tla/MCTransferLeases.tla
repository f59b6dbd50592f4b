-------------------------- MODULE MCTransferLeases --------------------------
(* Model-checking instance of TransferLeases and, side by side with it, of    *)
(* the progress budget of the transfer queue, of the preview sessions and of  *)
(* the preview page.  `part` picks the one that moves; they share no          *)
(* variable.                                                                  *)
EXTENDS TransferLeases, TransferProgress, PreviewSessions, TLC

CONSTANTS s1, c1, c2, r1, t1, t2, t3

MCShares == {s1}
MCClients == {c1, c2}
MCResources == {r1}
MCLeaseTokens == {t1, t2, t3}
MCMaxDownloads == [s \in MCShares |-> 1]
MCShareExpires == [s \in MCShares |-> 4]

Symmetry == Permutations(MCClients) \cup Permutations(MCLeaseTokens)

MCSessionLimits == [resource |-> 2, owner |-> 3, share |-> 4, all |-> 4]

VARIABLE part

Parts == {"leases", "progress", "previews", "pages"}

\* What a component that does not move starts from makes no difference.
Still(name, condition) == part # name => condition

MCInit ==
  /\ part \in Parts
  /\ Init /\ Still("leases", \A s \in Shares : ~shares[s].protected)
  /\ ProgressInit
  /\ PreviewSessionsInit
  /\ PagesInit

MCNext ==
  \/ /\ part = "leases" /\ Next
     /\ UNCHANGED <<progressVars, previews, pageVars>>
  \/ /\ part = "progress" /\ ProgressNext
     /\ UNCHANGED <<vars, previews, pageVars>>
  \/ /\ part = "previews" /\ PreviewSessionsNext
     /\ UNCHANGED <<vars, progressVars, pageVars>>
  \/ /\ part = "pages" /\ PagesNext
     /\ UNCHANGED <<vars, progressVars, previews>>

mcVars == <<part, vars, progressVars, previews, pageVars>>
MCSpec == MCInit /\ [][MCNext /\ UNCHANGED part]_mcVars

-----------------------------------------------------------------------------
\* Neither the rows nor the texts of previews outgrow their limits
\* (create_preview_session, read_preview_with_resources).
PreviewsBounded == PreviewLimits /\ PreviewPageBounded
=============================================================================
