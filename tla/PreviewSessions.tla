--------------------------- MODULE PreviewSessions ---------------------------
(***************************************************************************)
(* The short-lived sessions with which a browser fetches the picture or    *)
(* video of a preview page.  There are only so many of them per resource,  *)
(* per owner, per share and altogether; a new session of a resource evicts *)
(* the oldest ones of the same owner before the limits refuse it.          *)
(***************************************************************************)
EXTENDS Integers, Sequences, FiniteSets

CONSTANTS
  PreviewTokens,
  PreviewShares, PreviewPaths, Owners,
  SessionLimits,  \* [resource, owner, share, all]
  Lifetime,       \* of a session, in ticks
  NoPreview

ASSUME PreviewAssumption ==
  /\ Lifetime \in Nat \ {0}
  /\ \A l \in {"resource", "owner", "share", "all"} : SessionLimits[l] \in Nat \ {0}

VARIABLE previews   \* token -> row of public_preview_sessions

PreviewSessionsInit == previews = [t \in PreviewTokens |-> NoPreview]

\* An expired row stays until the next session is created, but is not found.
preview_session(t) == previews[t] # NoPreview /\ previews[t].left > 0
AllPreviews == {t \in PreviewTokens : preview_session(t)}
OfShare(s) == {t \in AllPreviews : previews[t].share = s}
OfOwner(s, o) == {t \in OfShare(s) : previews[t].owner = o}
Bucket(s, p, o) == {t \in OfOwner(s, o) : previews[t].path = p}

\* How many of a bucket's rows stay (the LIMIT of the DELETE).
Kept(n) == IF n < SessionLimits.resource - 1 THEN n ELSE SessionLimits.resource - 1

bucket_evictions(n) ==
  IF n > SessionLimits.resource - 1 THEN n - (SessionLimits.resource - 1) ELSE 0

\* The newest of the bucket; a tie is broken by the hash of the token.
Newest(bucket, n) ==
  {keep \in SUBSET bucket :
     /\ Cardinality(keep) = n
     /\ \A k \in keep, d \in bucket \ keep : previews[k].left >= previews[d].left}

\* One transaction: expired rows go, the limits are tried counting what would
\* be evicted, then the bucket's oldest rows make room for the new one.
create_preview_session(t, s, p, o) ==
  LET bucket == Bucket(s, p, o)
      gone == bucket_evictions(Cardinality(bucket))
      Fits(rows, limit) == (Cardinality(rows) - gone) + 1 <= limit
  IN /\ ~preview_session(t)
     /\ IF /\ Fits(OfOwner(s, o), SessionLimits.owner)
           /\ Fits(OfShare(s), SessionLimits.share)
           /\ Fits(AllPreviews, SessionLimits.all)
          THEN \E keep \in Newest(bucket, Kept(Cardinality(bucket))) :
                 previews' = [u \in PreviewTokens |->
                   CASE u = t -> [share |-> s, path |-> p, owner |-> o, left |-> Lifetime]
                     [] u # t /\ preview_session(u) /\ u \notin bucket \ keep -> previews[u]
                     [] OTHER -> NoPreview]
          ELSE previews' = [u \in PreviewTokens |->
                 IF preview_session(u) THEN previews[u] ELSE NoPreview]

\* ON DELETE CASCADE.
DeletePreviewedShare(s) ==
  previews' = [u \in PreviewTokens |->
    IF previews[u] # NoPreview /\ previews[u].share = s THEN NoPreview ELSE previews[u]]

PreviewTick ==
  previews' = [t \in PreviewTokens |->
    IF preview_session(t) THEN [previews[t] EXCEPT !.left = @ - 1] ELSE previews[t]]

PreviewSessionsNext ==
  \/ \E t \in PreviewTokens, s \in PreviewShares, p \in PreviewPaths, o \in Owners :
       create_preview_session(t, s, p, o)
  \/ \E s \in PreviewShares : DeletePreviewedShare(s)
  \/ PreviewTick

PreviewSessionsSpec == PreviewSessionsInit /\ [][PreviewSessionsNext]_previews

-----------------------------------------------------------------------------
\* However sessions are created, evicted and expire, no limit of db/model.rs is
\* exceeded: the checks count the evictions exactly as the DELETE performs them.
PreviewLimits ==
  /\ Cardinality(AllPreviews) <= SessionLimits.all
  /\ \A s \in PreviewShares :
       /\ Cardinality(OfShare(s)) <= SessionLimits.share
       /\ \A o \in Owners :
            /\ Cardinality(OfOwner(s, o)) <= SessionLimits.owner
            /\ \A p \in PreviewPaths : Cardinality(Bucket(s, p, o)) <= SessionLimits.resource

-----------------------------------------------------------------------------
(***************************************************************************)
(* The preview page of a text file.  The text is read into memory on a     *)
(* blocking thread, under a permit of the renderer, and sent escaped and   *)
(* in chunks inside a page whose Content-Length was computed beforehand.   *)
(***************************************************************************)
CONSTANTS
  PageRequests,
  RenderBudget,      \* permits of the text renderer
  MaxText,           \* bound on the characters of a file
  MaxPreviewSize,    \* bytes of a text that is previewed
  MaxRendered,       \* bytes of its escaped form
  PageBytes,         \* bytes of the page on each side of the text
  PreviewChunk,      \* BUFFERED_RESPONSE_CHUNK_BYTES
  NoPage

ASSUME PageAssumption == RenderBudget \in Nat /\ PreviewChunk \in Nat \ {0}

VARIABLES
  rendering,  \* free permits
  page        \* request -> its state

pageVars == <<rendering, page>>

PagesInit ==
  /\ rendering = RenderBudget
  /\ page = [r \in PageRequests |-> NoPage]

\* A character is told apart by its length and by what it is escaped to.
len_utf8 == [amp |-> 1, quot |-> 1, plain |-> 1, wide |-> 3]
Texts == UNION {[1 .. n -> DOMAIN len_utf8] : n \in 0 .. MaxText}

escaped_character_len(c) ==
  [amp |-> 5, quot |-> 6, plain |-> len_utf8.plain, wide |-> len_utf8.wide][c]
push_html_escaped(c) ==
  [amp |-> 5 (* &amp; *), quot |-> 6 (* &quot; *), plain |-> len_utf8.plain, wide |-> len_utf8.wide][c]

\* The sum of f over the characters of s.
Total(s, f) ==
  LET upTo[n \in 0 .. Len(s)] == IF n = 0 THEN 0 ELSE upTo[n - 1] + f[s[n]] IN upTo[Len(s)]
escaped_html_len(s) == Total(s, [c \in DOMAIN len_utf8 |-> escaped_character_len(c)])
Pushed(s) == Total(s, [c \in DOMAIN len_utf8 |-> push_html_escaped(c)])

Turn(r, next) == page' = [page EXCEPT ![r] = next]
Is(r, at) == page[r] # NoPage /\ page[r].at = at
EndPage(r) ==
  /\ rendering' = IF page[r].permit THEN rendering + 1 ELSE rendering
  /\ Turn(r, NoPage)

\* The permit is taken before anything is read.  A file over the limit by its
\* metadata is not read at all.
public_preview(r) ==
  /\ page[r] = NoPage /\ rendering > 0
  /\ rendering' = rendering - 1
  /\ Turn(r, [at |-> "reading", client |-> TRUE, permit |-> TRUE])

\* Mutant: the permit stays with the handler, which the visitor may drop.
PermitWithHandler(r) ==
  /\ Is(r, "reading") /\ page[r].client
  /\ Turn(r, [page[r] EXCEPT !.client = FALSE, !.permit = FALSE])
  /\ rendering' = rendering + 1

\* The visitor leaves while the thread reads: the thread owns the permit.
read_preview_with_resources(r) ==
  /\ Is(r, "reading") /\ page[r].client
  /\ Turn(r, [page[r] EXCEPT !.client = FALSE])
  /\ UNCHANGED rendering

\* The response of a text: its length is announced before the first byte.
render_text(s, permit) ==
  [at |-> "stream", permit |-> permit, phase |-> 0, written |-> 0, text |-> s, sent |-> 0,
   escaped_remaining |-> escaped_html_len(s), length |-> (2 * PageBytes) + escaped_html_len(s)]

\* The thread ends.  Whatever the metadata said, at most one byte more than the
\* limit is read, and a text beyond a limit becomes the "too large" page.
read_text_preview(r, s) ==
  /\ Is(r, "reading")
  /\ IF page[r].client /\ Total(s, len_utf8) <= MaxPreviewSize /\ escaped_html_len(s) <= MaxRendered
       THEN Turn(r, render_text(s, page[r].permit)) /\ UNCHANGED rendering
       ELSE EndPage(r)

Least(a, b) == IF a < b THEN a ELSE b

\* poll_next, phases 0 and 2: the page around the text, slice by slice.
PollPage(r) ==
  LET n == Least(PreviewChunk, PageBytes - page[r].written)
  IN /\ Is(r, "stream") /\ page[r].phase \in {0, 2}
     /\ Turn(r, IF n = 0
                  THEN [page[r] EXCEPT !.phase = @ + 1, !.written = 0]
                  ELSE [page[r] EXCEPT !.written = @ + n, !.sent = @ + n])
     /\ UNCHANGED rendering

\* Phase 1: one chunk of characters, at least one and otherwise as many as fit;
\* each is paid from what remains of the announced length.
PollText(r) ==
  LET s == page[r].text
      n == CHOOSE n \in 1 .. Len(s) :
             /\ n = 1 \/ Pushed(SubSeq(s, 1, n)) <= PreviewChunk
             /\ n = Len(s) \/ Pushed(SubSeq(s, 1, n + 1)) > PreviewChunk
      counted == escaped_html_len(SubSeq(s, 1, n))
  IN /\ Is(r, "stream") /\ page[r].phase = 1
     /\ Turn(r, CASE s = <<>> /\ page[r].escaped_remaining = 0 -> [page[r] EXCEPT !.phase = 2]
                  [] s # <<>> /\ counted <= page[r].escaped_remaining ->
                       [page[r] EXCEPT !.text = SubSeq(s, n + 1, Len(s)),
                                       !.sent = @ + Pushed(SubSeq(s, 1, n)),
                                       !.escaped_remaining = @ - counted]
                  [] OTHER -> [page[r] EXCEPT !.at = "failed"])
     /\ UNCHANGED rendering

\* The body ends, or the visitor goes: the permit is dropped with the stream.
DropPage(r) ==
  /\ Is(r, "stream") \/ Is(r, "failed")
  /\ EndPage(r)

PagesNext ==
  \E r \in PageRequests :
    \/ public_preview(r)
    \/ read_preview_with_resources(r)
    \/ \E s \in Texts : read_text_preview(r, s)
    \/ PollPage(r)
    \/ PollText(r)
    \/ DropPage(r)

PagesSpec == PagesInit /\ [][PagesNext]_pageVars

-----------------------------------------------------------------------------
\* No stream fails half-way for its length, and one that is read to its end has
\* sent exactly the bytes the Content-Length header announced.
PreviewLengthExact ==
  \A r \in PageRequests :
    /\ ~Is(r, "failed")
    /\ Is(r, "stream") /\ page[r].phase = 3 => page[r].sent = page[r].length

\* At most RenderBudget texts are in memory, those included whose visitors left
\* while the thread was reading.
PreviewMemoryAdmitted == Cardinality({r \in PageRequests : page[r] # NoPage}) <= RenderBudget

\* A preview costs what was admitted and announced for it: its text is counted
\* against the budget until the last byte, and the page is as long as it said.
PreviewPageBounded == PreviewLengthExact /\ PreviewMemoryAdmitted
=============================================================================
