-------------------------- MODULE MultipartScanner --------------------------
(***************************************************************************)
(* The guard before the multipart parser (src/multipart_guard.rs): it      *)
(* follows a body byte by byte through preamble, boundary lines, headers   *)
(* and contents with three incremental matchers, whatever chunks the body  *)
(* arrives in, and ends the stream at the first limit that is exceeded.    *)
(* Bytes are CR, LF, "-", the bytes of the boundary, blanks and others.    *)
(***************************************************************************)
EXTENDS Naturals, Sequences

CONSTANTS
  Boundary,          \* the boundary parameter, a sequence of bytes
  OtherBytes,        \* bytes that are no part of a delimiter
  MaxPreamble,       \* max_preamble_bytes
  MaxHeader          \* max_header_bytes

ASSUME ScannerAssumption ==
  /\ Boundary \in Seq(STRING) /\ Boundary # <<>>
  /\ MaxPreamble \in Nat /\ MaxHeader \in Nat

VARIABLES
  scan,    \* the scanner: its phase, counters and matchers
  recent   \* history: the last bytes since the phase began

scannerVars == <<scan, recent>>

Bytes == {"CR", "LF", "-", " "} \cup {Boundary[i] : i \in DOMAIN Boundary} \cup OtherBytes

initial_boundary == <<"-", "-">> \o Boundary
body_boundary == <<"CR", "LF", "-", "-">> \o Boundary
header_end == <<"CR", "LF", "CR", "LF">>

-----------------------------------------------------------------------------
(* ByteMatcher: Knuth, Morris and Pratt                                    *)

\* matched falls back along the prefix table until the byte fits.
Fallback(pattern, prefix, matched, byte) ==
  LET back[m \in 0 .. Len(pattern)] ==
        IF m > 0 /\ byte # pattern[m + 1] THEN back[prefix[m]] ELSE m
  IN back[matched]

\* prefix[i]: the longest proper prefix of the first i bytes that also ends them.
prefix_table(pattern) ==
  LET table[i \in 1 .. Len(pattern)] ==
        IF i = 1 THEN <<0>>
        ELSE LET before == table[i - 1]
                 m == Fallback(pattern, before, before[i - 1], pattern[i])
             IN Append(before, IF pattern[i] = pattern[m + 1] THEN m + 1 ELSE 0)
  IN table[Len(pattern)]

\* Mutant: a byte that does not fit starts over.
StartOver(pattern, matched, byte) ==
  IF byte = pattern[matched + 1] THEN matched + 1 ELSE 0

\* The bytes matched after one more byte; Len(pattern) ends the phase.
feed(pattern, matched, byte) ==
  LET m == Fallback(pattern, prefix_table(pattern), matched, byte)
  IN IF byte = pattern[m + 1] THEN m + 1 ELSE 0

-----------------------------------------------------------------------------
ScannerInit ==
  /\ scan = [phase |-> "preamble", seen |-> 0, first |-> 0, matched |-> 0]
  /\ recent = <<>>

Enter(phase) == [phase |-> phase, seen |-> 0, first |-> 0, matched |-> 0]
\* The first violation ends the stream (GuardedMultipartStream::poll_next).
Violation == Enter("terminal")

\* first: the match of the boundary without its line break, at the start only.
scan_preamble(byte) ==
  LET seen == scan.seen + 1
      first == IF seen <= Len(initial_boundary) THEN feed(initial_boundary, scan.first, byte) ELSE 0
      matched == feed(body_boundary, scan.matched, byte)
      at_start == first = Len(initial_boundary)
      after == matched = Len(body_boundary)
      length == seen - (IF at_start THEN Len(initial_boundary) ELSE Len(body_boundary))
  IN CASE at_start \/ after -> IF length > MaxPreamble THEN Violation ELSE Enter("suffix")
       [] ~at_start /\ ~after /\ seen > MaxPreamble + Len(body_boundary) -> Violation
       [] OTHER -> [scan EXCEPT !.seen = seen, !.first = first, !.matched = matched]

\* After a boundary: two hyphens, or padding and a line break.
scan_boundary_suffix(byte) ==
  CASE scan.phase = "suffix" /\ byte = "-" -> Enter("closing")
    [] scan.phase \in {"suffix", "padding"} /\ byte = " " ->
         IF scan.seen + 1 > MaxHeader THEN Violation
         ELSE [scan EXCEPT !.phase = "padding", !.seen = @ + 1]
    [] scan.phase \in {"suffix", "padding"} /\ byte = "CR" -> Enter("line feed")
    [] scan.phase = "closing" /\ byte = "-" -> Enter("epilogue")
    [] scan.phase = "line feed" /\ byte = "LF" -> Enter("headers")
    [] OTHER -> Violation

scan_header(byte) ==
  LET seen == scan.seen + 1
      matched == feed(header_end, scan.matched, byte)
  IN CASE matched = Len(header_end) ->
            IF seen - Len(header_end) > MaxHeader THEN Violation ELSE Enter("body")
       [] matched < Len(header_end) /\ seen > MaxHeader + Len(header_end) -> Violation
       [] OTHER -> [scan EXCEPT !.seen = seen, !.matched = matched]

\* memchr skips to the next CR while nothing is matched.
scan_body(byte) ==
  LET matched == IF scan.matched = 0 /\ byte # "CR" THEN 0
                 ELSE feed(body_boundary, scan.matched, byte)
  IN IF matched = Len(body_boundary) THEN Enter("suffix")
     ELSE [scan EXCEPT !.matched = matched]

ScannedByte(byte) ==
  CASE scan.phase = "preamble" -> scan_preamble(byte)
    [] scan.phase \in {"suffix", "padding", "closing", "line feed"} -> scan_boundary_suffix(byte)
    [] scan.phase = "headers" -> scan_header(byte)
    [] scan.phase = "body" -> scan_body(byte)
    [] scan.phase = "epilogue" -> scan

LastOf(s, n) == IF Len(s) <= n THEN s ELSE SubSeq(s, Len(s) - n + 1, Len(s))
Matching == {"preamble", "headers", "body"}

poll_next(byte) ==
  /\ scan.phase # "terminal"
  /\ scan' = ScannedByte(byte)
  /\ recent' = IF scan'.phase = scan.phase /\ scan.phase \in Matching
                 THEN LastOf(Append(recent, byte), Len(body_boundary)) ELSE <<>>

\* The end of the body: only after the closing boundary, an error anywhere else.
finish_body ==
  /\ scan.phase # "terminal"
  /\ scan' = Violation
  /\ recent' = <<>>

\* The next request.
NextBody == scan.phase = "terminal" /\ scan' = Enter("preamble") /\ recent' = <<>>

ScannerNext == (\E byte \in Bytes : poll_next(byte)) \/ finish_body \/ NextBody
ScannerSpec == ScannerInit /\ [][ScannerNext]_scannerVars

-----------------------------------------------------------------------------
EndsWith(s, t) == Len(t) <= Len(s) /\ LastOf(s, Len(t)) = t
Begun(s, pattern) ==
  CHOOSE k \in 0 .. Len(pattern) :
    /\ EndsWith(s, SubSeq(pattern, 1, k))
    /\ \A l \in k + 1 .. Len(pattern) : ~EndsWith(s, SubSeq(pattern, 1, l))

\* After every byte a matcher stands at the longest beginning of its pattern that
\* ends the bytes since the phase began, so that no delimiter is missed, however
\* its bytes overlap with an earlier attempt and however the body is cut into
\* chunks (ByteMatcher::feed, MultipartScanner::scan).
MatcherExact ==
  /\ scan.phase \in {"preamble", "body"} => scan.matched = Begun(recent, body_boundary)
  /\ scan.phase = "headers" => scan.matched = Begun(recent, header_end)
  /\ scan.phase = "preamble" /\ scan.seen < Len(initial_boundary) =>
       scan.first = Begun(recent, initial_boundary)
=============================================================================
