---------------------------- MODULE ResponseWork ----------------------------
(***************************************************************************)
(* Admission of HTTP requests and the permits their response work holds.   *)
(* response_admission takes a permit for the handler and one budget for    *)
(* the body, and shares the latter between the handler's task, the         *)
(* response body and every blocking worker either of them starts; the      *)
(* permits return when the last of them is gone.  A client may disconnect  *)
(* at any moment, which drops the handler or the body but no worker that   *)
(* has started.                                                            *)
(***************************************************************************)
EXTENDS Integers, FiniteSets

CONSTANTS
  HttpRequests,      \* connections, each with the request it is serving
  HttpClients,       \* client_limit_key of the peer
  ResponseLimit,     \* MAX_IN_FLIGHT_RESPONSES
  StreamLimits,      \* [all, public, client]: limits of streamed bodies
  BufferedLimits,    \* [all, client]: limits of the other bodies
  MinimumChunks,     \* chunks a window needs
  NoRequest          \* nothing to serve

ASSUME ResponseAssumption ==
  /\ ResponseLimit \in Nat /\ MinimumChunks \in Nat \ {0}
  /\ StreamLimits \in [{"all", "public", "client"} -> Nat]
  /\ BufferedLimits \in [{"all", "client"} -> Nat]

VARIABLES
  http,     \* the request being served
  permits   \* free permits of Admissions

responseVars == <<http, permits>>

ResponseInit ==
  /\ http = [q \in HttpRequests |-> NoRequest]
  /\ permits = [response |-> ResponseLimit,
                stream |-> StreamLimits.all, public |-> StreamLimits.public,
                buffered |-> BufferedLimits.all,
                stream_peer |-> [c \in HttpClients |-> StreamLimits.client],
                buffered_peer |-> [c \in HttpClients |-> BufferedLimits.client]]

-----------------------------------------------------------------------------
(* Permits                                                                 *)

Kinds == {"download", "public download", "page"}
Streaming(kind) == kind # "page"

\* The public permit is tried first, then the global one, then the client's;
\* a refusal returns the ones already taken.
try_stream_permits(c, kind) ==
  /\ kind = "public download" => permits.public > 0
  /\ permits.stream > 0
  /\ permits.stream_peer[c] > 0
try_buffered_permits(c) == permits.buffered > 0 /\ permits.buffered_peer[c] > 0

\* The permits of a body of this kind, taken (n = -1) or returned (n = 1).
Budget(free, c, kind, n) ==
  IF Streaming(kind)
    THEN [free EXCEPT !.stream = @ + n, !.stream_peer[c] = @ + n,
                      !.public = IF kind = "public download" THEN @ + n ELSE @]
    ELSE [free EXCEPT !.buffered = @ + n, !.buffered_peer[c] = @ + n]

\* One owner of the shared permits is dropped; `rest` is the request without it.
ReturnLast(free, rest) ==
  IF rest.owners = {} THEN Budget(free, rest.client, rest.kind, 1) ELSE free
Gone(rest) == rest.at = "dropped" /\ ~rest.working
Left(q, free, rest) ==
  /\ permits' = ReturnLast(free, rest)
  /\ http' = [http EXCEPT ![q] = IF Gone(rest) THEN NoRequest ELSE rest]

-----------------------------------------------------------------------------
(* The middleware and the handler it runs                                  *)

response_admission(q, c, kind) ==
  /\ http[q] = NoRequest
  /\ permits.response > 0
  /\ IF Streaming(kind) THEN try_stream_permits(c, kind) ELSE try_buffered_permits(c)
  /\ permits' = Budget([permits EXCEPT !.response = @ - 1], c, kind, -1)
  /\ http' = [http EXCEPT ![q] =
       [at |-> "handler", client |-> c, kind |-> kind, owners |-> {"task"},
        working |-> FALSE, graced |-> FALSE, chunks |-> 0]]

\* Mutant: tokio's own spawn_blocking, which knows nothing of the admission.
SpawnUnadmitted(q) ==
  /\ http[q] # NoRequest /\ http[q].at \in {"handler", "body"} /\ ~http[q].working
  /\ http' = [http EXCEPT ![q].working = TRUE]
  /\ UNCHANGED permits

\* A blocking operation of the handler, or the next read of a streamed file
\* (AdmittedFile, which captured the admission when the handler made it).
spawn_blocking(q) ==
  /\ http[q] # NoRequest /\ ~http[q].working
  /\ http[q].at = "handler" \/ (http[q].at = "body" /\ Streaming(http[q].kind))
  /\ http' = [http EXCEPT ![q].working = TRUE, ![q].owners = @ \cup {"worker"}]
  /\ UNCHANGED permits

\* A worker runs to its end, whoever is still waiting for it.
WorkerEnds(q) ==
  /\ http[q] # NoRequest /\ http[q].working
  /\ Left(q, permits, [http[q] EXCEPT !.working = FALSE, !.owners = @ \ {"worker"}])

\* The handler's permit ends with the handler; the body takes over the rest.
HandlerReturns(q) ==
  /\ http[q] # NoRequest /\ http[q].at = "handler" /\ ~http[q].working
  /\ permits' = [permits EXCEPT !.response = @ + 1]
  /\ http' = [http EXCEPT ![q].at = "body", ![q].owners = (@ \ {"task"}) \cup {"body"}]
HandlerDropped(q) ==
  /\ http[q] # NoRequest /\ http[q].at = "handler"
  /\ Left(q, [permits EXCEPT !.response = @ + 1],
          [http[q] EXCEPT !.at = "dropped", !.owners = @ \ {"task"}])

-----------------------------------------------------------------------------
(* The response body                                                       *)

\* Bytes count for the window once the grace period is over.
observe_frame(q) ==
  /\ http[q] # NoRequest /\ http[q].at = "body" /\ ~http[q].working
  /\ http[q].graced /\ http[q].chunks < MinimumChunks
  /\ http' = [http EXCEPT ![q].chunks = @ + 1]
  /\ UNCHANGED permits

\* A poll after the grace period opens the first window; one after a window
\* ends the stream if it moved too little, and opens the next otherwise.
GraceOver(q) ==
  /\ http[q] # NoRequest /\ http[q].at = "body" /\ Streaming(http[q].kind)
  /\ ~http[q].graced
  /\ http' = [http EXCEPT ![q].graced = TRUE, ![q].chunks = 0]
  /\ UNCHANGED permits
WindowOver(q) ==
  /\ http[q] # NoRequest /\ http[q].at = "body" /\ http[q].graced
  /\ http' = IF http[q].chunks < MinimumChunks
               THEN [http EXCEPT ![q].at = "complete", ![q].graced = FALSE, ![q].chunks = 0]
               ELSE [http EXCEPT ![q].chunks = 0]
  /\ UNCHANGED permits

\* The end of the data, an error of the inner body, or the absolute deadline:
\* the body is complete, and its inner body is gone in the last case.
BodyCompletes(q) ==
  /\ http[q] # NoRequest /\ http[q].at = "body"
  /\ http' = [http EXCEPT ![q].at = "complete", ![q].graced = FALSE, ![q].chunks = 0]
  /\ UNCHANGED permits

\* hyper drops the body once it is complete, or when the client is gone.
BodyDropped(q) ==
  /\ http[q] # NoRequest /\ http[q].at \in {"body", "complete"}
  /\ Left(q, permits, [http[q] EXCEPT !.at = "dropped", !.owners = @ \ {"body"},
                                      !.graced = FALSE, !.chunks = 0])

-----------------------------------------------------------------------------
ResponseNext ==
  \E q \in HttpRequests :
    \/ \E c \in HttpClients, kind \in Kinds : response_admission(q, c, kind)
    \/ spawn_blocking(q)
    \/ WorkerEnds(q)
    \/ HandlerReturns(q)
    \/ HandlerDropped(q)
    \/ observe_frame(q)
    \/ GraceOver(q)
    \/ WindowOver(q)
    \/ BodyCompletes(q)
    \/ BodyDropped(q)

ResponseSpec == ResponseInit /\ [][ResponseNext]_responseVars

-----------------------------------------------------------------------------
Served(kinds) == {q \in HttpRequests : http[q] # NoRequest /\ http[q].kind \in kinds}
ServedTo(c, kinds) == {q \in Served(kinds) : http[q].client = c}

\* What is left of a request, a body or a worker that outlived both, is within
\* the limits of its kind, and the free permits are exactly what the limits
\* leave: a disconnect during a blocking read neither frees its permits early
\* nor loses them.
WorkWithinBudget ==
  /\ permits.stream + Cardinality(Served({"download", "public download"})) = StreamLimits.all
  /\ permits.public + Cardinality(Served({"public download"})) = StreamLimits.public
  /\ permits.buffered + Cardinality(Served({"page"})) = BufferedLimits.all
  /\ \A c \in HttpClients :
       /\ permits.stream_peer[c] + Cardinality(ServedTo(c, {"download", "public download"}))
            = StreamLimits.client
       /\ permits.buffered_peer[c] + Cardinality(ServedTo(c, {"page"})) = BufferedLimits.client
=============================================================================
