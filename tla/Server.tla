------------------------------- MODULE Server -------------------------------
(***************************************************************************)
(* The listeners of the server process, the connections they admit, and    *)
(* the end of the process: serve_application (one listener), the proxy     *)
(* runtime (an application listener over a Unix socket or mTLS, and a      *)
(* local health listener), the container's bootstrap proxy, the acceptors  *)
(* that count connections, and ConnectionLimitedIo, which closes the ones  *)
(* that stall or live too long.                                            *)
(***************************************************************************)
EXTENDS Integers, FiniteSets

CONSTANTS
  Sockets,           \* connections of the application listener
  Peers,             \* client_limit_key of the peer address
  MaxActive,         \* MAX_ACTIVE_CONNECTIONS
  MaxPerPeer,        \* MAX_ACTIVE_CONNECTIONS_PER_PEER
  MaxHandshakes,     \* MAX_PENDING_MTLS_HANDSHAKES
  Closed             \* no connection

ASSUME ServerAssumption ==
  /\ MaxActive \in Nat /\ MaxPerPeer \in Nat /\ MaxHandshakes \in Nat
  /\ MaxHandshakes < MaxActive

VARIABLES
  transport,    \* how the application is reached
  conn,         \* the connections
  slots,        \* free connection permits
  peerCount,    \* connections counted per peer
  handshakes,   \* free mTLS handshake permits
  trusted,      \* peers whose forwarding headers the container proxy trusts
  tasks,        \* the application's and the health listener's server task
  main          \* what the main task awaits

serverVars == <<transport, conn, slots, peerCount, handshakes, trusted, tasks, main>>
connectionVars == <<conn, slots, peerCount, handshakes>>

Transports == {"direct", "unix", "mtls", "container"}

\* Only the proxy runtime has a health listener.
HasHealth == transport \in {"unix", "mtls"}

ServerInit ==
  /\ transport \in Transports
  /\ conn = [s \in Sockets |-> Closed]
  /\ slots = MaxActive
  /\ peerCount = [p \in Peers |-> 0]
  /\ handshakes = MaxHandshakes
  /\ trusted = {}
  /\ tasks = [application |-> "serving", health |-> IF HasHealth THEN "serving" ELSE "ended"]
  /\ main = "serving"

-----------------------------------------------------------------------------
(* Accepting.  A refused connection is closed and leaves no trace: the     *)
(* permits taken before the refusal are dropped with it.                   *)

\* serve_application is given no trusted_proxy_peers: behind a reverse proxy the
\* runtime has listeners of its own.
peer_connection_limit(p) ==
  CASE transport = "direct" -> MaxPerPeer
    [] transport = "mtls" -> MaxActive
    [] transport = "unix" -> MaxActive
    [] transport = "container" -> IF p \in trusted THEN MaxActive ELSE MaxPerPeer

Counted(p, n) == peerCount' = [peerCount EXCEPT ![p] = @ + n]

\* A handshake in progress holds the connection's permits, and for mTLS one of
\* the handshake permits too; the Unix and the bootstrap listener have none.
accept(s, p) ==
  /\ tasks.application = "serving" /\ conn[s] = Closed
  /\ transport = "mtls" => handshakes > 0
  /\ slots > 0
  /\ peerCount[p] < peer_connection_limit(p)
  /\ slots' = slots - 1
  /\ Counted(p, 1)
  /\ handshakes' = IF transport = "mtls" THEN handshakes - 1 ELSE handshakes
  /\ conn' = [conn EXCEPT ![s] =
       [peer |-> p, at |-> IF transport \in {"direct", "mtls"} THEN "handshake" ELSE "open"]]
  /\ UNCHANGED <<transport, trusted, tasks, main>>

HandshakePermit(s) == IF transport = "mtls" /\ conn[s].at = "handshake" THEN 1 ELSE 0

HandshakeDone(s) ==
  /\ conn[s] # Closed /\ conn[s].at = "handshake"
  /\ handshakes' = handshakes + HandshakePermit(s)
  /\ conn' = [conn EXCEPT ![s].at = "open"]
  /\ UNCHANGED <<transport, slots, peerCount, trusted, tasks, main>>

\* ConnectionPermit and ConnectionLease: the permit and the peer's count
\* return when the stream is dropped.
DropConnection(s) ==
  /\ slots' = slots + 1
  /\ Counted(conn[s].peer, -1)
  /\ handshakes' = handshakes + HandshakePermit(s)
  /\ conn' = [conn EXCEPT ![s] = Closed]

\* The accept timeout, a failed handshake or a client that leaves during it.
HandshakeFails(s) ==
  /\ conn[s] # Closed /\ conn[s].at = "handshake"
  /\ DropConnection(s)
  /\ UNCHANGED <<transport, trusted, tasks, main>>

-----------------------------------------------------------------------------
(* ConnectionLimitedIo                                                     *)

\* A write the socket does not take arms the idle timer, one it takes in full
\* clears it.
track_incomplete_write(s) ==
  /\ conn[s] # Closed /\ conn[s].at \in {"open", "blocked"}
  /\ conn' = [conn EXCEPT ![s].at = IF @ = "open" THEN "blocked" ELSE "open"]
  /\ UNCHANGED <<transport, slots, peerCount, handshakes, trusted, tasks, main>>
\* The idle timer of a blocked write.
poll_write_deadline(s) ==
  /\ conn[s] # Closed /\ conn[s].at = "blocked"
  /\ DropConnection(s)
  /\ UNCHANGED <<transport, trusted, tasks, main>>
\* The connection's lifetime, whatever it is doing.
poll_connection_deadline(s) ==
  /\ conn[s] # Closed /\ conn[s].at \in {"open", "blocked"}
  /\ DropConnection(s)
  /\ UNCHANGED <<transport, trusted, tasks, main>>
\* The exchange is over, or the header timeout or the client ends it.
CloseConnection(s) ==
  /\ conn[s] # Closed /\ conn[s].at = "open"
  /\ DropConnection(s)
  /\ UNCHANGED <<transport, trusted, tasks, main>>

\* The bootstrap proxy reads the file the setup writes every so often, and
\* trusts nobody when it cannot.
reload_proxy_policy(ps) ==
  /\ transport = "container" /\ tasks.application = "serving"
  /\ trusted' = ps
  /\ UNCHANGED <<transport, connectionVars, tasks, main>>

-----------------------------------------------------------------------------
(* Shutting down                                                           *)

\* The signal reaches the task of each listener: no more connections are
\* accepted, the open ones have SERVER_DRAIN_TIMEOUT.
install_server_shutdown(l) ==
  /\ main = "serving" /\ transport # "container" /\ tasks[l] = "serving"
  /\ tasks' = [tasks EXCEPT ![l] = "draining"]
  /\ UNCHANGED <<transport, connectionVars, trusted, main>>

AllClosed ==
  /\ conn' = [s \in Sockets |-> Closed]
  /\ slots' = MaxActive
  /\ peerCount' = [p \in Peers |-> 0]
  /\ handshakes' = MaxHandshakes

\* The listener's task ends when its connections have, and at the deadline
\* without waiting for them: they die with the runtime.
DrainEnds(l) ==
  /\ tasks[l] = "draining"
  /\ l = "application" => \A s \in Sockets : conn[s] = Closed
  /\ tasks' = [tasks EXCEPT ![l] = "ended"]
  /\ UNCHANGED <<transport, connectionVars, trusted, main>>
DrainTimeout(l) ==
  /\ tasks[l] \in {"draining", "stopping"}
  /\ tasks' = [tasks EXCEPT ![l] = "ended"]
  /\ UNCHANGED <<transport, connectionVars, trusted, main>>

\* A listener that cannot be bound, or whose accept loop fails.
ListenerFails(l) ==
  /\ tasks[l] = "serving"
  /\ tasks' = [tasks EXCEPT ![l] = "ended"]
  /\ UNCHANGED <<transport, connectionVars, trusted, main>>

Other(l) == IF l = "application" THEN "health" ELSE "application"

\* Mutant: the runtime waits for the application's task alone.
AwaitApplication(l) ==
  /\ main = "serving" /\ HasHealth /\ l = "application" /\ tasks[l] = "ended"
  /\ main' = "other"
  /\ tasks' = [tasks EXCEPT ![Other(l)] = IF @ = "ended" THEN @ ELSE "stopping"]
  /\ UNCHANGED <<transport, connectionVars, trusted>>

\* Whichever task ends first, the other is stopped and waited for.
serve_proxy_application(l) ==
  /\ main = "serving" /\ HasHealth /\ tasks[l] = "ended"
  /\ main' = "other"
  /\ tasks' = [tasks EXCEPT ![Other(l)] = IF @ = "ended" THEN @ ELSE "stopping"]
  /\ UNCHANGED <<transport, connectionVars, trusted>>
\* Handle::shutdown closes the connections it finds open.
StopListener(l) ==
  /\ tasks[l] = "stopping"
  /\ IF l = "application" THEN AllClosed ELSE UNCHANGED connectionVars
  /\ tasks' = [tasks EXCEPT ![l] = "ended"]
  /\ UNCHANGED <<transport, trusted, main>>
OtherEnded ==
  /\ main = "other" /\ \A l \in DOMAIN tasks : tasks[l] = "ended"
  /\ main' = "cleanup"
  /\ UNCHANGED <<transport, connectionVars, trusted, tasks>>
serve_application ==
  /\ main = "serving" /\ ~HasHealth /\ tasks.application = "ended"
  /\ main' = "cleanup"
  /\ UNCHANGED <<transport, connectionVars, trusted, tasks>>

\* The cleanup worker is joined for CLEANUP_JOIN_TIMEOUT at most; the runtime is
\* then torn down without waiting, and every connection goes with it.  (The
\* bootstrap proxy's process has no worker to join and just ends.)
wait_for_cleanup_shutdown ==
  /\ main = "cleanup"
  /\ main' = "exited"
  /\ AllClosed
  /\ UNCHANGED <<transport, trusted, tasks>>

-----------------------------------------------------------------------------
Listeners == {"application", "health"}

ConnectionStep(s) ==
  \/ \E p \in Peers : accept(s, p)
  \/ HandshakeDone(s)
  \/ HandshakeFails(s)
  \/ track_incomplete_write(s)
  \/ poll_write_deadline(s)
  \/ poll_connection_deadline(s)
  \/ CloseConnection(s)
ListenerStep(l) ==
  \/ install_server_shutdown(l)
  \/ DrainEnds(l)
  \/ DrainTimeout(l)
  \/ ListenerFails(l)
  \/ serve_proxy_application(l)
  \/ StopListener(l)

ServerNext ==
  \/ \E s \in Sockets : ConnectionStep(s)
  \/ \E ps \in SUBSET Peers : reload_proxy_policy(ps)
  \/ \E l \in Listeners : ListenerStep(l)
  \/ OtherEnded
  \/ serve_application
  \/ wait_for_cleanup_shutdown

\* Timers fire and tasks that can go on do; nothing else is assumed, least of
\* all that a client finishes its handshake or reads what it asked for.
ServerFairness ==
  /\ \A l \in Listeners : WF_serverVars(DrainTimeout(l))
  /\ \A l \in Listeners : WF_serverVars(serve_proxy_application(l))
  /\ WF_serverVars(OtherEnded)
  /\ WF_serverVars(serve_application)
  /\ WF_serverVars(wait_for_cleanup_shutdown)

ServerSpec == ServerInit /\ [][ServerNext]_serverVars /\ ServerFairness

-----------------------------------------------------------------------------
Open(S) == {s \in S : conn[s] # Closed}

\* The permits and the per-peer counts are exactly the connections: no way a
\* connection ends, in its handshake, in a blocked write or at a shutdown,
\* keeps a peer's share or gives it away twice.
ConnectionsCounted ==
  /\ slots + Cardinality(Open(Sockets)) = MaxActive
  /\ \A p \in Peers : peerCount[p] = Cardinality({s \in Open(Sockets) : conn[s].peer = p})
  /\ transport = "mtls" =>
       handshakes + Cardinality({s \in Open(Sockets) : conn[s].at = "handshake"}) = MaxHandshakes

\* Once a listener drains or is gone, the process ends: neither a client that
\* keeps its connection nor the other listener holds it up.
StoppedListenerEndsProcess ==
  (\E l \in Listeners : tasks[l] = "draining" \/ (HasHealth /\ tasks[l] = "ended"))
    ~> (main = "exited")
=============================================================================
