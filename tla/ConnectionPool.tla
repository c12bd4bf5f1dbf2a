---------------------------- MODULE ConnectionPool ----------------------------
(***************************************************************************)
(* The limit on connections (ipc/connections.rs) and the listener that     *)
(* takes a guard for every client it accepts (ipc/listener.rs,             *)
(* server.rs, spawn_connection).  try_acquire reads the count and then     *)
(* exchanges it; other acquisitions and drops come in between.             *)
(***************************************************************************)
EXTENDS Naturals, FiniteSets

CONSTANTS
    Clients,
    MaxConnections    \* ConnectionConfig.max_connections

ASSUME ConnectionAssumption == IsFiniteSet(Clients) /\ MaxConnections \in Nat

VARIABLES
    active,      \* ConnectionPool.active
    client,      \* where each client's connection is
    seen,        \* the count each acquisition has read
    listening    \* the accept loop runs

poolVars == <<active, client, seen, listening>>

ConnectionInit ==
    /\ active = 0 /\ listening = TRUE
    /\ client = [c \in Clients |-> "away"]
    /\ seen = [c \in Clients |-> 0]

\* The accept loop hands the client on, until the shutdown signal.
Accept(c) ==
    /\ listening /\ client[c] = "away"
    /\ client' = [client EXCEPT ![c] = "acquiring"]
    /\ UNCHANGED <<active, seen, listening>>

\* try_acquire, the load: at the limit the client is turned away.
LoadActive(c) ==
    /\ client[c] = "acquiring"
    /\ IF active >= MaxConnections
       THEN client' = [client EXCEPT ![c] = "away"] /\ UNCHANGED seen
       ELSE /\ client' = [client EXCEPT ![c] = "exchanging"]
            /\ seen' = [seen EXCEPT ![c] = active]
    /\ UNCHANGED <<active, listening>>

\* A slip: the new count is stored without a look at the old one.
StoreActive(c) ==
    /\ client[c] = "exchanging"
    /\ active' = seen[c] + 1
    /\ client' = [client EXCEPT ![c] = "served"]
    /\ UNCHANGED <<seen, listening>>

\* try_acquire, compare_exchange: tried again when the count has changed.
ExchangeActive(c) ==
    /\ client[c] = "exchanging"
    /\ IF active = seen[c]
       THEN active' = seen[c] + 1 /\ client' = [client EXCEPT ![c] = "served"]
       ELSE UNCHANGED active /\ client' = [client EXCEPT ![c] = "acquiring"]
    /\ UNCHANGED <<seen, listening>>

\* handle_connection ends and drops the guard.
ReleaseConnection(c) ==
    /\ client[c] = "served"
    /\ active' = active - 1
    /\ client' = [client EXCEPT ![c] = "away"]
    /\ UNCHANGED <<seen, listening>>

\* shutdown_rx fires: the loop ends, served clients go on.
StopListening == listening /\ listening' = FALSE /\ UNCHANGED <<active, client, seen>>

ConnectionNext ==
    \/ \E c \in Clients : Accept(c) \/ LoadActive(c) \/ ExchangeActive(c) \/ ReleaseConnection(c)
    \/ StopListening

ConnectionSpec == ConnectionInit /\ [][ConnectionNext]_poolVars

\* The count is exactly the number of connections served, and never above the
\* limit, whatever acquisitions and drops interleave (connections.rs,
\* try_acquire and release).
ConnectionsBounded ==
    /\ active = Cardinality({c \in Clients : client[c] = "served"})
    /\ active <= MaxConnections
=============================================================================
