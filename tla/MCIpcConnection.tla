--------------------------- MODULE MCIpcConnection ---------------------------
(***************************************************************************)
(* A connection with a stream s, a unary request u, and a stream r that    *)
(* uses u's id again.                                                      *)
(***************************************************************************)
EXTENDS IpcConnection

CONSTANTS s, u, r

MCTasks == {s, u}
MCReuse == {u, r}
MCStreams == {s, r} \cap Tasks
MCIdOf == [t \in Tasks |-> IF t = s THEN 1 ELSE 2]
=============================================================================
