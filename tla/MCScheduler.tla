----------------------------- MODULE MCScheduler -----------------------------
(***************************************************************************)
(* A small instance of Scheduler.  u1 and u2 have one priority and u3 a    *)
(* higher one; s1 is a stream; x is too long for the context and z is a    *)
(* stream with a zero timeout.                                             *)
(***************************************************************************)
EXTENDS Scheduler, TLC

CONSTANTS u1, u2, u3, s1, x, z

MCMixed == {u1, u2, s1}
MCOrder == {u1, u2, u3, x, z}
MCPair == {u1, s1}
MCStreams == {s1, z} \cap Requests
MCTimed == {u1, s1} \cap Requests
MCTimedStream == {s1}
MCUntimed == {}
\* u1 and u2 differ in nothing when neither has a deadline.
MCSymmetry == Permutations({u1, u2})
MCPriorityOf == [r \in Requests |-> IF r = u3 THEN 2 ELSE 1]
\* 7 bytes are one token, 8 are two.
MCPromptBytes == [r \in Requests |-> IF r = x THEN 8 ELSE 7]
=============================================================================
