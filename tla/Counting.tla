------------------------------- MODULE Counting -------------------------------
(***************************************************************************)
(* What the members of a set add up to, as the number of their units (unit *)
(* i of member x is the pair <<x, i>>), and the numbers of a set in order. *)
(***************************************************************************)
EXTENDS Integers, FiniteSets

Units(f, S) == UNION {{x} \X (1 .. f[x]) : x \in S}
Total(f, S) == Cardinality(Units(f, S))

\* How many numbers of S come before i, and the numbers of S in ascending order.
Smaller(S, i) == Cardinality({j \in S : j < i})
Ascending(S) == [k \in 1 .. Cardinality(S) |-> CHOOSE i \in S : Smaller(S, i) = k - 1]
===============================================================================
