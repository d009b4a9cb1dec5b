-------------------------------- MODULE Tally --------------------------------
(***************************************************************************)
(* The sum of a counter over a set of owners, as the number of things      *)
(* counted: the requests of all connections, the shares of all accounts.   *)
(***************************************************************************)
EXTENDS Integers, FiniteSets

\* The things that f counts for the members of S, one by one.
Units(f, S) == UNION {{x} \X (1..f[x]) : x \in S}

\* The sum of f[x] over all x in S.
SumOf(f, S) == Cardinality(Units(f, S))
=============================================================================
