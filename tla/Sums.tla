-------------------------------- MODULE Sums --------------------------------
(***************************************************************************)
(* Sums of natural numbers over a finite set, counted unit by unit: a sum  *)
(* is a cardinality, and what is true of sums follows from what is true of *)
(* finite sets.                                                            *)
(***************************************************************************)
EXTENDS Integers, FiniteSets

\* One pair per element x of S and unit of f[x].
Units(f, S) == UNION {{x} \X (1..f[x]) : x \in S}

\* The sum of f over the finite set S, for f with values in Nat.
SumOf(f, S) == Cardinality(Units(f, S))
=============================================================================
