------------------------------- MODULE Totals -------------------------------
(***************************************************************************)
(* Sums over finite sets.  A sum is the size of a set, so that it can be   *)
(* reasoned about with the theorems on cardinality; the sums of this code  *)
(* are of amounts and weights, which are natural numbers.                  *)
(***************************************************************************)
EXTENDS Integers, FiniteSets

\* The units that the elements of S hold, f[x] of them each.
Units(f, S) == UNION {{x} \X (1 .. f[x]) : x \in S}

\* What f adds up to on S.
Total(f, S) == Cardinality(Units(f, S))
=============================================================================
