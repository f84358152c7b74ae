-------------------------------- MODULE Sums --------------------------------
(***************************************************************************)
(* Sums of natural numbers.                                                *)
(***************************************************************************)
EXTENDS Naturals, FiniteSets

(* The sum of the values of a function over its finite domain: each value  *)
(* is a set of so many units, and the units are counted.  What a fold over *)
(* the domain computes, said without recursion.                            *)
SumOf(f) == Cardinality(UNION {{x} \X (1 .. f[x]) : x \in DOMAIN f})

=============================================================================
