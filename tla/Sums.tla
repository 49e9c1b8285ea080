-------------------------------- MODULE Sums --------------------------------
(* Sums of the values of a function: a sum of naturals is the number of its *)
(* cells, as many for each value as it says.                                *)
EXTENDS Naturals, FiniteSets

At(f, x) == IF x \in DOMAIN f THEN f[x] ELSE 0

Cells(f) == UNION {{x} \X (1..f[x]) : x \in DOMAIN f}
Sum(f) == Cardinality(Cells(f))
=============================================================================
