---------------------------- MODULE PowersOfTwo -----------------------------
(***************************************************************************)
(* What a shift multiplies or divides by, as a recursive function.         *)
(***************************************************************************)
EXTENDS Naturals

Pow2[e \in Nat] == IF e = 0 THEN 1 ELSE 2 * Pow2[e - 1]

=============================================================================
