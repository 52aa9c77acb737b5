------------------------------- MODULE Powers -------------------------------
(***************************************************************************)
(* Powers of two, 1 << n in the sources, as a function the proofs can      *)
(* unfold.                                                                 *)
(***************************************************************************)
EXTENDS Integers

Pow2[n \in Nat] == IF n = 0 THEN 1 ELSE 2 * Pow2[n - 1]
=============================================================================
