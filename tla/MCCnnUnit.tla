----------------------------- MODULE MCCnnUnit ------------------------------
(***************************************************************************)
(* CnnUnit for TLC: words of four bits, every input and weight, and enough *)
(* steps for a sum to leave the range of a word, come back and leave it    *)
(* again.                                                                  *)
(***************************************************************************)
EXTENDS CnnUnit
=============================================================================
