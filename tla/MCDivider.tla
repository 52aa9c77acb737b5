----------------------------- MODULE MCDivider -----------------------------
(***************************************************************************)
(* Divider for TLC: every pair of four-bit operands, all four operations,  *)
(* a register and x0 as destinations.                                      *)
(***************************************************************************)
EXTENDS Divider
=============================================================================
