------------------------------ MODULE MCDmWbb ------------------------------
(***************************************************************************)
(* DmWbb for TLC: two rows (a load that hits and one that misses the       *)
(* buffer), two byte lanes (a store that covers all, one or the other      *)
(* lane) and two byte values.                                              *)
(***************************************************************************)
EXTENDS DmWbb
=============================================================================
