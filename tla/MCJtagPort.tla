----------------------------- MODULE MCJtagPort -----------------------------
(***************************************************************************)
(* JtagPort for TLC: two instructions and two words, enough to tell one    *)
(* that is mistaken for another.                                           *)
(***************************************************************************)
EXTENDS JtagPort

MCInstrs == {"i1", "i2"}
MCWords == {"d1", "d2"}
=============================================================================
