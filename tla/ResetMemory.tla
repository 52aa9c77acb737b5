---------------------------- MODULE ResetMemory ----------------------------
(***************************************************************************)
(* SeqMemory with a reset of the core in any cycle.  Loads see a store     *)
(* from the cycle of its data on, but it survives a reset only once its    *)
(* data have come and a cycle without a load has followed its address; the *)
(* latest store is the only one a reset may undo.                          *)
(***************************************************************************)
EXTENDS SeqMemory

VARIABLE kept  \* the word a reset leaves in the row of the last store

allVars == <<vars, kept>>

ResetInit == Init /\ kept = mem[prow]

(* A cycle without a load writes the last store for good. *)
KeepsAll == kept' = mem'[prow']

Reset ==
  /\ mem' = [mem EXCEPT ![prow] = kept]
  /\ prow' = 0
  /\ pstrb' = {}
  /\ rd' = NoLoad
  /\ KeepsAll

ResetNext ==
  \/ \E wr \in Word : Idle(wr) /\ KeepsAll
  \/ \E a \in Row, wr \in Word : Load(a, wr) /\ UNCHANGED kept
  \/ \E a \in Row, s \in Strobe \ {{}}, wr \in Word : Store(a, s, wr) /\ KeepsAll
  \/ \E a \in Row, l \in Lane, v \in Byte :
       Poke(a, l, v) /\ kept' = IF a = prow THEN [kept EXCEPT ![l] = v] ELSE kept
  \/ Reset

ResetSpec == ResetInit /\ [][ResetNext]_allVars
=============================================================================
